----------------------------- MODULE EvalProofs -----------------------------
(***************************************************************************)
(* Methods leave their callers' registers alone, and the reference counts  *)
(* of strings are exact, for any code, stack size and number of strings,   *)
(* objects and names, and however deep calls nest.                         *)
(***************************************************************************)
EXTENDS Eval, FiniteSetTheorems, TLAPS

-----------------------------------------------------------------------------
(* The inductive invariant.                                                *)

\* A frame that begins at f is on a stack up to cell s.
OnStack(f, s) == f <= s + 1

\* The current frame is the highest and its registers are on the stack.
FramesStacked ==
  /\ DOMAIN stack = Cells
  /\ sp \in 0 .. StackSize
  /\ fp \in frames /\ OnStack(fp, sp)
  /\ frames \subseteq Frame
  /\ 1 \in frames
  /\ \A f \in frames : f <= fp

\* The frame of the caller is the next lower one, below the three cells.
CallersBelow ==
  \A f \in frames \ {1} :
    /\ saved[f].fp \in frames
    /\ saved[f].fp <= f - 3
    /\ \A g \in frames : g < f => g <= saved[f].fp

\* From the current frame on there are only values,
ValuesAbove == \A j \in Cells : j >= fp => stack[j] \in Value

\* and so there are in the frame of each caller.
CallersValues ==
  \A f \in frames \ {1} :
    /\ saved[f].obj \in Objs
    /\ \A j \in Cells : saved[f].fp <= j /\ j < f - 3 => stack[j] \in Value

ObjectsTyped ==
  /\ obj \in Objs
  /\ global \in [Objs -> [Names -> Value]]
  /\ parent \in [Objs -> Objs \cup {NoOne}]

EvalInv ==
  /\ FramesStacked
  /\ CallersBelow
  /\ ValuesAbove
  /\ CallersValues
  /\ CallersKept
  /\ ObjectsTyped
  /\ ~running => fp = 1

-----------------------------------------------------------------------------
(* The three kinds of steps: those inside a frame, those that begin or end *)
(* an evaluation, and those that call or return.                           *)

LEMMA InsideFrame ==
  ASSUME EvalInv, UNCHANGED <<frameVars, running>>,
         sp' \in 0 .. StackSize, OnStack(fp, sp'), DOMAIN stack' = Cells,
         \A j \in Cells : j < fp => stack'[j] = stack[j],
         \A j \in Cells : j >= fp => stack'[j] \in Value,
         global' \in [Objs -> [Names -> Value]],
         parent' \in [Objs -> Objs \cup {NoOne}]
  PROVE  EvalInv'
<1>1. /\ FramesStacked /\ CallersBelow /\ CallersValues /\ CallersKept
      /\ fp' = fp /\ obj' = obj /\ frames' = frames /\ saved' = saved
  BY DEF EvalInv, frameVars
<1>2. /\ fp \in Nat
      /\ \A f \in frames : f \in Nat /\ f >= 1 /\ f <= fp /\ f <= StackSize + 1
  BY <1>1, EvalAssumption DEF FramesStacked, Frame
<1>3. FramesStacked'
  BY <1>1 DEF FramesStacked
<1>4. CallersBelow'
  BY <1>1 DEF CallersBelow
<1>5. ValuesAbove'
  BY <1>1 DEF ValuesAbove
<1>6. \A f \in frames : \A j \in Cells : j < f => stack'[j] = stack[j]
  BY <1>2, EvalAssumption DEF Cells
<1>7. CallersValues'
  <2> SUFFICES ASSUME NEW f \in frames \ {1}
               PROVE  /\ saved[f].obj \in Objs
                      /\ \A j \in Cells : saved[f].fp <= j /\ j < f - 3
                                          => stack'[j] \in Value
    BY <1>1 DEF CallersValues
  <2>1. \A j \in Cells : j < f - 3 => stack'[j] = stack[j]
    BY <1>2, <1>6, EvalAssumption DEF Cells
  <2>2. QED
    BY <1>1, <2>1 DEF CallersValues
<1>8. CallersKept'
  <2> SUFFICES ASSUME NEW f \in frames \ {1}
               PROVE  /\ \A j \in 1 .. f - 4 : stack'[j] = saved[f].cells[j]
                      /\ stack'[f - 3] = OldFp(saved[f].fp)
                      /\ stack'[f - 2] = ReturnTo
                      /\ stack'[f - 1] = OldObj(saved[f].obj)
    BY <1>1 DEF CallersKept
  <2>1. saved[f].fp \in Nat /\ saved[f].fp >= 1 /\ saved[f].fp <= f - 3
    BY <1>1, <1>2 DEF CallersBelow
  <2>2. /\ f - 3 \in Cells /\ f - 2 \in Cells /\ f - 1 \in Cells
        /\ \A j \in 1 .. f - 4 : j \in Cells /\ j < f
        /\ f - 3 < f /\ f - 2 < f /\ f - 1 < f
    BY <2>1, <1>2, EvalAssumption DEF Cells
  <2>3. /\ stack'[f - 3] = stack[f - 3] /\ stack'[f - 2] = stack[f - 2]
        /\ stack'[f - 1] = stack[f - 1]
        /\ \A j \in 1 .. f - 4 : stack'[j] = stack[j]
    BY <2>2, <1>6
  <2>4. QED
    BY <1>1, <2>3 DEF CallersKept
<1>9. ObjectsTyped'
  BY <1>1 DEF EvalInv, ObjectsTyped
<1>10. QED
  BY <1>1, <1>3, <1>4, <1>5, <1>7, <1>8, <1>9 DEF EvalInv

LEMMA FirstFrame ==
  ASSUME NEW o \in Objs, NewFrame(o),
         sp' \in 0 .. StackSize,
         DOMAIN stack' = Cells, \A j \in Cells : stack'[j] \in Value,
         global' \in [Objs -> [Names -> Value]],
         parent' \in [Objs -> Objs \cup {NoOne}]
  PROVE  EvalInv'
<1>1. fp' = 1 /\ obj' = o /\ frames' = {1}
  BY DEF NewFrame
<1>2. FramesStacked'
  <2>1. DOMAIN stack' = Cells
    OBVIOUS
  <2>2. StackSize \in Nat
    BY EvalAssumption
  <2>3. OnStack(1, sp')
    <3>1. \A s \in 0 .. StackSize : OnStack(1, s)
      BY <2>2 DEF OnStack
    <3>2. QED
      BY <3>1
  <2>4. 1 \in Frame
    BY <2>2 DEF Frame
  <2>5. QED
    BY <1>1, <2>1, <2>3, <2>4 DEF FramesStacked
<1>3. CallersBelow' /\ CallersValues' /\ CallersKept'
  BY <1>1 DEF CallersBelow, CallersValues, CallersKept
<1>4. ValuesAbove' /\ ObjectsTyped'
  BY <1>1 DEF ValuesAbove, ObjectsTyped
<1>5. QED
  BY <1>1, <1>2, <1>3, <1>4 DEF EvalInv

LEMMA OverInv ==
  ASSUME EvalInv, Over,
         global' \in [Objs -> [Names -> Value]],
         parent' \in [Objs -> Objs \cup {NoOne}]
  PROVE  EvalInv' /\ ~running'
<1>1. NewFrame(Root) /\ sp' = 0 /\ stack' = EmptyStack /\ ~running'
  BY DEF Over
<1>2. DOMAIN stack' = Cells /\ \A j \in Cells : stack'[j] \in Value
  BY <1>1 DEF EmptyStack, Value
<1>3. QED
  BY <1>1, <1>2, FirstFrame, EvalAssumption

LEMMA StopInv ==
  ASSUME EvalInv, NEW f, Stop(f)
  PROVE  EvalInv' /\ ~running'
<1>1. Over
  BY DEF Stop
<1>2. global' \in [Objs -> [Names -> Value]] /\ parent' \in [Objs -> Objs \cup {NoOne}]
  BY DEF Stop, Value
<1>3. QED
  BY <1>1, <1>2, OverInv

-----------------------------------------------------------------------------
(* Instructions that leave the frame.                                      *)

LEMMA RegsFacts ==
  ASSUME EvalInv
  PROVE  /\ StackSize \in Nat /\ fp \in Nat /\ fp >= 1 /\ sp \in 0 .. StackSize
         /\ Regs \subseteq Cells
         /\ \A r \in Regs : r \in Nat /\ r >= fp /\ r <= sp /\ stack[r] \in Value
<1>1. FramesStacked /\ ValuesAbove
  BY DEF EvalInv
<1>2. StackSize \in Nat /\ fp \in Nat /\ fp >= 1 /\ sp \in 0 .. StackSize
  BY <1>1, EvalAssumption DEF FramesStacked, Frame
<1>3. \A r \in Regs : r \in Nat /\ r >= fp /\ r <= sp /\ r \in Cells
  BY <1>2 DEF Regs, Cells
<1>4. QED
  BY <1>1, <1>2, <1>3 DEF ValuesAbove

\* One register changes, at most, and the stack stays as high as it was.
LEMMA RegisterInv ==
  ASSUME EvalInv, NEW dst \in Regs, NEW v \in Value,
         stack' = [stack EXCEPT ![dst] = v],
         UNCHANGED <<sp, frameVars, running>>,
         global' \in [Objs -> [Names -> Value]],
         parent' \in [Objs -> Objs \cup {NoOne}]
  PROVE  EvalInv'
<1>1. FramesStacked /\ ValuesAbove
  BY DEF EvalInv
<1>2. DOMAIN stack' = Cells /\ sp' \in 0 .. StackSize /\ OnStack(fp, sp')
  BY <1>1 DEF FramesStacked
<1>3. \A j \in Cells : stack'[j] = IF j = dst THEN v ELSE stack[j]
  BY <1>1 DEF FramesStacked
<1>4. dst \in Nat /\ dst >= fp /\ fp \in Nat
  BY RegsFacts
<1>5. \A j \in Cells : j < fp => j # dst
  BY <1>4, EvalAssumption DEF Cells
<1>6. \A j \in Cells : j < fp => stack'[j] = stack[j]
  BY <1>3, <1>5
<1>7. \A j \in Cells : j >= fp => stack'[j] \in Value
  BY <1>1, <1>3 DEF ValuesAbove
<1>8. UNCHANGED <<frameVars, running>>
  OBVIOUS
<1>9. QED
  BY <1>2, <1>6, <1>7, <1>8, InsideFrame

LEMMA SetInv ==
  ASSUME EvalInv, NEW dst \in Regs, NEW v \in Value, NEW h, Set(dst, v, h)
  PROVE  EvalInv'
<1>1. /\ stack' = [stack EXCEPT ![dst] = v]
      /\ UNCHANGED <<sp, frameVars, running, global, parent>>
  BY DEF Set, objVars, taskVars
<1>2. global' \in [Objs -> [Names -> Value]] /\ parent' \in [Objs -> Objs \cup {NoOne}]
  BY <1>1 DEF EvalInv, ObjectsTyped
<1>3. QED
  BY <1>1, <1>2, RegisterInv

LEMMA UnchangedInv == EvalInv /\ UNCHANGED evalVars => EvalInv'
  BY DEF EvalInv, FramesStacked, CallersBelow, ValuesAbove, CallersValues,
         CallersKept, ObjectsTyped, evalVars, Regs

LEMMA ValueKinds ==
  /\ Plain \in Value
  /\ \A s \in Strings : String(s) \in Value
  /\ \A o \in Objs : ObjRef(o) \in Value
  /\ \A v \in Value : v.type = "objref" => v.at \in Objs
<1>1. Plain \in Value
  BY DEF Value
<1>2. \A s \in Strings : String(s) \in Value
  BY DEF Value
<1>3. \A o \in Objs : ObjRef(o) \in Value
  BY DEF Value
<1>4. ASSUME NEW v \in Value, v.type = "objref"
      PROVE  v.at \in Objs
  <2>1. v = Plain \/ (\E s \in Strings : v = String(s)) \/ \E o \in Objs : v = ObjRef(o)
    BY DEF Value
  <2>2. CASE v = Plain
    BY <1>4, <2>2 DEF Plain
  <2>3. ASSUME NEW s \in Strings, v = String(s)
        PROVE  v.at \in Objs
    BY <1>4, <2>3 DEF String
  <2>4. ASSUME NEW o \in Objs, v = ObjRef(o)
        PROVE  v.at \in Objs
    BY <2>4 DEF ObjRef
  <2>5. QED
    BY <2>1, <2>2, <2>3, <2>4
<1>5. QED
  BY <1>1, <1>2, <1>3, <1>4

\* The instructions that write no more than one register and stop or go on.
LEMMA ComputeInv ==
  ASSUME EvalInv, NEW x \in Regs,
         \/ LoadPlain(x) \/ LoadString(x) \/ Logic(x) \/ Compare(x) \/ Calculate(x)
         \/ Length(x) \/ Concat(x) \/ Self(x) \/ Parent(x) \/ GetGlobal(x)
         \/ \E y \in Regs : Mov(x, y)
  PROVE  EvalInv' /\ (fp' = fp \/ ~running')
<1>1. /\ Plain \in Value
      /\ \A s \in Strings : String(s) \in Value
      /\ \A o \in Objs : ObjRef(o) \in Value
  BY ValueKinds
<1>2. ASSUME NEW v \in Value, NEW h, Set(x, v, h)
      PROVE  EvalInv' /\ fp' = fp
  <2>1. fp' = fp
    BY <1>2 DEF Set, frameVars
  <2>2. QED
    BY <1>2, <2>1, SetInv
<1>3. ASSUME Stop("assert")
      PROVE  EvalInv' /\ ~running'
  BY <1>3, StopInv
<1>4. ASSUME Skip
      PROVE  EvalInv' /\ fp' = fp
  <2>1. UNCHANGED evalVars
    BY <1>4 DEF Skip
  <2>2. fp' = fp
    BY <2>1 DEF evalVars
  <2>3. QED
    BY <2>1, <2>2, UnchangedInv
<1>5. CASE LoadPlain(x)
  BY <1>1, <1>2, <1>5 DEF LoadPlain
<1>6. CASE LoadString(x)
  BY <1>1, <1>2, <1>6 DEF LoadString
<1>7. CASE Logic(x)
  BY <1>1, <1>2, <1>3, <1>7 DEF Logic
<1>8. CASE Compare(x)
  BY <1>1, <1>2, <1>3, <1>8 DEF Compare
<1>9. CASE Calculate(x)
  BY <1>1, <1>2, <1>3, <1>4, <1>9 DEF Calculate
<1>10. CASE Length(x)
  BY <1>1, <1>2, <1>3, <1>4, <1>10 DEF Length
<1>11. CASE Concat(x)
  BY <1>1, <1>2, <1>3, <1>4, <1>11 DEF Concat
<1>12. CASE Self(x)
  <2>1. obj \in Objs
    BY DEF EvalInv, ObjectsTyped
  <2>2. QED
    BY <1>1, <1>2, <1>12, <2>1 DEF Self
<1>13. CASE Parent(x)
  <2> DEFINE v == IF parent[obj] = NoOne THEN Plain ELSE ObjRef(parent[obj])
  <2>1. parent[obj] \in Objs \cup {NoOne}
    BY DEF EvalInv, ObjectsTyped
  <2>2. v \in Value
    BY <2>1, <1>1
  <2>3. Set(x, v, refs)
    BY <1>13 DEF Parent
  <2>4. QED
    BY <1>2, <2>2, <2>3
<1>14. CASE GetGlobal(x)
  <2>1. \A g \in Names : global[obj][g] \in Value
    BY DEF EvalInv, ObjectsTyped
  <2>2. QED
    BY <1>2, <1>3, <1>14, <2>1 DEF GetGlobal
<1>15. ASSUME NEW y \in Regs, Mov(x, y)
       PROVE  EvalInv' /\ fp' = fp
  <2>1. Cleared(x, y) \in Value
    BY <1>1, RegsFacts DEF Cleared
  <2>2. QED
    BY <1>2, <1>15, <2>1 DEF Mov
<1>16. QED
  BY <1>5, <1>6, <1>7, <1>8, <1>9, <1>10, <1>11, <1>12, <1>13, <1>14, <1>15

LEMMA SetGlobalInv ==
  ASSUME EvalInv, NEW r \in Regs, SetGlobal(r)
  PROVE  EvalInv' /\ (fp' = fp \/ ~running')
<1>1. CASE Stop("assert")
  BY <1>1, StopInv
<1>2. CASE ~Stop("assert")
  <2>1. /\ \E g \in Names : global' = [global EXCEPT ![obj][g] = stack[r]]
        /\ UNCHANGED <<stack, sp, frameVars, running, parent>>
    BY <1>2 DEF SetGlobal, taskVars
  <2>2. FramesStacked /\ ValuesAbove /\ ObjectsTyped
    BY DEF EvalInv
  <2>3. stack[r] \in Value
    BY RegsFacts
  <2>4. global' \in [Objs -> [Names -> Value]] /\ parent' \in [Objs -> Objs \cup {NoOne}]
    BY <2>1, <2>2, <2>3 DEF ObjectsTyped
  <2>5. /\ DOMAIN stack' = Cells /\ sp' \in 0 .. StackSize /\ OnStack(fp, sp')
        /\ \A j \in Cells : j < fp => stack'[j] = stack[j]
        /\ \A j \in Cells : j >= fp => stack'[j] \in Value
    BY <2>1, <2>2 DEF FramesStacked, ValuesAbove
  <2>6. UNCHANGED <<frameVars, running>> /\ fp' = fp
    BY <2>1 DEF frameVars
  <2>7. QED
    BY <2>4, <2>5, <2>6, InsideFrame
<1>3. QED
  BY <1>1, <1>2

LEMMA MakeObjInv ==
  ASSUME EvalInv, NEW dst \in Regs, NEW src \in Regs, MakeObj(dst, src)
  PROVE  EvalInv' /\ (fp' = fp \/ ~running')
<1>1. CASE stack[src].type # "objref"
  <2>1. Stop("assert")
    BY <1>1 DEF MakeObj
  <2>2. QED
    BY <2>1, StopInv
<1>2. CASE stack[src].type = "objref"
  <2>1. PICK o \in Objs :
          /\ stack' = [stack EXCEPT ![dst] = ObjRef(o)]
          /\ parent' = [parent EXCEPT ![o] = stack[src].at]
          /\ UNCHANGED <<sp, frameVars, running, global>>
    BY <1>2 DEF MakeObj, taskVars
  <2>2. ObjRef(o) \in Value /\ stack[src].at \in Objs
    BY <1>2, RegsFacts, ValueKinds
  <2>3. /\ global' \in [Objs -> [Names -> Value]]
        /\ parent' \in [Objs -> Objs \cup {NoOne}]
    BY <2>1, <2>2 DEF EvalInv, ObjectsTyped
  <2>4. EvalInv'
    BY <2>1, <2>2, <2>3, RegisterInv
  <2>5. fp' = fp
    BY <2>1 DEF frameVars
  <2>6. QED
    BY <2>4, <2>5
<1>3. QED
  BY <1>1, <1>2

-----------------------------------------------------------------------------
(* Instructions that move the end of the stack.                            *)

LEMMA EndMoves ==
  ASSUME EvalInv, NEW n \in 0 .. StackSize, OnStack(fp, n), sp' = n,
         UNCHANGED <<frameVars, objVars, running>>,
         DOMAIN stack' = Cells,
         \A j \in Cells : j < fp => stack'[j] = stack[j],
         \A j \in Cells : j >= fp => stack'[j] \in Value
  PROVE  EvalInv' /\ fp' = fp
<1>1. global' \in [Objs -> [Names -> Value]] /\ parent' \in [Objs -> Objs \cup {NoOne}]
  BY DEF EvalInv, ObjectsTyped, objVars
<1>2. UNCHANGED <<frameVars, running>> /\ sp' \in 0 .. StackSize /\ OnStack(fp, sp')
  OBVIOUS
<1>3. fp' = fp
  BY DEF frameVars
<1>4. QED
  BY <1>1, <1>2, <1>3, InsideFrame

LEMMA PushInv ==
  ASSUME EvalInv, NEW src \in Regs, Push(src)
  PROVE  EvalInv' /\ fp' = fp
<1>1. FramesStacked /\ ValuesAbove
  BY DEF EvalInv
<1>2. sp + 1 \in 0 .. StackSize /\ OnStack(fp, sp + 1) /\ sp + 1 >= fp
  <2>1. sp < StackSize /\ OnStack(fp, sp)
    BY <1>1 DEF Push, FramesStacked
  <2>2. QED
    BY <2>1, RegsFacts DEF OnStack
<1>3. /\ stack' = [stack EXCEPT ![sp + 1] = stack[src]] /\ sp' = sp + 1
      /\ UNCHANGED <<frameVars, objVars, running>>
  BY DEF Push, taskVars
<1>4. /\ DOMAIN stack' = Cells
      /\ \A j \in Cells : stack'[j] = IF j = sp + 1 THEN stack[src] ELSE stack[j]
  BY <1>1, <1>3 DEF FramesStacked
<1>5. \A j \in Cells : j < fp => j # sp + 1
  BY <1>2, RegsFacts DEF Cells
<1>6. stack[src] \in Value
  BY RegsFacts
<1>7. /\ \A j \in Cells : j < fp => stack'[j] = stack[j]
      /\ \A j \in Cells : j >= fp => stack'[j] \in Value
  BY <1>1, <1>4, <1>5, <1>6 DEF ValuesAbove
<1>8. QED
  BY <1>2, <1>3, <1>4, <1>7, EndMoves

LEMMA PopInv ==
  ASSUME EvalInv, NEW dst \in Regs, Pop(dst)
  PROVE  EvalInv' /\ fp' = fp
<1>1. FramesStacked /\ ValuesAbove /\ Plain \in Value
  BY ValueKinds DEF EvalInv
<1>2. dst \in Nat /\ dst >= fp /\ dst <= sp /\ fp \in Nat /\ fp >= 1 /\ sp \in 0 .. StackSize
  BY RegsFacts
<1>3. sp - 1 \in 0 .. StackSize /\ OnStack(fp, sp - 1) /\ sp >= fp /\ sp \in Nat
  BY <1>2, RegsFacts DEF OnStack
<1>4. /\ stack' = [stack EXCEPT ![dst] = Cleared(dst, sp), ![sp] = Plain]
      /\ sp' = sp - 1
      /\ UNCHANGED <<frameVars, objVars, running>>
  BY DEF Pop, taskVars
<1>5. /\ DOMAIN stack' = Cells
      /\ \A j \in Cells : stack'[j] = IF j = sp THEN Plain
                                       ELSE IF j = dst THEN Cleared(dst, sp) ELSE stack[j]
  BY <1>1, <1>4 DEF FramesStacked
<1>6. \A j \in Cells : j < fp => j # sp /\ j # dst
  BY <1>2, <1>3 DEF Cells
<1>7. sp \in Cells
  BY <1>2, <1>3, RegsFacts DEF Cells
<1>8. Cleared(dst, sp) \in Value
  BY <1>1, <1>3, <1>7 DEF Cleared, ValuesAbove
<1>9. /\ \A j \in Cells : j < fp => stack'[j] = stack[j]
      /\ \A j \in Cells : j >= fp => stack'[j] \in Value
  BY <1>1, <1>5, <1>6, <1>8 DEF ValuesAbove
<1>10. QED
  BY <1>3, <1>4, <1>5, <1>9, EndMoves

LEMMA ArgsLocalsInv ==
  ASSUME EvalInv, NEW n \in Nat, ArgsLocals(n)
  PROVE  EvalInv' /\ (fp' = fp \/ ~running')
<1>1. CASE sp + n > StackSize
  BY <1>1, StopInv DEF ArgsLocals
<1>2. CASE ~(sp + n > StackSize)
  <2>1. FramesStacked /\ ValuesAbove
    BY DEF EvalInv
  <2>2. sp' = sp + n /\ stack' = stack /\ UNCHANGED <<frameVars, objVars, running>>
    BY <1>2 DEF ArgsLocals, taskVars
  <2>3. sp + n \in 0 .. StackSize /\ OnStack(fp, sp + n)
    <3>1. OnStack(fp, sp)
      BY <2>1 DEF FramesStacked
    <3>2. QED
      BY <3>1, <1>2, RegsFacts DEF OnStack
  <2>4. /\ DOMAIN stack' = Cells
        /\ \A j \in Cells : j < fp => stack'[j] = stack[j]
        /\ \A j \in Cells : j >= fp => stack'[j] \in Value
    BY <2>1, <2>2 DEF FramesStacked, ValuesAbove
  <2>5. QED
    BY <2>2, <2>3, <2>4, EndMoves
<1>3. QED
  BY <1>1, <1>2

LEMMA SyscallInv ==
  ASSUME EvalInv, NEW n \in Nat, Syscall(n)
  PROVE  EvalInv' /\ (fp' = fp \/ ~running')
<1>1. CASE Skip
  <2>1. UNCHANGED evalVars /\ fp' = fp
    BY <1>1 DEF Skip, evalVars
  <2>2. QED
    BY <2>1, UnchangedInv
<1>2. CASE Stop("assert")
  BY <1>2, StopInv
<1>3. CASE ~Skip /\ ~Stop("assert")
  <2>1. FramesStacked /\ ValuesAbove /\ Plain \in Value
    BY ValueKinds DEF EvalInv
  <2>2. /\ sp - n >= fp
        /\ sp' = sp - n - 1
        /\ stack' = [j \in Cells |-> IF j < sp - n THEN stack[j] ELSE Plain]
        /\ UNCHANGED <<frameVars, objVars, running>>
    BY <1>3 DEF Syscall, taskVars
  <2>3. sp - n - 1 \in 0 .. StackSize /\ OnStack(fp, sp - n - 1)
    BY <2>2, RegsFacts DEF OnStack
  <2>4. \A j \in Cells : j < fp => j < sp - n
    BY <2>2, RegsFacts DEF Cells
  <2>5. DOMAIN stack' = Cells
    BY <2>2
  <2>6. /\ \A j \in Cells : j < fp => stack'[j] = stack[j]
        /\ \A j \in Cells : j >= fp => stack'[j] \in Value
    BY <2>1, <2>2, <2>4 DEF ValuesAbove
  <2>7. QED
    BY <2>2, <2>3, <2>5, <2>6, EndMoves
<1>4. QED
  BY <1>1, <1>2, <1>3

-----------------------------------------------------------------------------
(* Calls and returns.                                                      *)

\* A call to a frame at f.
CallTo(f) ==
  /\ f - 3 >= fp
  /\ stack[f - 3].type = "objref"
  /\ stack' = Linked(f)
  /\ obj' = stack[f - 3].at
  /\ fp' = f
  /\ frames' = frames \cup {f}
  /\ saved' = [g \in frames' \ {1} |->
                 IF g = f THEN [fp |-> fp, obj |-> obj, cells |-> stack]
                          ELSE saved[g]]
  /\ UNCHANGED <<sp, objVars, running>>

LEMMA CallIsCallTo ==
  ASSUME EvalInv, NEW n \in Nat, Call(n)
  PROVE  /\ sp - n + 1 \in Nat /\ sp - n + 1 <= sp + 1
         /\ CallTo(sp - n + 1)
<1>1. (sp - n + 1) - 3 >= fp
  BY DEF Call
<1>2. sp - n + 1 \in Nat /\ sp - n + 1 <= sp + 1
  BY <1>1, RegsFacts
<1>3. CallTo(sp - n + 1)
  BY DEF Call, CallTo, taskVars
<1>4. QED
  BY <1>2, <1>3

LEMMA CallToInv ==
  ASSUME EvalInv, running, NEW f \in Nat, f <= sp + 1, CallTo(f)
  PROVE  EvalInv'
<1>1. /\ FramesStacked /\ CallersBelow /\ ValuesAbove /\ CallersValues
      /\ CallersKept /\ ObjectsTyped
  BY DEF EvalInv
<1>2. /\ StackSize \in Nat /\ fp \in Nat /\ fp >= 1 /\ sp \in 0 .. StackSize
      /\ f - 3 >= fp /\ f > fp
      /\ \A g \in frames : g \in Nat /\ g >= 1 /\ g <= fp
  <2>1. f - 3 >= fp
    BY DEF CallTo
  <2>2. \A g \in frames : g \in Nat /\ g >= 1 /\ g <= fp
    BY <1>1, EvalAssumption DEF FramesStacked, Frame
  <2>3. QED
    BY <2>1, <2>2, RegsFacts
<1>3. /\ f - 3 \in Cells /\ f - 2 \in Cells /\ f - 1 \in Cells
      /\ f - 3 # f - 2 /\ f - 3 # f - 1 /\ f - 2 # f - 1
  BY <1>2 DEF Cells
<1>4. /\ DOMAIN stack' = Cells
      /\ \A j \in Cells : j # f - 3 /\ j # f - 2 /\ j # f - 1 => stack'[j] = stack[j]
      /\ stack'[f - 3] = OldFp(fp) /\ stack'[f - 2] = ReturnTo
      /\ stack'[f - 1] = OldObj(obj)
  <2>1. stack' = [stack EXCEPT ![f - 3] = OldFp(fp), ![f - 2] = ReturnTo,
                               ![f - 1] = OldObj(obj)]
    BY DEF CallTo, Linked
  <2>2. DOMAIN stack = Cells
    BY <1>1 DEF FramesStacked
  <2>3. QED
    BY <1>3, <2>1, <2>2
<1>5. /\ fp' = f /\ sp' = sp /\ frames' = frames \cup {f}
      /\ saved' = [g \in (frames \cup {f}) \ {1} |->
                     IF g = f THEN [fp |-> fp, obj |-> obj, cells |-> stack]
                              ELSE saved[g]]
      /\ UNCHANGED <<global, parent, running>>
  BY DEF CallTo, objVars
<1>6. /\ f # 1
      /\ saved'[f] = [fp |-> fp, obj |-> obj, cells |-> stack]
      /\ \A g \in frames \ {1} : g # f /\ saved'[g] = saved[g]
  BY <1>2, <1>5
<1>7. /\ saved'[f].fp = fp /\ saved'[f].obj = obj /\ saved'[f].cells = stack
  BY <1>6
<1>8. FramesStacked'
  <2>1. OnStack(f, sp) /\ f \in Frame
    BY <1>2 DEF OnStack, Frame
  <2>2. \A g \in frames \cup {f} : g <= f
    BY <1>2
  <2>3. QED
    BY <1>1, <1>4, <1>5, <2>1, <2>2 DEF FramesStacked
<1>9. CallersBelow'
  <2>1. /\ fp \in frames \cup {f} /\ fp <= f - 3
        /\ \A g \in frames \cup {f} : g < f => g <= fp
    BY <1>1, <1>2 DEF FramesStacked
  <2>2. ASSUME NEW g \in frames \ {1}
        PROVE  /\ saved[g].fp \in frames \cup {f} /\ saved[g].fp <= g - 3
               /\ \A h \in frames \cup {f} : h < g => h <= saved[g].fp
    BY <1>1, <1>2 DEF CallersBelow
  <2>3. QED
    BY <1>5, <1>6, <1>7, <2>1, <2>2 DEF CallersBelow
<1>10. ValuesAbove'
  <2>1. \A j \in Cells : j >= f => j >= fp /\ j # f - 3 /\ j # f - 2 /\ j # f - 1
    BY <1>2 DEF Cells
  <2>2. QED
    BY <1>1, <1>4, <1>5, <2>1 DEF ValuesAbove
<1>11. \A g \in frames : \A j \in Cells : j < g => stack'[j] = stack[j]
  <2>1. \A g \in frames : \A j \in Cells : j < g => j # f - 3 /\ j # f - 2 /\ j # f - 1
    BY <1>2 DEF Cells
  <2>2. QED
    BY <1>4, <2>1
<1>12. CallersValues'
  <2>1. ASSUME NEW j \in Cells, fp <= j, j < f - 3
        PROVE  stack'[j] \in Value
    <3>1. j # f - 3 /\ j # f - 2 /\ j # f - 1 /\ j >= fp
      BY <1>2, <2>1 DEF Cells
    <3>2. QED
      BY <1>1, <1>4, <3>1 DEF ValuesAbove
  <2>2. ASSUME NEW g \in frames \ {1}
        PROVE  /\ saved[g].obj \in Objs
               /\ \A j \in Cells : saved[g].fp <= j /\ j < g - 3 => stack'[j] \in Value
    <3>1. \A j \in Cells : j < g - 3 => j < g
      BY <1>2 DEF Cells
    <3>2. QED
      BY <1>1, <1>11, <3>1 DEF CallersValues
  <2>3. obj \in Objs
    BY <1>1 DEF ObjectsTyped
  <2>4. QED
    BY <1>5, <1>6, <1>7, <2>1, <2>2, <2>3 DEF CallersValues
<1>13. CallersKept'
  <2>1. ASSUME NEW j \in 1 .. f - 4
        PROVE  stack'[j] = stack[j]
    <3>1. j \in Cells /\ j # f - 3 /\ j # f - 2 /\ j # f - 1
      BY <1>2 DEF Cells
    <3>2. QED
      BY <1>4, <3>1
  <2>2. ASSUME NEW g \in frames \ {1}
        PROVE  /\ \A j \in 1 .. g - 4 : stack'[j] = saved[g].cells[j]
               /\ stack'[g - 3] = OldFp(saved[g].fp)
               /\ stack'[g - 2] = ReturnTo
               /\ stack'[g - 1] = OldObj(saved[g].obj)
    <3>1. saved[g].fp \in Nat /\ saved[g].fp >= 1 /\ saved[g].fp <= g - 3 /\ g \in Nat /\ g <= fp
      BY <1>1, <1>2 DEF CallersBelow
    <3>2. /\ g - 3 \in Cells /\ g - 2 \in Cells /\ g - 1 \in Cells
          /\ \A j \in 1 .. g - 4 : j \in Cells /\ j < g
          /\ g - 3 < g /\ g - 2 < g /\ g - 1 < g
      BY <3>1, <1>2 DEF Cells
    <3>3. /\ stack'[g - 3] = stack[g - 3] /\ stack'[g - 2] = stack[g - 2]
          /\ stack'[g - 1] = stack[g - 1]
          /\ \A j \in 1 .. g - 4 : stack'[j] = stack[j]
      BY <3>2, <1>11
    <3>4. QED
      BY <1>1, <3>3 DEF CallersKept
  <2>3. QED
    BY <1>4, <1>5, <1>6, <1>7, <2>1, <2>2 DEF CallersKept
<1>14. ObjectsTyped'
  <2>1. f - 3 \in Cells /\ f - 3 >= fp
    BY <1>2, <1>3
  <2>2. obj' \in Objs
    BY <1>1, <2>1, ValueKinds DEF CallTo, ValuesAbove
  <2>3. QED
    BY <1>1, <1>5, <2>2 DEF ObjectsTyped
<1>15. QED
  BY <1>5, <1>8, <1>9, <1>10, <1>12, <1>13, <1>14 DEF EvalInv

\* A return finds what the call left.
LEMMA ReturnTarget ==
  ASSUME EvalInv, NEW r \in Regs, Return(r)
  PROVE  /\ fp \in frames \ {1}
         /\ fp' = saved[fp].fp /\ obj' = saved[fp].obj
<1>1. fp \in frames \ {1}
  BY DEF EvalInv, FramesStacked, Return
<1>2. stack[fp - 3] = OldFp(saved[fp].fp) /\ stack[fp - 1] = OldObj(saved[fp].obj)
  BY <1>1 DEF EvalInv, CallersKept
<1>3. fp' = stack[fp - 3].at /\ obj' = stack[fp - 1].at
  BY DEF Return, CallerObj
<1>4. QED
  BY <1>1, <1>2, <1>3 DEF OldFp, OldObj

LEMMA ReturnInv ==
  ASSUME EvalInv, running, NEW r \in Regs, Return(r)
  PROVE  EvalInv'
<1>1. /\ FramesStacked /\ CallersBelow /\ ValuesAbove /\ CallersValues
      /\ CallersKept /\ ObjectsTyped
  BY DEF EvalInv
<1>2. fp \in frames \ {1} /\ fp' = saved[fp].fp /\ obj' = saved[fp].obj
  BY ReturnTarget
<1>3. PICK p : p = saved[fp].fp
  OBVIOUS
<1>4. /\ p \in frames /\ p <= fp - 3
      /\ \A g \in frames : g < fp => g <= p
      /\ \A g \in frames : g \in Nat /\ g >= 1 /\ g <= fp
      /\ StackSize \in Nat /\ fp \in Nat /\ sp \in 0 .. StackSize /\ fp <= sp + 1
  <2>1. p \in frames /\ p <= fp - 3 /\ \A g \in frames : g < fp => g <= p
    BY <1>1, <1>2, <1>3 DEF CallersBelow
  <2>2. \A g \in frames : g \in Nat /\ g >= 1 /\ g <= fp
    BY <1>1, EvalAssumption DEF FramesStacked, Frame
  <2>3. fp <= sp + 1
    BY <1>1 DEF FramesStacked, OnStack
  <2>4. QED
    BY <2>1, <2>2, <2>3, RegsFacts
<1>5. PICK v \in Value : stack' = Returned(v)
  BY RegsFacts DEF Return
<1>6. /\ fp' = p /\ sp' = fp - 2 /\ frames' = frames \ {fp}
      /\ saved' = [g \in (frames \ {fp}) \ {1} |-> saved[g]]
      /\ UNCHANGED <<global, parent, running>>
  BY <1>2, <1>3 DEF Return, objVars, taskVars
<1>7. /\ DOMAIN stack' = Cells
      /\ \A j \in Cells : j < fp - 3 => stack'[j] = stack[j]
      /\ \A j \in Cells : ~(j < fp - 3) => stack'[j] \in Value
  <2>1. Plain \in Value
    BY ValueKinds
  <2>2. QED
    BY <1>5, <2>1 DEF Returned
<1>8. \A g \in frames \ {fp} : g < fp /\ g <= p /\ g <= fp - 3
  BY <1>4
<1>9. \A g \in (frames \ {fp}) \ {1} : saved'[g] = saved[g] /\ g \in frames \ {1}
  BY <1>6
<1>10. FramesStacked'
  <2>1. fp - 2 \in 0 .. StackSize /\ OnStack(p, fp - 2) /\ p # fp
    BY <1>4 DEF OnStack
  <2>2. p \in frames \ {fp} /\ 1 \in frames \ {fp} /\ frames \ {fp} \subseteq Frame
    BY <1>1, <1>2, <1>4, <2>1 DEF FramesStacked
  <2>3. QED
    BY <1>6, <1>7, <1>8, <2>1, <2>2 DEF FramesStacked
<1>11. CallersBelow'
  <2> SUFFICES ASSUME NEW g \in (frames \ {fp}) \ {1}
               PROVE  /\ saved[g].fp \in frames \ {fp} /\ saved[g].fp <= g - 3
                      /\ \A h \in frames \ {fp} : h < g => h <= saved[g].fp
    BY <1>6, <1>9 DEF CallersBelow
  <2>1. /\ saved[g].fp \in frames /\ saved[g].fp <= g - 3
        /\ \A h \in frames : h < g => h <= saved[g].fp
    BY <1>1 DEF CallersBelow
  <2>2. saved[g].fp # fp
    BY <1>4, <1>8, <2>1
  <2>3. QED
    BY <2>1, <2>2
<1>12. \A g \in (frames \ {fp}) \ {1} : \A j \in Cells : j < g => stack'[j] = stack[j]
  <2>1. \A g \in (frames \ {fp}) \ {1} : \A j \in Cells : j < g => j < fp - 3
    BY <1>4, <1>8 DEF Cells
  <2>2. QED
    BY <1>7, <2>1
<1>13. ValuesAbove'
  <2> SUFFICES ASSUME NEW j \in Cells, j >= p
               PROVE  stack'[j] \in Value
    BY <1>6 DEF ValuesAbove
  <2>1. CASE j < fp - 3
    <3>1. stack[j] \in Value
      BY <1>1, <1>2, <1>3, <2>1 DEF CallersValues
    <3>2. QED
      BY <3>1, <2>1, <1>7
  <2>2. CASE ~(j < fp - 3)
    BY <2>2, <1>7
  <2>3. QED
    BY <2>1, <2>2
<1>14. CallersValues'
  <2> SUFFICES ASSUME NEW g \in (frames \ {fp}) \ {1}
               PROVE  /\ saved[g].obj \in Objs
                      /\ \A j \in Cells : saved[g].fp <= j /\ j < g - 3
                                           => stack'[j] \in Value
    BY <1>6, <1>9 DEF CallersValues
  <2>1. \A j \in Cells : j < g - 3 => j < g
    BY <1>4 DEF Cells
  <2>2. QED
    BY <1>1, <1>12, <2>1 DEF CallersValues
<1>15. CallersKept'
  <2> SUFFICES ASSUME NEW g \in (frames \ {fp}) \ {1}
               PROVE  /\ \A j \in 1 .. g - 4 : stack'[j] = saved[g].cells[j]
                      /\ stack'[g - 3] = OldFp(saved[g].fp)
                      /\ stack'[g - 2] = ReturnTo
                      /\ stack'[g - 1] = OldObj(saved[g].obj)
    BY <1>6, <1>9 DEF CallersKept
  <2>1. /\ saved[g].fp \in Nat /\ saved[g].fp >= 1 /\ saved[g].fp <= g - 3
        /\ g \in Nat /\ g <= fp - 3
    BY <1>1, <1>4, <1>8 DEF CallersBelow
  <2>2. /\ g - 3 \in Cells /\ g - 2 \in Cells /\ g - 1 \in Cells
        /\ \A j \in 1 .. g - 4 : j \in Cells /\ j < g
        /\ g - 3 < g /\ g - 2 < g /\ g - 1 < g
    BY <2>1, <1>4 DEF Cells
  <2>3. /\ stack'[g - 3] = stack[g - 3] /\ stack'[g - 2] = stack[g - 2]
        /\ stack'[g - 1] = stack[g - 1]
        /\ \A j \in 1 .. g - 4 : stack'[j] = stack[j]
    BY <2>2, <1>12
  <2>4. QED
    BY <1>1, <2>3 DEF CallersKept
<1>16. ObjectsTyped'
  <2>1. saved[fp].obj \in Objs
    BY <1>1, <1>2 DEF CallersValues
  <2>2. QED
    BY <1>1, <1>2, <1>6, <2>1 DEF ObjectsTyped
<1>17. QED
  BY <1>6, <1>10, <1>11, <1>13, <1>14, <1>15, <1>16 DEF EvalInv

-----------------------------------------------------------------------------
(* The evaluation as a whole.                                              *)

LEMMA EndInv ==
  ASSUME EvalInv,
         \/ CountWraps \/ PushFull \/ Halt \/ HaltInCall \/ RetryTx
         \/ \E n \in Nat : CallFails(n)
  PROVE  EvalInv' /\ ~running'
<1>1. ASSUME NEW f, Stop(f)
      PROVE  EvalInv' /\ ~running'
  BY <1>1, StopInv
<1>2. CASE Halt \/ RetryTx
  <2>1. Over /\ UNCHANGED objVars
    BY <1>2 DEF Halt, RetryTx
  <2>2. global' \in [Objs -> [Names -> Value]] /\ parent' \in [Objs -> Objs \cup {NoOne}]
    BY <2>1 DEF EvalInv, ObjectsTyped, objVars
  <2>3. QED
    BY <2>1, <2>2, OverInv
<1>3. CASE CountWraps \/ PushFull \/ HaltInCall \/ \E n \in Nat : CallFails(n)
  BY <1>1, <1>3 DEF CountWraps, PushFull, HaltInCall, CallFails
<1>4. QED
  BY <1>2, <1>3

LEMMA BeginInv ==
  ASSUME EvalInv, ~running, Begin
  PROVE  EvalInv' /\ (fp' = fp \/ ~running')
<1>1. /\ fp = 1 /\ FramesStacked /\ ValuesAbove /\ ObjectsTyped
      /\ StackSize \in Nat \ {0}
  BY EvalAssumption DEF EvalInv
<1>2. DOMAIN stack = Cells /\ 1 \in Cells /\ \A j \in Cells : stack[j] \in Value
  <2>1. \A j \in Cells : j >= 1 /\ 1 \in Cells
    BY <1>1 DEF Cells
  <2>2. \A j \in Cells : stack[j] \in Value
    BY <1>1, <2>1 DEF ValuesAbove
  <2>3. 1 \in Cells
    BY <1>1 DEF Cells
  <2>4. QED
    BY <1>1, <2>2, <2>3 DEF FramesStacked
<1>3. ASSUME NEW o \in Objs, Start(o)
      PROVE  EvalInv' /\ fp' = 1
  <2>1. NewFrame(o) /\ UNCHANGED <<stack, sp, global, parent>>
    BY <1>3 DEF Start, objVars
  <2>2. /\ sp' \in 0 .. StackSize
        /\ DOMAIN stack' = Cells /\ \A j \in Cells : stack'[j] \in Value
        /\ global' \in [Objs -> [Names -> Value]]
        /\ parent' \in [Objs -> Objs \cup {NoOne}]
    BY <1>1, <1>2, <2>1 DEF FramesStacked, ObjectsTyped
  <2>3. QED
    BY <2>1, <2>2, FirstFrame DEF NewFrame
<1>4. ASSUME NEW o \in Objs, NEW s \in Strings, StartRead(o, s)
      PROVE  EvalInv' /\ fp' = 1
  <2>1. /\ NewFrame(o) /\ sp' = 1 /\ stack' = [stack EXCEPT ![1] = String(s)]
        /\ UNCHANGED <<global, parent>>
    BY <1>4 DEF StartRead, objVars
  <2>2. 1 \in 0 .. StackSize /\ String(s) \in Value
    BY <1>1, ValueKinds
  <2>3. /\ sp' \in 0 .. StackSize
        /\ DOMAIN stack' = Cells /\ \A j \in Cells : stack'[j] \in Value
        /\ global' \in [Objs -> [Names -> Value]]
        /\ parent' \in [Objs -> Objs \cup {NoOne}]
    BY <1>1, <1>2, <2>1, <2>2 DEF ObjectsTyped
  <2>4. QED
    BY <2>1, <2>3, FirstFrame DEF NewFrame
<1>5. ASSUME NEW s \in Strings, NotFound(s)
      PROVE  EvalInv' /\ fp' = fp
  <2>1. UNCHANGED <<stack, sp, fp, obj, frames, saved, global, parent>>
    BY <1>5 DEF NotFound, frameVars, objVars
  <2>2. /\ FramesStacked' /\ CallersBelow' /\ ValuesAbove'
        /\ CallersValues' /\ CallersKept' /\ ObjectsTyped'
    BY <2>1 DEF EvalInv, FramesStacked, OnStack, CallersBelow, ValuesAbove,
                CallersValues, CallersKept, ObjectsTyped
  <2>3. QED
    BY <1>1, <2>1, <2>2 DEF EvalInv
<1>6. CASE Stop("assert")
  BY <1>6, StopInv
<1>7. QED
  BY <1>1, <1>3, <1>4, <1>5, <1>6 DEF Begin

LEMMA InitInv == EvalInit => EvalInv
<1> SUFFICES ASSUME EvalInit
             PROVE  EvalInv
  OBVIOUS
<1>1. /\ stack = EmptyStack /\ sp = 0 /\ fp = 1 /\ obj = Root /\ frames = {1}
      /\ global = [o \in Objs |-> [g \in Names |-> Plain]]
      /\ parent = [o \in Objs |-> NoOne]
  BY DEF EvalInit
<1>2. StackSize \in Nat /\ Root \in Objs /\ Plain \in Value
  BY EvalAssumption, ValueKinds
<1>3. FramesStacked
  <2>1. OnStack(1, 0) /\ 0 \in 0 .. StackSize /\ 1 \in Frame
    BY <1>2 DEF OnStack, Frame
  <2>2. QED
    BY <1>1, <2>1 DEF FramesStacked, EmptyStack
<1>4. CallersBelow /\ CallersValues /\ CallersKept
  BY <1>1 DEF CallersBelow, CallersValues, CallersKept
<1>5. ValuesAbove /\ ObjectsTyped
  BY <1>1, <1>2 DEF ValuesAbove, ObjectsTyped, EmptyStack
<1>6. QED
  BY <1>1, <1>3, <1>4, <1>5 DEF EvalInv

\* What one step does to the invariant and to the frame.
LEMMA StepInv ==
  ASSUME EvalInv, EvalNext
  PROVE  /\ EvalInv'
         /\ \/ ~running' \/ fp' = fp \/ fp < fp'
            \/ fp \in frames \ {1} /\ fp' = saved[fp].fp /\ obj' = saved[fp].obj
<1> DEFINE Goal == /\ EvalInv'
                   /\ \/ ~running' \/ fp' = fp \/ fp < fp'
                      \/ fp \in frames \ {1} /\ fp' = saved[fp].fp /\ obj' = saved[fp].obj
<1>1. CASE ~running /\ Begin
  BY <1>1, BeginInv
<1>2. ASSUME running, NEW x \in Regs, Instr(x)
      PROVE  Goal
  <2>1. CASE \/ LoadPlain(x) \/ LoadString(x) \/ Logic(x) \/ Compare(x) \/ Calculate(x)
             \/ Length(x) \/ Concat(x) \/ Self(x) \/ Parent(x) \/ GetGlobal(x)
             \/ \E y \in Regs : Mov(x, y)
    BY <2>1, ComputeInv
  <2>2. CASE SetGlobal(x)
    BY <2>2, SetGlobalInv
  <2>3. CASE \E y \in Regs : MakeObj(x, y)
    BY <2>3, MakeObjInv
  <2>4. CASE Push(x)
    BY <2>4, PushInv
  <2>5. CASE Pop(x)
    BY <2>5, PopInv
  <2>6. CASE Return(x)
    BY <1>2, <2>6, ReturnInv, ReturnTarget
  <2>7. QED
    BY <1>2, <2>1, <2>2, <2>3, <2>4, <2>5, <2>6 DEF Instr
<1>3. ASSUME running, NEW n \in Nat, Call(n)
      PROVE  Goal
  <2>1. PICK f \in Nat : f <= sp + 1 /\ CallTo(f)
    BY <1>3, CallIsCallTo
  <2>2. EvalInv'
    BY <1>3, <2>1, CallToInv
  <2>3. fp' = f /\ f - 3 >= fp
    BY <2>1 DEF CallTo
  <2>4. fp < f
    BY <2>3, RegsFacts
  <2>5. QED
    BY <2>2, <2>3, <2>4
<1>4. ASSUME NEW n \in Nat, CallFails(n) \/ Syscall(n) \/ ArgsLocals(n)
      PROVE  Goal
  BY <1>4, EndInv, SyscallInv, ArgsLocalsInv
<1>5. CASE PushFull \/ CountWraps \/ Halt \/ HaltInCall \/ RetryTx
  BY <1>5, EndInv
<1>6. \A n \in 0 .. MaxArgs : n \in Nat
  BY EvalAssumption
<1>7. QED
  BY <1>1, <1>2, <1>3, <1>4, <1>5, <1>6 DEF EvalNext, Step

\* The invariant holds in every state an evaluation can reach.
THEOREM EvalInvariant == EvalSpec => []EvalInv
<1>1. EvalInv /\ [EvalNext]_evalVars => EvalInv'
  BY StepInv, UnchangedInv
<1>2. QED
  BY InitInv, <1>1, PTL DEF EvalSpec

\* A method, and all it calls, leaves the registers of its callers and what
\* CALL put below its frame as they were when it was called.
THEOREM EvalCallersKept == EvalSpec => []CallersKept
<1>1. EvalInv => CallersKept
  BY DEF EvalInv
<1>2. QED
  BY <1>1, EvalInvariant, PTL

\* No instruction gets an old frame, a return address or an old object for a
\* value.
THEOREM EvalRegistersAreValues == EvalSpec => []RegistersAreValues
<1>1. EvalInv => RegistersAreValues
  BY RegsFacts DEF RegistersAreValues
<1>2. QED
  BY <1>1, EvalInvariant, PTL

\* A method that returns gives its caller back its frame and its object.
THEOREM EvalCallerResumes == EvalSpec => CallerResumes
<1>1. EvalInv /\ [EvalNext]_evalVars
        => [running' /\ fp' < fp => fp' = saved[fp].fp /\ obj' = saved[fp].obj]_evalVars
  <2> SUFFICES ASSUME EvalInv, EvalNext, running', fp' < fp
               PROVE  fp' = saved[fp].fp /\ obj' = saved[fp].obj
    OBVIOUS
  <2>1. EvalInv' /\ fp \in Nat
    BY StepInv, RegsFacts
  <2>2. fp' \in Nat
    BY <2>1, EvalAssumption DEF EvalInv, FramesStacked, Frame
  <2>3. ~(fp' = fp) /\ ~(fp < fp')
    BY <2>1, <2>2
  <2>4. QED
    BY <2>3, StepInv
<1>2. QED
  BY <1>1, EvalInvariant, PTL DEF EvalSpec, CallerResumes

-----------------------------------------------------------------------------
(* Counting references.                                                    *)

Places(cells, s) == {j \in Cells : cells[j] = String(s)}
Spots(globals, s) == {x \in Objs \X Names : globals[x[1]][x[2]] = String(s)}

\* Nothing is left above the end of the stack.
CellsTyped ==
  /\ stack \in [Cells -> Cell]
  /\ \A j \in Cells : j > sp => stack[j] = Plain

\* Between two evaluations the stack is empty and the worker holds nothing.
TaskTyped ==
  /\ running \in BOOLEAN
  /\ data \in Strings \cup {NoOne}
  /\ fault \in {"none", "assert", "call", "code", "stack", "count"}
  /\ lost \in [Strings -> 0 .. MaxLost]
  /\ ~running => sp = 0 /\ data = NoOne

SavedTyped == saved \in [frames \ {1} -> Saved]

\* All cells count, as those above the end of the stack have no strings.
RefsExact ==
  \A s \in Strings :
    refs[s] = Cardinality(Places(stack, s)) + Ours(s) + lost[s]
              + Cardinality(Spots(global, s))

CountInv ==
  /\ CellsTyped
  /\ TaskTyped
  /\ SavedTyped
  /\ refs \in [Strings -> 0 .. RefLimit - 1]
  /\ RefsExact

\* 1 when v refers to s
Weight(v, s) == IF v = String(s) THEN 1 ELSE 0

LEMMA CardsInt == \A D : IsFiniteSet(D) => Cardinality(D) \in Nat
  BY FS_CardinalityType

\* Two subsets that differ in d at most.
LEMMA OneDiffers ==
  ASSUME NEW D, IsFiniteSet(D), NEW S \in SUBSET D, NEW T \in SUBSET D, NEW d \in D,
         \A j \in D : j # d => (j \in S <=> j \in T)
  PROVE  /\ Cardinality(S) \in Nat /\ Cardinality(T) \in Nat
         /\ Cardinality(T) + (IF d \in S THEN 1 ELSE 0)
              = Cardinality(S) + (IF d \in T THEN 1 ELSE 0)
<1>1. IsFiniteSet(S) /\ IsFiniteSet(T)
  BY FS_Subset
<1>2. Cardinality(S) \in Nat /\ Cardinality(T) \in Nat
  BY <1>1, CardsInt
<1>3. S \ {d} = T \ {d}
  OBVIOUS
<1>4. /\ Cardinality(S \ {d}) = IF d \in S THEN Cardinality(S) - 1 ELSE Cardinality(S)
      /\ Cardinality(T \ {d}) = IF d \in T THEN Cardinality(T) - 1 ELSE Cardinality(T)
  BY <1>1, FS_RemoveElement
<1>5. QED
  BY <1>2, <1>3, <1>4

LEMMA FinitePlaces ==
  ASSUME NEW cells, NEW globals, NEW s \in Strings
  PROVE  /\ IsFiniteSet(Cells) /\ IsFiniteSet(Objs \X Names)
         /\ Cardinality(Places(cells, s)) \in Nat
         /\ Cardinality(Spots(globals, s)) \in Nat
<1>1. IsFiniteSet(Cells) /\ IsFiniteSet(Objs \X Names)
  BY EvalAssumption, FS_Interval, FS_Product DEF Cells
<1>2. Places(cells, s) \subseteq Cells /\ Spots(globals, s) \subseteq Objs \X Names
  BY DEF Places, Spots
<1>3. IsFiniteSet(Places(cells, s)) /\ IsFiniteSet(Spots(globals, s))
  BY <1>1, <1>2, FS_Subset
<1>4. QED
  BY <1>1, <1>3, CardsInt

\* One cell changes.
LEMMA PlacesStep ==
  ASSUME NEW old, NEW new, NEW d \in Cells, NEW s \in Strings,
         \A j \in Cells : j # d => new[j] = old[j]
  PROVE  Cardinality(Places(new, s)) + Weight(old[d], s)
           = Cardinality(Places(old, s)) + Weight(new[d], s)
<1>1. /\ Places(old, s) \subseteq Cells /\ Places(new, s) \subseteq Cells
      /\ \A j \in Cells : j # d => (j \in Places(old, s) <=> j \in Places(new, s))
      /\ d \in Places(old, s) <=> old[d] = String(s)
      /\ d \in Places(new, s) <=> new[d] = String(s)
  BY DEF Places
<1>2. Cardinality(Places(new, s)) + (IF d \in Places(old, s) THEN 1 ELSE 0)
        = Cardinality(Places(old, s)) + (IF d \in Places(new, s) THEN 1 ELSE 0)
  BY <1>1, FinitePlaces, OneDiffers
<1>3. QED
  BY <1>1, <1>2 DEF Weight

\* One global changes.
LEMMA SpotsStep ==
  ASSUME NEW old, NEW new, NEW o \in Objs, NEW g \in Names, NEW s \in Strings,
         \A p \in Objs, n \in Names : <<p, n>> # <<o, g>> => new[p][n] = old[p][n]
  PROVE  Cardinality(Spots(new, s)) + Weight(old[o][g], s)
           = Cardinality(Spots(old, s)) + Weight(new[o][g], s)
<1>1. PICK d : d = <<o, g>>
  OBVIOUS
<1>2. \A x \in Objs \X Names : x # d => new[x[1]][x[2]] = old[x[1]][x[2]]
  <2> SUFFICES ASSUME NEW x \in Objs \X Names, x # d
               PROVE  new[x[1]][x[2]] = old[x[1]][x[2]]
    OBVIOUS
  <2>1. PICK p \in Objs, n \in Names : x = <<p, n>>
    OBVIOUS
  <2>2. QED
    BY <1>1, <2>1
<1>3. d \in Objs \X Names /\ d[1] = o /\ d[2] = g
  BY <1>1
<1>4. /\ Spots(old, s) \subseteq Objs \X Names /\ Spots(new, s) \subseteq Objs \X Names
      /\ \A x \in Objs \X Names : x # d => (x \in Spots(old, s) <=> x \in Spots(new, s))
      /\ d \in Spots(old, s) <=> old[o][g] = String(s)
      /\ d \in Spots(new, s) <=> new[o][g] = String(s)
  BY <1>2, <1>3 DEF Spots
<1>5. Cardinality(Spots(new, s)) + (IF d \in Spots(old, s) THEN 1 ELSE 0)
        = Cardinality(Spots(old, s)) + (IF d \in Spots(new, s) THEN 1 ELSE 0)
  BY <1>3, <1>4, FinitePlaces, OneDiffers
<1>6. QED
  BY <1>4, <1>5 DEF Weight

\* Counting a reference, or giving one up, changes one count by one.
LEMMA CountOne ==
  ASSUME NEW h \in [Strings -> Int], NEW v \in Value
  PROVE  /\ Dropped(h, v) \in [Strings -> Int]
         /\ \A s \in Strings : Dropped(h, v)[s] = h[s] - Weight(v, s)
         /\ Counted(h, v) \in [Strings -> Int]
         /\ \A s \in Strings : Counted(h, v)[s] = h[s] + Weight(v, s)
<1>1. CASE v.type = "string"
  <2>1. PICK t \in Strings : v = String(t)
    <3>1. \A o \in Objs : ObjRef(o).type = "objref"
      BY DEF ObjRef
    <3>2. Plain.type = "plain"
      BY DEF Plain
    <3>3. QED
      BY <1>1, <3>1, <3>2 DEF Value
  <2>2. v.at = t /\ \A s \in Strings : v = String(s) <=> s = t
    BY <2>1 DEF String
  <2>3. \A s \in Strings : Weight(v, s) = IF s = t THEN 1 ELSE 0
    BY <2>2 DEF Weight
  <2>4. /\ Dropped(h, v) = [h EXCEPT ![t] = @ - 1]
        /\ Counted(h, v) = [h EXCEPT ![t] = @ + 1]
    BY <1>1, <2>2 DEF Dropped, Counted
  <2>5. QED
    BY <2>3, <2>4
<1>2. CASE v.type # "string"
  <2>1. \A s \in Strings : v # String(s)
    BY <1>2 DEF String
  <2>2. Dropped(h, v) = h /\ Counted(h, v) = h /\ \A s \in Strings : Weight(v, s) = 0
    BY <1>2, <2>1 DEF Dropped, Counted, Weight
  <2>3. QED
    BY <2>2
<1>3. QED
  BY <1>1, <1>2

LEMMA WeightNat == \A v, s : Weight(v, s) \in {0, 1}
  BY DEF Weight

LEMMA WeightOfNone ==
  \A s \in Strings :
    /\ Weight(Plain, s) = 0
    /\ \A o : Weight(ObjRef(o), s) = 0 /\ Weight(OldObj(o), s) = 0
    /\ \A f : Weight(OldFp(f), s) = 0
    /\ Weight(ReturnTo, s) = 0
<1> SUFFICES ASSUME NEW s \in Strings
             PROVE  /\ Plain # String(s)
                    /\ \A o : ObjRef(o) # String(s) /\ OldObj(o) # String(s)
                    /\ \A f : OldFp(f) # String(s)
                    /\ ReturnTo # String(s)
  BY DEF Weight
<1>1. String(s).type = "string"
  BY DEF String
<1>2. Plain.type = "plain" /\ ReturnTo.type = "code"
  BY DEF Plain, ReturnTo
<1>3. \A o : ObjRef(o).type = "objref" /\ OldObj(o).type = "obj" /\ OldFp(o).type = "fp"
  BY DEF ObjRef, OldObj, OldFp
<1>4. QED
  BY <1>1, <1>2, <1>3

LEMMA CountFacts ==
  ASSUME CountInv
  PROVE  /\ refs \in [Strings -> Int]
         /\ RefLimit \in Nat /\ RefLimit > 2
         /\ \A s \in Strings :
              /\ refs[s] >= 0 /\ refs[s] <= RefLimit - 1
              /\ Ours(s) \in Nat /\ lost[s] \in Nat
              /\ Cardinality(Places(stack, s)) \in Nat
              /\ Cardinality(Spots(global, s)) \in Nat
              /\ refs[s] = Cardinality(Places(stack, s)) + Ours(s) + lost[s]
                           + Cardinality(Spots(global, s))
<1>1. RefLimit \in Nat /\ RefLimit > 2 /\ MaxLost \in Nat
  BY EvalAssumption
<1>2. /\ refs \in [Strings -> 0 .. RefLimit - 1] /\ lost \in [Strings -> 0 .. MaxLost]
      /\ RefsExact
  BY DEF CountInv, TaskTyped
<1>3. refs \in [Strings -> Int]
  BY <1>1, <1>2
<1>4. ASSUME NEW s \in Strings
      PROVE  /\ refs[s] >= 0 /\ refs[s] <= RefLimit - 1
             /\ Ours(s) \in Nat /\ lost[s] \in Nat
  BY <1>1, <1>2 DEF Ours
<1>5. QED
  BY <1>1, <1>2, <1>3, <1>4, FinitePlaces DEF RefsExact

\* A step keeps the counts exact when it changes each by as much as it
\* changes the number of references.
LEMMA RefsKept ==
  ASSUME CountInv, refs' \in [Strings -> Int], RefsExact',
         lost' \in [Strings -> 0 .. MaxLost],
         \A s \in Strings : refs'[s] <= RefLimit - 1
  PROVE  refs' \in [Strings -> 0 .. RefLimit - 1]
<1>1. PICK h : h = refs'
  OBVIOUS
<1>2. PICK l : l = lost'
  OBVIOUS
<1>3. RefLimit \in Nat /\ MaxLost \in Nat
  BY EvalAssumption
<1>4. ASSUME NEW s \in Strings
      PROVE  h[s] \in 0 .. RefLimit - 1
  <2>1. PICK c : c = Cardinality(Places(stack, s))'
    OBVIOUS
  <2>2. PICK d : d = Cardinality(Spots(global, s))'
    OBVIOUS
  <2>3. PICK u : u = Ours(s)'
    OBVIOUS
  <2>4. c \in Nat /\ d \in Nat /\ u \in Nat
    BY <2>1, <2>2, <2>3, FinitePlaces DEF Ours
  <2>5. h[s] = c + u + l[s] + d
    BY <1>1, <1>2, <2>1, <2>2, <2>3 DEF RefsExact
  <2>6. l[s] \in Nat
    BY <1>2, <1>3
  <2>7. h[s] \in Int /\ h[s] <= RefLimit - 1
    BY <1>1
  <2>8. QED
    BY <1>3, <2>4, <2>5, <2>6, <2>7
<1>5. QED
  BY <1>1, <1>4

LEMMA TaskKept ==
  ASSUME CountInv, running, UNCHANGED <<taskVars, fault>>
  PROVE  /\ TaskTyped' /\ lost' \in [Strings -> 0 .. MaxLost] /\ lost' = lost
         /\ \A s \in Strings : Ours(s)' = Ours(s)
  BY DEF CountInv, TaskTyped, taskVars, Ours

LEMMA SavedKept ==
  ASSUME CountInv, UNCHANGED <<frames, saved>>
  PROVE  SavedTyped'
  BY DEF CountInv, SavedTyped

LEMMA ValuesAreCells == Value \subseteq Cell /\ Plain \in Cell
  BY ValueKinds DEF Cell

-----------------------------------------------------------------------------
(* Every instruction keeps the counts exact.                               *)

\* One register takes a value that h has counted.
LEMMA RegisterCounts ==
  ASSUME EvalInv, CountInv, running, NEW dst \in Regs, NEW v \in Value,
         NEW h \in [Strings -> Int],
         \A s \in Strings : /\ h[s] = refs[s] + Weight(v, s)
                            /\ h[s] - Weight(stack[dst], s) <= RefLimit - 1,
         stack' = [stack EXCEPT ![dst] = v],
         refs' = Dropped(h, stack[dst]),
         UNCHANGED <<sp, frames, saved, global, taskVars, fault>>
  PROVE  CountInv'
<1>1. dst \in Cells /\ stack[dst] \in Value /\ ~(dst > sp)
  <2>1. dst \in Nat /\ dst <= sp /\ sp \in Nat
    BY RegsFacts
  <2>2. QED
    BY <2>1, RegsFacts
<1>2. CellsTyped
  BY DEF CountInv
<1>3. v \in Cell
  BY ValuesAreCells
<1>4. CellsTyped'
  <2>1. stack' \in [Cells -> Cell]
    BY <1>2, <1>3 DEF CellsTyped
  <2>2. \A j \in Cells : j > sp => j # dst /\ stack[j] = Plain
    BY <1>1, <1>2 DEF CellsTyped
  <2>3. \A j \in Cells : j > sp => stack'[j] = Plain
    BY <2>2, <1>2 DEF CellsTyped
  <2>4. QED
    BY <2>1, <2>3 DEF CellsTyped
<1>5. /\ refs' \in [Strings -> Int]
      /\ \A s \in Strings : refs'[s] = h[s] - Weight(stack[dst], s)
  BY <1>1, CountOne
<1>6. ASSUME NEW s \in Strings
      PROVE  Cardinality(Places(stack', s)) + Weight(stack[dst], s)
               = Cardinality(Places(stack, s)) + Weight(v, s)
  <2>1. PICK st : st = stack'
    OBVIOUS
  <2>2. st[dst] = v /\ \A j \in Cells : j # dst => st[j] = stack[j]
    BY <2>1, <1>1, <1>2 DEF CellsTyped
  <2>3. Cardinality(Places(st, s)) + Weight(stack[dst], s)
          = Cardinality(Places(stack, s)) + Weight(st[dst], s)
    BY <1>1, <2>2, PlacesStep
  <2>4. QED
    BY <2>1, <2>2, <2>3
<1>7. RefsExact'
  <2> SUFFICES ASSUME NEW s \in Strings
               PROVE  refs'[s] = Cardinality(Places(stack', s)) + Ours(s) + lost[s]
                                 + Cardinality(Spots(global, s))
    BY TaskKept DEF RefsExact
  <2>1. PICK c : c = Cardinality(Places(stack', s))
    OBVIOUS
  <2>2. PICK r : r = refs'[s]
    OBVIOUS
  <2>3. c \in Nat /\ r = h[s] - Weight(stack[dst], s)
    BY <2>1, <2>2, <1>5, FinitePlaces
  <2>4. c + Weight(stack[dst], s) = Cardinality(Places(stack, s)) + Weight(v, s)
    BY <1>6, <2>1
  <2>5. Weight(v, s) \in {0, 1} /\ Weight(stack[dst], s) \in {0, 1}
    BY WeightNat
  <2>6. r = c + Ours(s) + lost[s] + Cardinality(Spots(global, s))
    <3>1. PICK x, y, l, u, p, g :
            /\ x = Weight(v, s) /\ y = Weight(stack[dst], s)
            /\ l = lost[s] /\ u = Ours(s)
            /\ p = Cardinality(Places(stack, s)) /\ g = Cardinality(Spots(global, s))
      OBVIOUS
    <3>2. /\ x \in Int /\ y \in Int /\ l \in Nat /\ u \in Nat /\ p \in Nat /\ g \in Nat
          /\ refs[s] = p + u + l + g /\ refs[s] \in Int
      BY <2>5, <3>1, CountFacts
    <3>3. h[s] = refs[s] + x /\ r = h[s] - y /\ c + y = p + x
      BY <2>3, <2>4, <3>1
    <3>4. r = c + u + l + g
      BY <2>3, <3>2, <3>3
    <3>5. QED
      BY <3>1, <3>4
  <2>7. QED
    BY <2>1, <2>2, <2>6
<1>8. \A s \in Strings : refs'[s] <= RefLimit - 1
  <2> SUFFICES ASSUME NEW s \in Strings
               PROVE  refs'[s] <= RefLimit - 1
    OBVIOUS
  <2>1. h[s] - Weight(stack[dst], s) <= RefLimit - 1
    OBVIOUS
  <2>2. QED
    BY <2>1, <1>5
<1>9. TaskTyped' /\ SavedTyped' /\ lost' \in [Strings -> 0 .. MaxLost]
  BY TaskKept, SavedKept
<1>10. QED
  BY <1>4, <1>5, <1>7, <1>8, <1>9, RefsKept DEF CountInv

\* A value that counts h have room for.
LEMMA RoomToCount ==
  ASSUME NEW h \in [Strings -> Int], \A s \in Strings : h[s] <= RefLimit - 1,
         NEW v \in Value, Countable(h, v)
  PROVE  \A s \in Strings : h[s] + Weight(v, s) <= RefLimit - 1
<1>1. RefLimit \in Nat
  BY EvalAssumption
<1>2. ASSUME NEW s \in Strings
      PROVE  h[s] + Weight(v, s) <= RefLimit - 1
  <2>1. CASE v = String(s)
    <3>1. h[s] < RefLimit - 1 /\ Weight(v, s) = 1
      BY <2>1 DEF Countable, String, Weight
    <3>2. QED
      BY <1>1, <3>1
  <2>2. CASE v # String(s)
    <3>1. Weight(v, s) = 0
      BY <2>2 DEF Weight
    <3>2. QED
      BY <3>1
  <2>3. QED
    BY <2>1, <2>2
<1>3. QED
  BY <1>2

\* The same when the place the value goes to gives up w first.
LEMMA RoomToReplace ==
  ASSUME CountInv, NEW v \in Value, NEW w \in Value, Countable(Dropped(refs, w), v)
  PROVE  \A s \in Strings : (refs[s] - Weight(w, s)) + Weight(v, s) <= RefLimit - 1
<1>1. PICK h : h = Dropped(refs, w)
  OBVIOUS
<1>2. h \in [Strings -> Int] /\ \A s \in Strings : h[s] = refs[s] - Weight(w, s)
  BY <1>1, CountFacts, CountOne
<1>3. ASSUME NEW s \in Strings
      PROVE  h[s] <= RefLimit - 1
  <2>1. Weight(w, s) \in {0, 1} /\ refs[s] \in Int /\ refs[s] <= RefLimit - 1
        /\ RefLimit \in Int
    BY WeightNat, CountFacts
  <2>2. QED
    BY <1>2, <2>1
<1>4. \A s \in Strings : h[s] + Weight(v, s) <= RefLimit - 1
  BY <1>1, <1>2, <1>3, RoomToCount
<1>5. QED
  BY <1>2, <1>4

\* The values an instruction can count for its result.
LEMMA CountChoices ==
  ASSUME CountInv
  PROVE  /\ \A v \in Value :
              /\ Counted(refs, v) \in [Strings -> Int]
              /\ \A s \in Strings :
                   /\ Counted(refs, v)[s] = refs[s] + Weight(v, s)
                   /\ Countable(refs, v) => Counted(refs, v)[s] <= RefLimit - 1
         /\ \A t \in Strings :
              Fresh(t) =>
                /\ Made(t) \in [Strings -> Int]
                /\ \A s \in Strings : /\ Made(t)[s] = refs[s] + Weight(String(t), s)
                                      /\ Made(t)[s] <= RefLimit - 1
<1>1. ASSUME NEW v \in Value
      PROVE  /\ Counted(refs, v) \in [Strings -> Int]
             /\ \A s \in Strings :
                  /\ Counted(refs, v)[s] = refs[s] + Weight(v, s)
                  /\ Countable(refs, v) => Counted(refs, v)[s] <= RefLimit - 1
  <2>1. /\ Counted(refs, v) \in [Strings -> Int]
        /\ \A s \in Strings : Counted(refs, v)[s] = refs[s] + Weight(v, s)
    BY CountFacts, CountOne
  <2>2. Countable(refs, v) => \A s \in Strings : refs[s] + Weight(v, s) <= RefLimit - 1
    BY CountFacts, RoomToCount
  <2>3. QED
    BY <2>1, <2>2
<1>2. ASSUME NEW t \in Strings, Fresh(t)
      PROVE  /\ Made(t) \in [Strings -> Int]
             /\ \A s \in Strings : /\ Made(t)[s] = refs[s] + Weight(String(t), s)
                                   /\ Made(t)[s] <= RefLimit - 1
  <2>1. refs[t] = 0 /\ Made(t) = [refs EXCEPT ![t] = 1]
    BY <1>2 DEF Fresh, Made
  <2>2. \A s \in Strings : Weight(String(t), s) = IF s = t THEN 1 ELSE 0
    BY DEF Weight, String
  <2>3. QED
    BY <2>1, <2>2, CountFacts
<1>3. QED
  BY <1>1, <1>2

LEMMA SetCounts ==
  ASSUME EvalInv, CountInv, running, NEW dst \in Regs, NEW v \in Value,
         \/ Set(dst, v, refs) /\ \A s \in Strings : Weight(v, s) = 0
         \/ /\ Set(dst, v, Counted(refs, v))
            /\ Countable(refs, v) \/ Countable(Dropped(refs, stack[dst]), v)
         \/ \E t \in Strings : Fresh(t) /\ v = String(t) /\ Set(dst, v, Made(t))
  PROVE  CountInv'
<1>1. stack[dst] \in Value
  BY RegsFacts
<1>2. ASSUME NEW h \in [Strings -> Int],
             \A s \in Strings : /\ h[s] = refs[s] + Weight(v, s)
                                /\ h[s] - Weight(stack[dst], s) <= RefLimit - 1,
             Set(dst, v, h)
      PROVE  CountInv'
  <2>1. /\ stack' = [stack EXCEPT ![dst] = v] /\ refs' = Dropped(h, stack[dst])
        /\ UNCHANGED <<sp, frames, saved, global, taskVars, fault>>
    BY <1>2 DEF Set, frameVars, objVars
  <2>2. QED
    BY <1>2, <2>1, RegisterCounts
<1>3. ASSUME NEW h \in [Strings -> Int],
             \A s \in Strings : h[s] = refs[s] + Weight(v, s) /\ h[s] <= RefLimit - 1,
             Set(dst, v, h)
      PROVE  CountInv'
  <2>1. ASSUME NEW s \in Strings
        PROVE  h[s] - Weight(stack[dst], s) <= RefLimit - 1
    <3>1. Weight(stack[dst], s) \in {0, 1} /\ RefLimit \in Int
          /\ h[s] \in Int /\ h[s] <= RefLimit - 1
      BY <1>3, WeightNat, CountFacts
    <3>2. QED
      BY <3>1
  <2>2. QED
    BY <1>2, <1>3, <2>1
<1>4. CASE Set(dst, v, refs) /\ \A s \in Strings : Weight(v, s) = 0
  <2>1. \A s \in Strings : refs[s] = refs[s] + Weight(v, s) /\ refs[s] <= RefLimit - 1
    BY <1>4, CountFacts
  <2>2. QED
    BY <1>3, <1>4, <2>1, CountFacts
<1>5. CASE Set(dst, v, Counted(refs, v)) /\ Countable(refs, v)
  BY <1>3, <1>5, CountChoices
<1>6. CASE Set(dst, v, Counted(refs, v)) /\ Countable(Dropped(refs, stack[dst]), v)
  <2>1. PICK h : h = Counted(refs, v)
    OBVIOUS
  <2>2. h \in [Strings -> Int] /\ \A s \in Strings : h[s] = refs[s] + Weight(v, s)
    BY <2>1, CountChoices
  <2>3. ASSUME NEW s \in Strings
        PROVE  h[s] - Weight(stack[dst], s) <= RefLimit - 1
    <3>1. PICK x, y, r : x = Weight(v, s) /\ y = Weight(stack[dst], s) /\ r = refs[s]
      OBVIOUS
    <3>2. x \in {0, 1} /\ y \in {0, 1} /\ r \in Int /\ RefLimit \in Int
      BY <3>1, WeightNat, CountFacts
    <3>3. (r - y) + x <= RefLimit - 1 /\ h[s] = r + x
      BY <1>1, <1>6, <2>2, <3>1, RoomToReplace
    <3>4. h[s] - y <= RefLimit - 1
      BY <3>2, <3>3
    <3>5. QED
      BY <3>1, <3>4
  <2>4. QED
    BY <1>2, <1>6, <2>1, <2>2, <2>3
<1>7. ASSUME NEW t \in Strings, Fresh(t), v = String(t), Set(dst, v, Made(t))
      PROVE  CountInv'
  BY <1>3, <1>7, CountChoices
<1>8. QED
  BY <1>4, <1>5, <1>6, <1>7

LEMMA ComputeCounts ==
  ASSUME EvalInv, CountInv, running, NEW x \in Regs,
         \/ LoadPlain(x) \/ LoadString(x) \/ Logic(x) \/ Compare(x) \/ Calculate(x)
         \/ Length(x) \/ Concat(x) \/ Self(x) \/ Parent(x) \/ GetGlobal(x)
         \/ \E y \in Regs : Mov(x, y)
  PROVE  CountInv' \/ Skip \/ Stop("assert")
<1>1. /\ Plain \in Value /\ \A s \in Strings : Weight(Plain, s) = 0
      /\ \A s \in Strings : String(s) \in Value
      /\ \A o \in Objs : ObjRef(o) \in Value /\ \A s \in Strings : Weight(ObjRef(o), s) = 0
  BY ValueKinds, WeightOfNone
<1>2. Set(x, Plain, refs) => CountInv'
  BY <1>1, SetCounts
<1>3. \A o \in Objs : Set(x, ObjRef(o), refs) => CountInv'
  BY <1>1, SetCounts
<1>4. \A t \in Strings : Fresh(t) /\ Set(x, String(t), Made(t)) => CountInv'
  BY <1>1, SetCounts
<1>5. \A v \in Value :
        /\ Countable(refs, v) \/ Countable(Dropped(refs, stack[x]), v)
        /\ Set(x, v, Counted(refs, v))
        => CountInv'
  BY SetCounts
<1>6. CASE LoadPlain(x)
  BY <1>2, <1>6 DEF LoadPlain
<1>7. CASE LoadString(x)
  BY <1>4, <1>7 DEF LoadString
<1>8. CASE Logic(x) \/ Compare(x)
  BY <1>2, <1>8 DEF Logic, Compare
<1>9. CASE Calculate(x)
  BY <1>2, <1>9 DEF Calculate
<1>10. CASE Length(x)
  BY <1>2, <1>10 DEF Length
<1>11. CASE Concat(x)
  BY <1>4, <1>11 DEF Concat
<1>12. CASE Self(x)
  <2>1. obj \in Objs
    BY DEF EvalInv, ObjectsTyped
  <2>2. QED
    BY <1>3, <1>12, <2>1 DEF Self
<1>13. CASE Parent(x)
  <2>1. parent[obj] \in Objs \cup {NoOne}
    BY DEF EvalInv, ObjectsTyped
  <2>2. QED
    BY <1>2, <1>3, <1>13, <2>1 DEF Parent
<1>14. CASE GetGlobal(x)
  <2>1. \A g \in Names : global[obj][g] \in Value
    BY DEF EvalInv, ObjectsTyped
  <2>2. QED
    BY <1>5, <1>14, <2>1 DEF GetGlobal
<1>15. ASSUME NEW y \in Regs, Mov(x, y)
       PROVE  CountInv'
  <2>1. Cleared(x, y) \in Value
    BY <1>1, RegsFacts DEF Cleared
  <2>2. QED
    BY <1>5, <1>15, <2>1 DEF Mov
<1>16. QED
  BY <1>6, <1>7, <1>8, <1>9, <1>10, <1>11, <1>12, <1>13, <1>14, <1>15

LEMMA MakeObjCounts ==
  ASSUME EvalInv, CountInv, running, NEW dst \in Regs, NEW src \in Regs, MakeObj(dst, src)
  PROVE  CountInv' \/ Stop("assert")
<1>1. CASE stack[src].type # "objref"
  BY <1>1 DEF MakeObj
<1>2. CASE stack[src].type = "objref"
  <2>1. PICK o \in Objs :
          /\ stack' = [stack EXCEPT ![dst] = ObjRef(o)]
          /\ refs' = Dropped(refs, stack[dst])
          /\ UNCHANGED <<sp, frames, saved, global, taskVars, fault>>
    BY <1>2 DEF MakeObj, frameVars
  <2>2. ObjRef(o) \in Value /\ \A s \in Strings : Weight(ObjRef(o), s) = 0
    BY ValueKinds, WeightOfNone
  <2>3. /\ refs \in [Strings -> Int]
        /\ \A s \in Strings : refs[s] = refs[s] + Weight(ObjRef(o), s)
                              /\ refs[s] <= RefLimit - 1
    BY <2>2, CountFacts
  <2>4. ASSUME NEW s \in Strings
        PROVE  refs[s] - Weight(stack[dst], s) <= RefLimit - 1
    <3>1. Weight(stack[dst], s) \in {0, 1} /\ RefLimit \in Int
          /\ refs[s] \in Int /\ refs[s] <= RefLimit - 1
      BY WeightNat, CountFacts
    <3>2. QED
      BY <3>1
  <2>5. QED
    BY <2>1, <2>2, <2>3, <2>4, RegisterCounts
<1>3. QED
  BY <1>1, <1>2

LEMMA SetGlobalCounts ==
  ASSUME EvalInv, CountInv, running, NEW r \in Regs, SetGlobal(r)
  PROVE  CountInv' \/ Stop("assert")
<1> SUFFICES ASSUME ~Stop("assert")
             PROVE  CountInv'
  OBVIOUS
<1>1. PICK g \in Names :
        /\ Countable(Dropped(refs, global[obj][g]), stack[r])
        /\ refs' = Replaced(global[obj][g], stack[r])
        /\ global' = [global EXCEPT ![obj][g] = stack[r]]
  BY DEF SetGlobal
<1>2. UNCHANGED <<stack, sp, frames, saved, taskVars, fault>>
  BY DEF SetGlobal, frameVars
<1>3. PICK v : v = stack[r]
  OBVIOUS
<1>4. PICK w : w = global[obj][g]
  OBVIOUS
<1>5. v \in Value /\ w \in Value /\ obj \in Objs /\ global \in [Objs -> [Names -> Value]]
  BY <1>3, <1>4, RegsFacts DEF EvalInv, ObjectsTyped
<1>6. PICK h : h = Dropped(refs, w)
  OBVIOUS
<1>7. h \in [Strings -> Int] /\ \A s \in Strings : h[s] = refs[s] - Weight(w, s)
  BY <1>5, <1>6, CountFacts, CountOne
<1>8. refs' = Counted(h, v)
  BY <1>1, <1>3, <1>4, <1>6 DEF Replaced
<1>9. /\ refs' \in [Strings -> Int]
      /\ \A s \in Strings : refs'[s] = h[s] + Weight(v, s)
  BY <1>5, <1>7, <1>8, CountOne
<1>10. PICK G : G = global'
  OBVIOUS
<1>11. /\ G[obj][g] = v
       /\ \A p \in Objs, n \in Names : <<p, n>> # <<obj, g>> => G[p][n] = global[p][n]
  BY <1>1, <1>3, <1>5, <1>10
<1>12. ASSUME NEW s \in Strings
       PROVE  Cardinality(Spots(G, s)) + Weight(w, s)
                = Cardinality(Spots(global, s)) + Weight(v, s)
  <2>1. PICK o, old : o = obj /\ old = global
    OBVIOUS
  <2>2. o \in Objs /\ old[o][g] = w /\ G[o][g] = v
    BY <1>4, <1>5, <1>11, <2>1
  <2>3. \A p \in Objs, n \in Names : <<p, n>> # <<o, g>> => G[p][n] = old[p][n]
    BY <1>11, <2>1
  <2>4. Cardinality(Spots(G, s)) + Weight(old[o][g], s)
          = Cardinality(Spots(old, s)) + Weight(G[o][g], s)
    BY <2>2, <2>3, SpotsStep
  <2>5. QED
    BY <2>1, <2>2, <2>4
<1>13. RefsExact'
  <2> SUFFICES ASSUME NEW s \in Strings
               PROVE  refs'[s] = Cardinality(Places(stack, s)) + Ours(s) + lost[s]
                                 + Cardinality(Spots(global', s))
    BY <1>2, TaskKept DEF RefsExact
  <2>1. PICK x, y, l, u, p, c, d, k :
          /\ x = Weight(v, s) /\ y = Weight(w, s) /\ l = lost[s] /\ u = Ours(s)
          /\ p = Cardinality(Places(stack, s)) /\ c = Cardinality(Spots(global, s))
          /\ d = Cardinality(Spots(G, s)) /\ k = refs'[s]
    OBVIOUS
  <2>2. x \in {0, 1} /\ y \in {0, 1} /\ l \in Nat /\ u \in Nat /\ p \in Nat /\ c \in Nat
        /\ d \in Nat /\ refs[s] = p + u + l + c
    BY <2>1, WeightNat, CountFacts, FinitePlaces
  <2>3. k = h[s] + x /\ h[s] = refs[s] - y /\ d + y = c + x
    BY <2>1, <1>7, <1>9, <1>12
  <2>4. k = p + u + l + d
    BY <2>2, <2>3
  <2>5. QED
    BY <2>1, <2>4, <1>10
<1>14. \A s \in Strings : refs'[s] <= RefLimit - 1
  <2> SUFFICES ASSUME NEW s \in Strings
               PROVE  refs'[s] <= RefLimit - 1
    OBVIOUS
  <2>1. PICK x, y, k : x = Weight(v, s) /\ y = Weight(w, s) /\ k = refs'[s]
    OBVIOUS
  <2>2. /\ x \in {0, 1} /\ y \in {0, 1} /\ k = refs[s] - y + x
        /\ refs[s] \in Int /\ RefLimit \in Int
    BY <2>1, <1>7, <1>9, WeightNat, CountFacts
  <2>3. (refs[s] - y) + x <= RefLimit - 1
    BY <1>1, <1>3, <1>4, <1>5, <2>1, RoomToReplace
  <2>4. k <= RefLimit - 1
    BY <2>2, <2>3
  <2>5. QED
    BY <2>1, <2>4
<1>15. TaskTyped' /\ SavedTyped' /\ lost' \in [Strings -> 0 .. MaxLost]
  BY <1>2, TaskKept, SavedKept
<1>16. CellsTyped'
  BY <1>2 DEF CountInv, CellsTyped
<1>17. QED
  BY <1>9, <1>13, <1>14, <1>15, <1>16, RefsKept DEF CountInv

\* The rest changes cells only.
LEMMA StackCounts ==
  ASSUME CountInv, running, CellsTyped', SavedTyped',
         UNCHANGED <<global, taskVars, fault>>,
         NEW h \in [Strings -> Int], refs' = h,
         \A s \in Strings : h[s] <= RefLimit - 1,
         NEW cells, stack' = cells,
         \A s \in Strings : h[s] - refs[s] = Cardinality(Places(cells, s))
                                             - Cardinality(Places(stack, s))
  PROVE  CountInv'
<1>1. RefsExact'
  <2> SUFFICES ASSUME NEW s \in Strings
               PROVE  h[s] = Cardinality(Places(cells, s)) + Ours(s) + lost[s]
                             + Cardinality(Spots(global, s))
    BY TaskKept DEF RefsExact
  <2>1. PICK l, u, p, c, d, x, y :
          /\ l = lost[s] /\ u = Ours(s) /\ p = Cardinality(Places(stack, s))
          /\ c = Cardinality(Places(cells, s)) /\ d = Cardinality(Spots(global, s))
          /\ x = h[s] /\ y = refs[s]
    OBVIOUS
  <2>2. /\ l \in Nat /\ u \in Nat /\ p \in Nat /\ c \in Nat /\ d \in Nat
        /\ y = p + u + l + d
    BY <2>1, CountFacts, FinitePlaces
  <2>3. x - y = c - p /\ x \in Int
    BY <2>1
  <2>4. x = c + u + l + d
    <3> HIDE <2>1
    <3>1. QED
      BY <2>2, <2>3
  <2>5. QED
    BY <2>1, <2>4
<1>2. TaskTyped' /\ lost' \in [Strings -> 0 .. MaxLost]
  BY TaskKept
<1>3. \A s \in Strings : refs'[s] <= RefLimit - 1
  OBVIOUS
<1>4. QED
  BY <1>1, <1>2, <1>3, RefsKept DEF CountInv

\* The stack is cut off before cell a; what is gone and no string is below b.
LEMMA CutOff ==
  ASSUME CellsTyped, sp \in 0 .. StackSize,
         NEW a \in Nat, NEW b \in Nat, 1 <= a, a <= b, NEW new,
         \A j \in Cells : new[j] = IF j < a THEN stack[j] ELSE Plain,
         NEW s \in Strings,
         \A j \in Cells : a <= j /\ j < b => stack[j] # String(s)
  PROVE  /\ Held(s, b, sp) \in Nat
         /\ Cardinality(Places(stack, s)) = Cardinality(Places(new, s)) + Held(s, b, sp)
<1>1. StackSize \in Nat /\ \A j \in Cells : j \in Nat /\ j >= 1 /\ j <= StackSize
  BY EvalAssumption DEF Cells
<1>2. Plain # String(s)
  BY DEF Plain, String
<1>3. PICK H : H = {j \in b .. sp : stack[j] = String(s)}
  OBVIOUS
<1>4. \A j : j \in H <=> j \in Cells /\ b <= j /\ stack[j] = String(s)
  <2>1. ASSUME NEW j \in H
        PROVE  j \in Cells /\ b <= j /\ stack[j] = String(s)
    BY <1>1, <1>3 DEF Cells
  <2>2. ASSUME NEW j \in Cells, b <= j, stack[j] = String(s)
        PROVE  j \in H
    <3>1. ~(j > sp)
      BY <1>2, <2>2 DEF CellsTyped
    <3>2. j \in b .. sp
      BY <1>1, <2>2, <3>1
    <3>3. QED
      BY <1>3, <2>2, <3>2
  <2>3. QED
    BY <2>1, <2>2
<1>5. PICK P : P = Places(stack, s)
  OBVIOUS
<1>6. PICK Q : Q = Places(new, s)
  OBVIOUS
<1>7. /\ \A j : j \in P <=> j \in Cells /\ stack[j] = String(s)
      /\ \A j : j \in Q <=> j \in Cells /\ j < a /\ stack[j] = String(s)
  BY <1>2, <1>5, <1>6 DEF Places
<1>8. P = Q \cup H
  BY <1>1, <1>4, <1>7
<1>9. Q \cap H = {}
  BY <1>1, <1>4, <1>7
<1>10. IsFiniteSet(Q) /\ IsFiniteSet(H)
  <2>1. Q \subseteq Cells /\ H \subseteq Cells
    BY <1>4, <1>7
  <2>2. QED
    BY <2>1, FinitePlaces, FS_Subset
<1>11. Cardinality(P) = Cardinality(Q) + Cardinality(H)
  <2>1. Cardinality(P) = Cardinality(Q) + Cardinality(H) - Cardinality({})
    BY <1>8, <1>9, <1>10, FS_Union
  <2>2. Cardinality({}) = 0 /\ Cardinality(Q) \in Nat /\ Cardinality(H) \in Nat
    BY <1>10, FS_EmptySet, CardsInt
  <2>3. QED
    BY <2>1, <2>2
<1>12. Held(s, b, sp) = Cardinality(H) /\ Cardinality(H) \in Nat
  BY <1>3, <1>10, CardsInt DEF Held
<1>13. QED
  BY <1>5, <1>6, <1>11, <1>12

LEMMA PushCounts ==
  ASSUME EvalInv, CountInv, running, NEW src \in Regs, Push(src)
  PROVE  CountInv'
<1>1. CellsTyped
  BY DEF CountInv
<1>2. /\ sp < StackSize /\ Countable(refs, stack[src]) /\ sp' = sp + 1
      /\ stack' = [stack EXCEPT ![sp + 1] = stack[src]]
      /\ refs' = Counted(refs, stack[src])
      /\ UNCHANGED <<frames, saved, global, taskVars, fault>>
  BY DEF Push, frameVars, objVars
<1>3. PICK v : v = stack[src]
  OBVIOUS
<1>4. PICK d : d = sp + 1
  OBVIOUS
<1>5. PICK st : st = stack'
  OBVIOUS
<1>6. PICK h : h = refs'
  OBVIOUS
<1>7. v \in Value /\ v \in Cell /\ Plain \in Cell
  BY <1>3, RegsFacts, ValuesAreCells
<1>8. sp \in Nat /\ d \in Cells /\ d > sp
  BY <1>2, <1>4, RegsFacts DEF Cells
<1>9. st = [stack EXCEPT ![d] = v]
  BY <1>2, <1>3, <1>4, <1>5
<1>10. /\ st \in [Cells -> Cell] /\ st[d] = v /\ stack[d] = Plain
       /\ \A j \in Cells : j # d => st[j] = stack[j]
  BY <1>1, <1>7, <1>8, <1>9 DEF CellsTyped
<1>11. CellsTyped'
  <2>1. \A j \in Cells : j > d => st[j] = Plain
    <3>1. \A j \in Cells : j > d => j > sp /\ j # d
      BY <1>4, <1>8, EvalAssumption DEF Cells
    <3>2. QED
      BY <3>1, <1>1, <1>10 DEF CellsTyped
  <2>2. QED
    BY <2>1, <1>2, <1>4, <1>5, <1>10 DEF CellsTyped
<1>12. /\ h \in [Strings -> Int]
       /\ \A s \in Strings : h[s] = refs[s] + Weight(v, s) /\ h[s] <= RefLimit - 1
  BY <1>2, <1>3, <1>6, <1>7, CountChoices
<1>13. ASSUME NEW s \in Strings
       PROVE  h[s] - refs[s] = Cardinality(Places(st, s)) - Cardinality(Places(stack, s))
  <2>1. Cardinality(Places(st, s)) + Weight(stack[d], s)
          = Cardinality(Places(stack, s)) + Weight(st[d], s)
    BY <1>8, <1>10, PlacesStep
  <2>2. PICK p, q, w : /\ p = Cardinality(Places(st, s))
                       /\ q = Cardinality(Places(stack, s)) /\ w = Weight(v, s)
    OBVIOUS
  <2>3. p \in Nat /\ q \in Nat /\ w \in {0, 1} /\ refs[s] \in Int
    BY <2>2, FinitePlaces, WeightNat, CountFacts
  <2>4. p + 0 = q + w /\ h[s] = refs[s] + w
    BY <2>1, <2>2, <1>10, <1>12, WeightOfNone
  <2>5. h[s] - refs[s] = p - q
    BY <2>3, <2>4
  <2>6. QED
    BY <2>2, <2>5
<1>14. SavedTyped'
  BY <1>2, SavedKept
<1>15. QED
  BY <1>2, <1>5, <1>6, <1>11, <1>12, <1>13, <1>14, StackCounts

LEMMA PopCounts ==
  ASSUME EvalInv, CountInv, running, NEW dst \in Regs, Pop(dst)
  PROVE  CountInv'
<1>1. CellsTyped
  BY DEF CountInv
<1>2. /\ stack' = [stack EXCEPT ![dst] = Cleared(dst, sp), ![sp] = Plain]
      /\ refs' = Dropped(refs, stack[dst]) /\ sp' = sp - 1
      /\ UNCHANGED <<frames, saved, global, taskVars, fault>>
  BY DEF Pop, frameVars, objVars
<1>3. PICK v : v = Cleared(dst, sp)
  OBVIOUS
<1>4. PICK w : w = stack[dst]
  OBVIOUS
<1>5. PICK st : st = stack'
  OBVIOUS
<1>6. PICK h : h = refs'
  OBVIOUS
<1>7. dst \in Cells /\ sp \in Cells /\ sp \in Nat /\ w \in Value
  <2>1. /\ dst \in Nat /\ dst >= 1 /\ dst <= sp /\ sp \in Nat /\ sp <= StackSize
        /\ StackSize \in Nat
    BY RegsFacts
  <2>2. QED
    BY <1>4, <2>1, RegsFacts DEF Cells
<1>8. v \in Cell /\ Plain \in Cell
  BY <1>1, <1>3, <1>7, ValuesAreCells DEF Cleared, CellsTyped
<1>9. PICK mid : mid = [stack EXCEPT ![dst] = v]
  OBVIOUS
<1>10. st = [mid EXCEPT ![sp] = Plain]
  BY <1>2, <1>3, <1>5, <1>9
<1>11. /\ mid \in [Cells -> Cell] /\ mid[dst] = v /\ mid[sp] = v
       /\ \A j \in Cells : j # dst => mid[j] = stack[j]
  BY <1>1, <1>3, <1>7, <1>8, <1>9 DEF CellsTyped, Cleared
<1>12. /\ st \in [Cells -> Cell] /\ st[sp] = Plain
       /\ \A j \in Cells : j # sp => st[j] = mid[j]
  BY <1>7, <1>8, <1>10, <1>11
<1>13. CellsTyped'
  <2>1. ASSUME NEW j \in Cells, j > sp - 1
        PROVE  st[j] = Plain
    <3>1. CASE j = sp
      BY <3>1, <1>12
    <3>2. CASE j # sp
      <4>1. j > sp /\ j # dst
        <5>1. dst \in Nat /\ dst <= sp /\ j \in Nat
          BY RegsFacts DEF Cells
        <5>2. QED
          BY <5>1, <2>1, <3>2, <1>7
      <4>2. QED
        BY <4>1, <3>2, <1>1, <1>11, <1>12 DEF CellsTyped
    <3>3. QED
      BY <3>1, <3>2
  <2>2. QED
    BY <2>1, <1>2, <1>5, <1>12 DEF CellsTyped
<1>14. /\ h \in [Strings -> Int]
       /\ \A s \in Strings : h[s] = refs[s] - Weight(w, s)
  BY <1>2, <1>4, <1>6, <1>7, CountFacts, CountOne
<1>15. ASSUME NEW s \in Strings
       PROVE  /\ h[s] - refs[s] = Cardinality(Places(st, s)) - Cardinality(Places(stack, s))
              /\ h[s] <= RefLimit - 1
  <2>1. Cardinality(Places(mid, s)) + Weight(stack[dst], s)
          = Cardinality(Places(stack, s)) + Weight(mid[dst], s)
    BY <1>7, <1>11, PlacesStep
  <2>2. Cardinality(Places(st, s)) + Weight(mid[sp], s)
          = Cardinality(Places(mid, s)) + Weight(st[sp], s)
    BY <1>7, <1>12, PlacesStep
  <2>3. PICK p, m, q, x, y, r :
          /\ p = Cardinality(Places(stack, s)) /\ m = Cardinality(Places(mid, s))
          /\ q = Cardinality(Places(st, s)) /\ x = Weight(v, s) /\ y = Weight(w, s)
          /\ r = refs[s]
    OBVIOUS
  <2>4. /\ p \in Nat /\ m \in Nat /\ q \in Nat /\ x \in {0, 1} /\ y \in {0, 1}
        /\ r \in Int /\ r <= RefLimit - 1 /\ RefLimit \in Nat
    BY <2>3, FinitePlaces, WeightNat, CountFacts
  <2>5. m + y = p + x /\ q + x = m + 0 /\ h[s] = r - y
    BY <2>1, <2>2, <2>3, <1>4, <1>11, <1>12, <1>14, WeightOfNone
  <2>6. h[s] - r = q - p /\ h[s] <= RefLimit - 1
    BY <2>4, <2>5
  <2>7. QED
    BY <2>3, <2>6
<1>16. SavedTyped'
  BY <1>2, SavedKept
<1>17. QED
  BY <1>2, <1>5, <1>6, <1>13, <1>14, <1>15, <1>16, StackCounts

LEMMA ArgsLocalsCounts ==
  ASSUME EvalInv, CountInv, running, NEW n \in Nat, ArgsLocals(n)
  PROVE  CountInv' \/ Stop("stack")
<1>1. CASE sp + n > StackSize
  BY <1>1 DEF ArgsLocals
<1>2. CASE ~(sp + n > StackSize)
  <2>1. /\ sp' = sp + n /\ stack' = stack /\ refs' = refs
        /\ UNCHANGED <<frames, saved, global, taskVars, fault>>
    BY <1>2 DEF ArgsLocals, frameVars, objVars
  <2>2. \A j \in Cells : j > sp + n => j > sp
    BY RegsFacts DEF Cells
  <2>3. CellsTyped'
    BY <2>1, <2>2 DEF CountInv, CellsTyped
  <2>4. SavedTyped'
    BY <2>1, SavedKept
  <2>5. \A s \in Strings : /\ refs[s] - refs[s] = Cardinality(Places(stack, s))
                                                  - Cardinality(Places(stack, s))
                           /\ refs[s] <= RefLimit - 1
    <3>1. \A i \in Int : i - i = 0
      OBVIOUS
    <3>2. \A s \in Strings : refs[s] \in Int /\ Cardinality(Places(stack, s)) \in Int
      BY CountFacts
    <3>3. QED
      BY <3>1, <3>2, CountFacts
  <2>6. QED
    BY <2>1, <2>3, <2>4, <2>5, CountFacts, StackCounts
<1>3. QED
  BY <1>1, <1>2

LEMMA SyscallCounts ==
  ASSUME EvalInv, CountInv, running, NEW n \in Nat, Syscall(n)
  PROVE  CountInv' \/ Skip \/ Stop("assert")
<1> SUFFICES ASSUME ~Skip, ~Stop("assert")
             PROVE  CountInv'
  OBVIOUS
<1>1. CellsTyped
  BY DEF CountInv
<1>2. PICK a : a = sp - n
  OBVIOUS
<1>3. /\ a >= fp /\ sp' = a - 1
      /\ stack' = [j \in Cells |-> IF j < a THEN stack[j] ELSE Plain]
      /\ refs' = [s \in Strings |-> refs[s] - Held(s, a, sp)]
      /\ UNCHANGED <<frames, saved, global, taskVars, fault>>
  BY <1>2 DEF Syscall, frameVars, objVars
<1>4. sp \in 0 .. StackSize /\ a \in Nat /\ 1 <= a /\ a <= a
  BY <1>2, <1>3, RegsFacts
<1>5. PICK st : st = stack'
  OBVIOUS
<1>6. PICK h : h = refs'
  OBVIOUS
<1>7. /\ st \in [Cells -> Cell]
      /\ \A j \in Cells : st[j] = IF j < a THEN stack[j] ELSE Plain
  BY <1>1, <1>3, <1>5, ValuesAreCells DEF CellsTyped
<1>8. CellsTyped'
  <2>1. \A j \in Cells : j > a - 1 => ~(j < a)
    BY <1>4 DEF Cells
  <2>2. QED
    BY <2>1, <1>3, <1>5, <1>7 DEF CellsTyped
<1>9. ASSUME NEW s \in Strings
      PROVE  /\ h[s] \in Int /\ h[s] <= RefLimit - 1
             /\ h[s] - refs[s] = Cardinality(Places(st, s)) - Cardinality(Places(stack, s))
  <2>1. \A j \in Cells : a <= j /\ j < a => stack[j] # String(s)
    BY <1>4 DEF Cells
  <2>2. /\ Held(s, a, sp) \in Nat
        /\ Cardinality(Places(stack, s)) = Cardinality(Places(st, s)) + Held(s, a, sp)
    BY <1>1, <1>4, <1>7, <2>1, CutOff
  <2>3. PICK p, q, k, r : /\ p = Cardinality(Places(stack, s)) /\ r = refs[s]
                          /\ q = Cardinality(Places(st, s)) /\ k = Held(s, a, sp)
    OBVIOUS
  <2>4. /\ p \in Nat /\ q \in Nat /\ k \in Nat /\ p = q + k
        /\ r \in Int /\ r <= RefLimit - 1 /\ RefLimit \in Nat
    BY <2>2, <2>3, FinitePlaces, CountFacts
  <2>5. h[s] = r - k
    BY <1>3, <1>6, <2>3
  <2>6. h[s] \in Int /\ h[s] <= RefLimit - 1 /\ h[s] - r = q - p
    BY <2>4, <2>5
  <2>7. QED
    BY <2>3, <2>6
<1>10. h \in [Strings -> Int]
  BY <1>3, <1>6, <1>9
<1>11. SavedTyped'
  BY <1>3, SavedKept
<1>12. QED
  BY <1>3, <1>5, <1>6, <1>8, <1>9, <1>10, <1>11, StackCounts

LEMMA CallCounts ==
  ASSUME EvalInv, CountInv, running, NEW n \in Nat, Call(n)
  PROVE  CountInv'
<1>1. CellsTyped /\ SavedTyped /\ FramesStacked /\ ObjectsTyped
  BY DEF CountInv, EvalInv
<1>2. PICK f : f = sp - n + 1
  OBVIOUS
<1>3. /\ f - 3 >= fp
      /\ refs' = Dropped(Dropped(Dropped(refs, stack[f - 3]), stack[f - 2]), stack[f - 1])
      /\ stack' = Linked(f) /\ frames' = frames \cup {f}
      /\ saved' = [g \in (frames \cup {f}) \ {1} |->
                     IF g = f THEN [fp |-> fp, obj |-> obj, cells |-> stack]
                              ELSE saved[g]]
      /\ UNCHANGED <<sp, global, taskVars, fault>>
  BY <1>2 DEF Call, objVars
<1>4. PICK a, b, c : a = f - 3 /\ b = f - 2 /\ c = f - 1
  OBVIOUS
<1>5. /\ f \in Nat /\ a \in Cells /\ b \in Cells /\ c \in Cells
      /\ a # b /\ b # c /\ a # c
      /\ a >= fp /\ b >= fp /\ c >= fp
      /\ ~(a > sp) /\ ~(b > sp) /\ ~(c > sp)
      /\ fp \in Cells
  <2>1. /\ StackSize \in Nat /\ fp \in Nat /\ fp >= 1 /\ sp \in 0 .. StackSize
        /\ f - 3 >= fp /\ f = sp - n + 1 /\ n \in Nat
    BY <1>2, <1>3, RegsFacts
  <2>2. QED
    BY <1>4, <2>1 DEF Cells
<1>6. stack[a] \in Value /\ stack[b] \in Value /\ stack[c] \in Value
  BY <1>5 DEF EvalInv, ValuesAbove
<1>7. OldFp(fp) \in Cell /\ ReturnTo \in Cell /\ OldObj(obj) \in Cell
  BY <1>1, <1>5 DEF Cell, ObjectsTyped
<1>8. PICK st : st = stack'
  OBVIOUS
<1>9. PICK m1 : m1 = [stack EXCEPT ![a] = OldFp(fp)]
  OBVIOUS
<1>10. PICK m2 : m2 = [m1 EXCEPT ![b] = ReturnTo]
  OBVIOUS
<1>11. st = [m2 EXCEPT ![c] = OldObj(obj)]
  BY <1>3, <1>4, <1>8, <1>9, <1>10 DEF Linked
<1>12. /\ m1 \in [Cells -> Cell] /\ m1[a] = OldFp(fp)
       /\ \A j \in Cells : j # a => m1[j] = stack[j]
  BY <1>1, <1>5, <1>7, <1>9 DEF CellsTyped
<1>13. /\ m2 \in [Cells -> Cell] /\ m2[b] = ReturnTo
       /\ \A j \in Cells : j # b => m2[j] = m1[j]
  BY <1>5, <1>7, <1>10, <1>12
<1>14. /\ st \in [Cells -> Cell] /\ st[c] = OldObj(obj)
       /\ \A j \in Cells : j # c => st[j] = m2[j]
  BY <1>5, <1>7, <1>11, <1>13
<1>15. CellsTyped'
  <2>1. \A j \in Cells : j > sp => st[j] = Plain
    <3>1. \A j \in Cells : j > sp => j # a /\ j # b /\ j # c
      BY <1>5
    <3>2. QED
      BY <3>1, <1>1, <1>12, <1>13, <1>14 DEF CellsTyped
  <2>2. QED
    BY <2>1, <1>3, <1>8, <1>14 DEF CellsTyped
<1>16. SavedTyped'
  <2>1. [fp |-> fp, obj |-> obj, cells |-> stack] \in Saved
    BY <1>1, <1>5 DEF Saved, ObjectsTyped, CellsTyped
  <2>2. \A g \in (frames \cup {f}) \ {1} : g # f => saved[g] \in Saved
    BY <1>1 DEF SavedTyped
  <2>3. QED
    BY <1>3, <2>1, <2>2 DEF SavedTyped
<1>17. PICK h1 : h1 = Dropped(refs, stack[a])
  OBVIOUS
<1>18. PICK h2 : h2 = Dropped(h1, stack[b])
  OBVIOUS
<1>19. PICK h : h = Dropped(h2, stack[c])
  OBVIOUS
<1>20. refs' = h
  BY <1>3, <1>4, <1>17, <1>18, <1>19
<1>21. /\ h1 \in [Strings -> Int]
       /\ \A s \in Strings : h1[s] = refs[s] - Weight(stack[a], s)
  BY <1>6, <1>17, CountFacts, CountOne
<1>22. /\ h2 \in [Strings -> Int]
       /\ \A s \in Strings : h2[s] = h1[s] - Weight(stack[b], s)
  BY <1>6, <1>18, <1>21, CountOne
<1>23. /\ h \in [Strings -> Int]
       /\ \A s \in Strings : h[s] = h2[s] - Weight(stack[c], s)
  BY <1>6, <1>19, <1>22, CountOne
<1>24. ASSUME NEW s \in Strings
       PROVE  /\ h[s] - refs[s] = Cardinality(Places(st, s)) - Cardinality(Places(stack, s))
              /\ h[s] <= RefLimit - 1
  <2>1. Cardinality(Places(m1, s)) + Weight(stack[a], s)
          = Cardinality(Places(stack, s)) + Weight(m1[a], s)
    BY <1>5, <1>12, PlacesStep
  <2>2. Cardinality(Places(m2, s)) + Weight(m1[b], s)
          = Cardinality(Places(m1, s)) + Weight(m2[b], s)
    BY <1>5, <1>13, PlacesStep
  <2>3. Cardinality(Places(st, s)) + Weight(m2[c], s)
          = Cardinality(Places(m2, s)) + Weight(st[c], s)
    BY <1>5, <1>14, PlacesStep
  <2>4. m1[b] = stack[b] /\ m2[c] = stack[c]
    BY <1>5, <1>12, <1>13
  <2>5. Weight(m1[a], s) = 0 /\ Weight(m2[b], s) = 0 /\ Weight(st[c], s) = 0
    BY <1>12, <1>13, <1>14, WeightOfNone
  <2>6. PICK p, k, l, q, x, y, z, r :
          /\ p = Cardinality(Places(stack, s)) /\ k = Cardinality(Places(m1, s))
          /\ l = Cardinality(Places(m2, s)) /\ q = Cardinality(Places(st, s))
          /\ x = Weight(stack[a], s) /\ y = Weight(stack[b], s)
          /\ z = Weight(stack[c], s) /\ r = refs[s]
    OBVIOUS
  <2>7. /\ p \in Nat /\ k \in Nat /\ l \in Nat /\ q \in Nat
        /\ x \in {0, 1} /\ y \in {0, 1} /\ z \in {0, 1}
        /\ r \in Int /\ r <= RefLimit - 1 /\ RefLimit \in Nat
    BY <2>6, FinitePlaces, WeightNat, CountFacts
  <2>8. k + x = p + 0 /\ l + y = k + 0 /\ q + z = l + 0
    BY <2>1, <2>2, <2>3, <2>4, <2>5, <2>6
  <2>9. h[s] = ((r - x) - y) - z
    BY <2>6, <1>21, <1>22, <1>23
  <2>10. h[s] - r = q - p /\ h[s] <= RefLimit - 1
    BY <2>7, <2>8, <2>9
  <2>11. QED
    BY <2>6, <2>10
<1>25. QED
  BY <1>3, <1>8, <1>15, <1>16, <1>20, <1>23, <1>24, StackCounts

LEMMA ReturnCounts ==
  ASSUME EvalInv, CountInv, running, NEW x \in Regs, Return(x)
  PROVE  CountInv'
<1>1. CellsTyped /\ SavedTyped /\ FramesStacked
  BY DEF CountInv, EvalInv
<1>2. PICK v : v = stack[x]
  OBVIOUS
<1>3. /\ Countable(refs, v) /\ sp' = fp - 2 /\ stack' = Returned(v)
      /\ refs' = [s \in Strings |-> Counted(refs, v)[s] - Held(s, fp, sp)]
      /\ frames' = frames \ {fp}
      /\ saved' = [g \in (frames \ {fp}) \ {1} |-> saved[g]]
      /\ UNCHANGED <<global, taskVars, fault>>
  BY <1>2 DEF Return, objVars
<1>4. v \in Value /\ v \in Cell /\ Plain \in Cell
  BY <1>2, RegsFacts, ValuesAreCells
<1>5. /\ fp \in frames \ {1} /\ saved[fp].fp \in frames /\ saved[fp].fp <= fp - 3
  BY ReturnTarget DEF EvalInv, CallersBelow
<1>6. /\ fp \in Nat /\ fp - 3 \in Nat /\ 1 <= fp - 3 /\ fp - 3 <= fp
      /\ sp \in 0 .. StackSize /\ fp <= sp + 1 /\ StackSize \in Nat
  <2>1. saved[fp].fp \in Nat /\ saved[fp].fp >= 1
    <3>1. \A g \in frames : g \in Nat /\ g >= 1
      BY <1>1, EvalAssumption DEF FramesStacked, Frame
    <3>2. QED
      BY <1>5, <3>1
  <2>2. fp <= sp + 1
    BY <1>1 DEF FramesStacked, OnStack
  <2>3. PICK q : q = saved[fp].fp
    OBVIOUS
  <2>4. q \in Nat /\ q >= 1 /\ q <= fp - 3
    BY <1>5, <2>1, <2>3
  <2>5. QED
    BY <2>2, <2>4, RegsFacts
<1>7. PICK d : d = fp - 3
  OBVIOUS
<1>8. d \in Cells /\ d \in Nat
  BY <1>6, <1>7 DEF Cells
<1>9. PICK mid : mid = [j \in Cells |-> IF j < d THEN stack[j] ELSE Plain]
  OBVIOUS
<1>10. PICK st : st = stack'
  OBVIOUS
<1>11. PICK h : h = refs'
  OBVIOUS
<1>12. /\ st \in [Cells -> Cell] /\ st[d] = v
       /\ \A j \in Cells : j # d => st[j] = mid[j]
       /\ \A j \in Cells : mid[j] = IF j < d THEN stack[j] ELSE Plain
       /\ mid[d] = Plain
  <2>1. st = [j \in Cells |-> IF j < d THEN stack[j] ELSE IF j = d THEN v ELSE Plain]
    BY <1>3, <1>7, <1>10 DEF Returned
  <2>2. ~(d < d)
    BY <1>8
  <2>3. \A j \in Cells : stack[j] \in Cell
    BY <1>1 DEF CellsTyped
  <2>4. QED
    BY <1>4, <1>8, <1>9, <2>1, <2>2, <2>3
<1>13. CellsTyped'
  <2>1. \A j \in Cells : j > fp - 2 => ~(j < d) /\ j # d
    BY <1>6, <1>7 DEF Cells
  <2>2. \A j \in Cells : j > fp - 2 => st[j] = Plain
    BY <2>1, <1>12
  <2>3. QED
    BY <2>2, <1>3, <1>10, <1>12 DEF CellsTyped
<1>14. SavedTyped'
  BY <1>1, <1>3 DEF SavedTyped
<1>15. \A j \in Cells : d <= j /\ j < fp => \A s \in Strings : stack[j] # String(s)
  <2>1. /\ stack[fp - 3] = OldFp(saved[fp].fp) /\ stack[fp - 2] = ReturnTo
        /\ stack[fp - 1] = OldObj(saved[fp].obj)
    BY <1>5 DEF EvalInv, CallersKept
  <2>2. \A j \in Cells : d <= j /\ j < fp => j = fp - 3 \/ j = fp - 2 \/ j = fp - 1
    BY <1>6, <1>7 DEF Cells
  <2>3. \A s \in Strings : \A z : Weight(z, s) = 0 => z # String(s)
    BY DEF Weight
  <2>4. QED
    BY <2>1, <2>2, <2>3, WeightOfNone
<1>16. ASSUME NEW s \in Strings
       PROVE  /\ h[s] \in Int /\ h[s] <= RefLimit - 1
              /\ h[s] - refs[s] = Cardinality(Places(st, s)) - Cardinality(Places(stack, s))
  <2>1. /\ Held(s, fp, sp) \in Nat
        /\ Cardinality(Places(stack, s)) = Cardinality(Places(mid, s)) + Held(s, fp, sp)
    BY <1>1, <1>6, <1>7, <1>8, <1>12, <1>15, CutOff
  <2>2. Cardinality(Places(st, s)) + Weight(mid[d], s)
          = Cardinality(Places(mid, s)) + Weight(st[d], s)
    BY <1>8, <1>12, PlacesStep
  <2>3. PICK p, m, q, k, w, r :
          /\ p = Cardinality(Places(stack, s)) /\ m = Cardinality(Places(mid, s))
          /\ q = Cardinality(Places(st, s)) /\ k = Held(s, fp, sp)
          /\ w = Weight(v, s) /\ r = refs[s]
    OBVIOUS
  <2>4. /\ p \in Nat /\ m \in Nat /\ q \in Nat /\ k \in Nat /\ w \in {0, 1}
        /\ r \in Int /\ RefLimit \in Nat
    BY <2>1, <2>3, FinitePlaces, WeightNat, CountFacts
  <2>5. p = m + k /\ q + 0 = m + w
    BY <2>1, <2>2, <2>3, <1>12, WeightOfNone
  <2>6. Counted(refs, v)[s] = r + w /\ Counted(refs, v)[s] <= RefLimit - 1
    BY <1>3, <1>4, <2>3, CountChoices
  <2>7. h[s] = (r + w) - k
    BY <1>3, <1>11, <2>3, <2>6
  <2>8. h[s] \in Int /\ h[s] <= RefLimit - 1 /\ h[s] - r = q - p
    <3>1. r + w <= RefLimit - 1
      BY <2>6
    <3>2. QED
      BY <2>4, <2>5, <2>7, <3>1
  <2>9. QED
    BY <2>3, <2>8
<1>17. h \in [Strings -> Int]
  BY <1>3, <1>11, <1>16
<1>18. QED
  BY <1>3, <1>10, <1>11, <1>13, <1>14, <1>16, <1>17, StackCounts

-----------------------------------------------------------------------------
(* The end and the beginning of an evaluation.                             *)

\* An empty stack refers to no string.
LEMMA EmptyPlaces ==
  \A s \in Strings : Cardinality(Places(EmptyStack, s)) = 0
<1> SUFFICES ASSUME NEW s \in Strings
             PROVE  Places(EmptyStack, s) = {}
  BY FS_EmptySet
<1>1. Plain # String(s)
  BY DEF Plain, String
<1>2. QED
  BY <1>1 DEF Places, EmptyStack

LEMMA EmptySpots ==
  \A s \in Strings : Cardinality(Spots([o \in Objs |-> [g \in Names |-> Plain]], s)) = 0
<1> SUFFICES ASSUME NEW s \in Strings
             PROVE  Spots([o \in Objs |-> [g \in Names |-> Plain]], s) = {}
  BY FS_EmptySet
<1>1. Plain # String(s)
  BY DEF Plain, String
<1>2. PICK G : G = [o \in Objs |-> [g \in Names |-> Plain]]
  OBVIOUS
<1>3. ASSUME NEW y \in Objs \X Names
      PROVE  G[y[1]][y[2]] = Plain
  <2>1. y[1] \in Objs /\ y[2] \in Names
    OBVIOUS
  <2>2. QED
    BY <1>2, <2>1
<1>4. QED
  BY <1>1, <1>2, <1>3 DEF Spots

LEMMA OverCounts ==
  ASSUME Over
  PROVE  /\ CellsTyped' /\ SavedTyped'
         /\ running' = FALSE /\ data' = NoOne /\ sp' = 0
         /\ \A s \in Strings : Ours(s)' = 0
         /\ \A s \in Strings : Cardinality(Places(stack', s)) = 0
<1>1. /\ running' = FALSE /\ data' = NoOne /\ sp' = 0 /\ stack' = EmptyStack
      /\ frames' = {1} /\ saved' = << >>
  BY DEF Over, NewFrame
<1>2. CellsTyped'
  BY <1>1, ValuesAreCells DEF CellsTyped, EmptyStack
<1>3. SavedTyped'
  <2>1. {1} \ {1} = {}
    OBVIOUS
  <2>2. << >> \in [{} -> Saved]
    OBVIOUS
  <2>3. QED
    BY <1>1, <2>1, <2>2 DEF SavedTyped
<1>4. \A s \in Strings : Ours(s)' = 0
  BY <1>1, EvalAssumption DEF Ours
<1>5. QED
  BY <1>1, <1>2, <1>3, <1>4, EmptyPlaces

LEMMA StopCounts ==
  ASSUME NEW f \in {"assert", "call", "code", "stack", "count"}, Stop(f)
  PROVE  CountInv'
<1>1. /\ Over /\ fault' = f /\ refs' = [s \in Strings |-> 0]
      /\ global' = [o \in Objs |-> [g \in Names |-> Plain]]
      /\ lost' = [s \in Strings |-> 0]
  BY DEF Stop
<1>2. RefLimit \in Nat /\ RefLimit > 2 /\ MaxLost \in Nat
  BY EvalAssumption
<1>3. TaskTyped'
  BY <1>1, <1>2, OverCounts DEF TaskTyped
<1>4. refs' \in [Strings -> 0 .. RefLimit - 1]
  BY <1>1, <1>2
<1>5. RefsExact'
  <2> SUFFICES ASSUME NEW s \in Strings
               PROVE  refs'[s] = Cardinality(Places(stack', s)) + Ours(s)' + lost'[s]
                                 + Cardinality(Spots(global', s))
    BY DEF RefsExact
  <2>1. /\ refs'[s] = 0 /\ lost'[s] = 0 /\ Ours(s)' = 0
        /\ Cardinality(Places(stack', s)) = 0 /\ Cardinality(Spots(global', s)) = 0
    BY <1>1, OverCounts, EmptySpots
  <2>2. QED
    BY <2>1
<1>6. QED
  BY <1>1, <1>3, <1>4, <1>5, OverCounts DEF CountInv

\* Everything that is on the stack when an evaluation ends.
LEMMA WholeStack ==
  ASSUME EvalInv, CountInv, NEW s \in Strings
  PROVE  Held(s, 1, sp) \in Nat /\ Held(s, 1, sp) = Cardinality(Places(stack, s))
<1>1. CellsTyped /\ sp \in 0 .. StackSize
  BY DEF CountInv, EvalInv, FramesStacked
<1>2. \A j \in Cells : ~(j < 1)
  BY EvalAssumption DEF Cells
<1>3. \A j \in Cells : EmptyStack[j] = IF j < 1 THEN stack[j] ELSE Plain
  BY <1>2 DEF EmptyStack
<1>4. \A j \in Cells : 1 <= j /\ j < 1 => stack[j] # String(s)
  BY <1>2
<1>5. /\ Held(s, 1, sp) \in Nat
      /\ Cardinality(Places(stack, s)) = Cardinality(Places(EmptyStack, s)) + Held(s, 1, sp)
  BY <1>1, <1>3, <1>4, CutOff
<1>6. QED
  BY <1>5, EmptyPlaces

LEMMA HaltCounts ==
  ASSUME EvalInv, CountInv, Halt
  PROVE  CountInv'
<1>1. /\ Over /\ UNCHANGED <<lost, global, fault>>
      /\ refs' = [s \in Strings |-> refs[s] - Held(s, 1, sp) - Ours(s)]
  BY DEF Halt, objVars
<1>2. TaskTyped' /\ lost' \in [Strings -> 0 .. MaxLost]
  BY <1>1, OverCounts DEF CountInv, TaskTyped
<1>3. PICK h : h = refs'
  OBVIOUS
<1>4. ASSUME NEW s \in Strings
      PROVE  /\ h[s] \in Int /\ h[s] <= RefLimit - 1
             /\ h[s] = lost[s] + Cardinality(Spots(global, s))
  <2>1. PICK p, u, l, g, r : /\ p = Held(s, 1, sp) /\ u = Ours(s) /\ l = lost[s]
                             /\ g = Cardinality(Spots(global, s)) /\ r = refs[s]
    OBVIOUS
  <2>2. /\ p \in Nat /\ u \in Nat /\ l \in Nat /\ g \in Nat /\ r = p + u + l + g
        /\ r <= RefLimit - 1 /\ RefLimit \in Nat
    BY <2>1, WholeStack, CountFacts
  <2>3. h[s] = r - p - u
    BY <1>1, <1>3, <2>1
  <2>4. h[s] = l + g /\ h[s] \in Int /\ h[s] <= RefLimit - 1
    BY <2>2, <2>3
  <2>5. QED
    BY <2>1, <2>4
<1>5. h \in [Strings -> Int] /\ \A s \in Strings : refs'[s] <= RefLimit - 1
  BY <1>1, <1>3, <1>4
<1>6. RefsExact'
  <2> SUFFICES ASSUME NEW s \in Strings
               PROVE  h[s] = Cardinality(Places(stack', s)) + Ours(s)' + lost[s]
                             + Cardinality(Spots(global, s))
    BY <1>1, <1>3 DEF RefsExact
  <2>1. Cardinality(Places(stack', s)) = 0 /\ Ours(s)' = 0
    BY <1>1, OverCounts
  <2>2. lost[s] \in Nat /\ Cardinality(Spots(global, s)) \in Nat
    BY CountFacts
  <2>3. QED
    BY <2>1, <2>2, <1>4
<1>7. CellsTyped' /\ SavedTyped'
  BY <1>1, OverCounts
<1>8. QED
  BY <1>2, <1>3, <1>5, <1>6, <1>7, RefsKept DEF CountInv

LEMMA RetryCounts ==
  ASSUME EvalInv, CountInv, RetryTx
  PROVE  CountInv'
<1>1. /\ Over /\ UNCHANGED <<global, fault>>
      /\ refs' = [s \in Strings |-> refs[s] - Ours(s)]
      /\ lost' = [s \in Strings |-> lost[s] + Held(s, 1, sp)]
      /\ \A s \in Strings : lost'[s] <= MaxLost
  BY DEF RetryTx, objVars
<1>2. PICK h : h = refs'
  OBVIOUS
<1>3. PICK k : k = lost'
  OBVIOUS
<1>4. ASSUME NEW s \in Strings
      PROVE  /\ h[s] \in Int /\ h[s] <= RefLimit - 1 /\ k[s] \in 0 .. MaxLost
             /\ h[s] = k[s] + Cardinality(Spots(global, s))
  <2>1. PICK p, u, l, g, r : /\ p = Held(s, 1, sp) /\ u = Ours(s) /\ l = lost[s]
                             /\ g = Cardinality(Spots(global, s)) /\ r = refs[s]
    OBVIOUS
  <2>2. /\ p \in Nat /\ u \in Nat /\ l \in Nat /\ g \in Nat /\ r = p + u + l + g
        /\ r <= RefLimit - 1 /\ RefLimit \in Nat /\ MaxLost \in Nat
    BY <2>1, WholeStack, CountFacts, EvalAssumption
  <2>3. h[s] = r - u /\ k[s] = l + p /\ k[s] <= MaxLost
    BY <1>1, <1>2, <1>3, <2>1
  <2>4. h[s] = k[s] + g /\ h[s] \in Int /\ h[s] <= RefLimit - 1 /\ k[s] \in 0 .. MaxLost
    BY <2>2, <2>3
  <2>5. QED
    BY <2>1, <2>4
<1>5. /\ h \in [Strings -> Int] /\ \A s \in Strings : refs'[s] <= RefLimit - 1
      /\ lost' \in [Strings -> 0 .. MaxLost]
  BY <1>1, <1>2, <1>3, <1>4
<1>6. TaskTyped'
  BY <1>1, <1>5, OverCounts DEF CountInv, TaskTyped
<1>7. RefsExact'
  <2> SUFFICES ASSUME NEW s \in Strings
               PROVE  h[s] = Cardinality(Places(stack', s)) + Ours(s)' + k[s]
                             + Cardinality(Spots(global, s))
    BY <1>1, <1>2, <1>3 DEF RefsExact
  <2>1. Cardinality(Places(stack', s)) = 0 /\ Ours(s)' = 0
    BY <1>1, OverCounts
  <2>2. k[s] \in Nat /\ Cardinality(Spots(global, s)) \in Nat
    BY <1>4, CountFacts, EvalAssumption
  <2>3. QED
    BY <2>1, <2>2, <1>4
<1>8. CellsTyped' /\ SavedTyped'
  BY <1>1, OverCounts
<1>9. QED
  BY <1>2, <1>5, <1>6, <1>7, <1>8, RefsKept DEF CountInv

LEMMA BeginCounts ==
  ASSUME EvalInv, CountInv, ~running, Begin
  PROVE  CountInv'
<1>1. CellsTyped /\ TaskTyped /\ sp = 0 /\ data = NoOne /\ StackSize \in Nat \ {0}
  BY EvalAssumption DEF CountInv, TaskTyped
<1>2. NewFrame(obj') => SavedTyped'
  <2>1. {1} \ {1} = {}
    OBVIOUS
  <2>2. << >> \in [{} -> Saved]
    OBVIOUS
  <2>3. QED
    BY <2>1, <2>2 DEF SavedTyped, NewFrame
<1>3. ASSUME NEW o \in Objs, Start(o)
      PROVE  CountInv'
  <2>1. /\ NewFrame(obj') /\ running' = TRUE
        /\ UNCHANGED <<stack, sp, refs, data, lost, global, fault>>
    BY <1>3 DEF Start, objVars, NewFrame
  <2>2. CellsTyped' /\ TaskTyped'
    BY <1>1, <2>1 DEF CellsTyped, TaskTyped
  <2>3. RefsExact' /\ refs' \in [Strings -> 0 .. RefLimit - 1]
    BY <2>1 DEF CountInv, RefsExact, Ours
  <2>4. QED
    BY <1>2, <2>1, <2>2, <2>3 DEF CountInv
<1>4. ASSUME NEW o \in Objs, NEW t \in Strings, StartRead(o, t)
      PROVE  CountInv'
  <2>1. /\ refs[t] = 0 /\ NewFrame(obj') /\ running' = TRUE /\ data' = t /\ sp' = 1
        /\ stack' = [stack EXCEPT ![1] = String(t)] /\ refs' = [refs EXCEPT ![t] = 2]
        /\ UNCHANGED <<lost, global, fault>>
    BY <1>4 DEF StartRead, objVars, NewFrame, Fresh
  <2>2. 1 \in Cells /\ String(t) \in Cell /\ \A j \in Cells : stack[j] = Plain
    <3>1. \A j \in Cells : j > 0 /\ 1 \in Cells
      BY <1>1 DEF Cells
    <3>2. 1 \in Cells
      BY <1>1 DEF Cells
    <3>3. QED
      BY <1>1, <3>1, <3>2, ValueKinds, ValuesAreCells DEF CellsTyped
  <2>3. PICK st : st = stack'
    OBVIOUS
  <2>4. /\ st \in [Cells -> Cell] /\ st[1] = String(t)
        /\ \A j \in Cells : j # 1 => st[j] = stack[j]
    BY <1>1, <2>1, <2>2, <2>3 DEF CellsTyped
  <2>5. CellsTyped'
    <3>1. \A j \in Cells : j > 1 => j # 1
      BY DEF Cells
    <3>2. QED
      BY <2>1, <2>2, <2>3, <2>4, <3>1 DEF CellsTyped
  <2>6. TaskTyped'
    BY <1>1, <2>1 DEF TaskTyped
  <2>7. refs' \in [Strings -> 0 .. RefLimit - 1]
    <3>1. 2 \in 0 .. RefLimit - 1
      BY EvalAssumption
    <3>2. QED
      BY <2>1, <3>1 DEF CountInv
  <2>8. RefsExact'
    <3> SUFFICES ASSUME NEW s \in Strings
                 PROVE  refs'[s] = Cardinality(Places(st, s)) + Ours(s)' + lost[s]
                                   + Cardinality(Spots(global, s))
      BY <2>1, <2>3 DEF RefsExact
    <3>1. Cardinality(Places(st, s)) + Weight(stack[1], s)
            = Cardinality(Places(stack, s)) + Weight(st[1], s)
      <4>1. PICK c, old : c = 1 /\ old = stack
        OBVIOUS
      <4>2. c \in Cells /\ \A j \in Cells : j # c => st[j] = old[j]
        BY <2>2, <2>4, <4>1
      <4>3. Cardinality(Places(st, s)) + Weight(old[c], s)
              = Cardinality(Places(old, s)) + Weight(st[c], s)
        BY <4>2, PlacesStep
      <4>4. QED
        BY <4>1, <4>3
    <3>2. Weight(stack[1], s) = 0 /\ Weight(st[1], s) = IF s = t THEN 1 ELSE 0
      BY <2>2, <2>4, WeightOfNone DEF Weight, String
    <3>3. Ours(s) = 0 /\ Ours(s)' = IF s = t THEN 1 ELSE 0
      BY <1>1, <2>1, EvalAssumption DEF Ours
    <3>4. refs'[s] = IF s = t THEN 2 ELSE refs[s]
      BY <2>1, CountFacts
    <3>5. PICK p, q, l, g, r, n :
            /\ p = Cardinality(Places(stack, s)) /\ q = Cardinality(Places(st, s))
            /\ l = lost[s] /\ g = Cardinality(Spots(global, s)) /\ r = refs[s]
            /\ n = refs'[s]
      OBVIOUS
    <3>6. /\ p \in Nat /\ q \in Nat /\ l \in Nat /\ g \in Nat /\ r = p + 0 + l + g
      BY <3>3, <3>5, FinitePlaces, CountFacts
    <3>7. n = q + (IF s = t THEN 1 ELSE 0) + l + g
      <4>1. CASE s = t
        <5>1. r = 0 /\ n = 2 /\ q + 0 = p + 1
          BY <2>1, <3>1, <3>2, <3>4, <3>5, <4>1
        <5>2. QED
          BY <3>6, <4>1, <5>1
      <4>2. CASE s # t
        <5>1. n = r /\ q + 0 = p + 0
          BY <3>1, <3>2, <3>4, <3>5, <4>2
        <5>2. QED
          BY <3>6, <4>2, <5>1
      <4>3. QED
        BY <4>1, <4>2
    <3>8. QED
      BY <3>3, <3>5, <3>7
  <2>9. QED
    BY <1>2, <2>1, <2>5, <2>6, <2>7, <2>8 DEF CountInv
<1>5. ASSUME NEW t \in Strings, NotFound(t)
      PROVE  CountInv'
  <2>1. /\ refs[t] = 0 /\ refs' = [refs EXCEPT ![t] = 1]
        /\ lost[t] < MaxLost /\ lost' = [lost EXCEPT ![t] = @ + 1]
        /\ UNCHANGED <<stack, sp, frames, saved, running, data, global, fault>>
    BY <1>5 DEF NotFound, Fresh, Made, frameVars, objVars
  <2>2. CellsTyped' /\ SavedTyped'
    BY <1>1, <2>1 DEF CountInv, CellsTyped, SavedTyped
  <2>3. lost \in [Strings -> 0 .. MaxLost] /\ MaxLost \in Nat
    BY <1>1, EvalAssumption DEF TaskTyped
  <2>4. lost' \in [Strings -> 0 .. MaxLost]
    <3>1. lost[t] + 1 \in 0 .. MaxLost
      BY <2>1, <2>3
    <3>2. QED
      BY <2>1, <2>3, <3>1
  <2>5. TaskTyped'
    BY <1>1, <2>1, <2>4 DEF TaskTyped
  <2>6. refs' \in [Strings -> 0 .. RefLimit - 1]
    <3>1. 1 \in 0 .. RefLimit - 1
      BY EvalAssumption
    <3>2. QED
      BY <2>1, <3>1 DEF CountInv
  <2>7. RefsExact'
    <3> SUFFICES ASSUME NEW s \in Strings
                 PROVE  refs'[s] = Cardinality(Places(stack, s)) + Ours(s) + lost'[s]
                                   + Cardinality(Spots(global, s))
      BY <2>1 DEF RefsExact, Ours
    <3>1. PICK p, u, l, g, m, n :
            /\ p = Cardinality(Places(stack, s)) /\ u = Ours(s) /\ l = lost[s]
            /\ g = Cardinality(Spots(global, s)) /\ m = lost'[s] /\ n = refs'[s]
      OBVIOUS
    <3>2. /\ p \in Nat /\ u \in Nat /\ l \in Nat /\ g \in Nat
          /\ refs[s] = p + u + l + g
      BY <3>1, CountFacts
    <3>3. n = p + u + m + g
      <4>1. CASE s = t
        <5>1. refs[s] = 0 /\ n = 1 /\ m = l + 1
          BY <2>1, <2>3, <3>1, <4>1, CountFacts
        <5>2. QED
          BY <3>2, <5>1
      <4>2. CASE s # t
        <5>1. n = refs[s] /\ m = l
          BY <2>1, <2>3, <3>1, <4>2, CountFacts
        <5>2. QED
          BY <3>2, <5>1
      <4>3. QED
        BY <4>1, <4>2
    <3>4. QED
      BY <3>1, <3>3
  <2>8. QED
    BY <2>2, <2>4, <2>5, <2>6, <2>7 DEF CountInv
<1>6. CASE Stop("assert")
  BY <1>6, StopCounts
<1>7. QED
  BY <1>3, <1>4, <1>5, <1>6 DEF Begin

LEMMA UnchangedCounts == CountInv /\ UNCHANGED evalVars => CountInv'
  BY DEF CountInv, CellsTyped, TaskTyped, SavedTyped, RefsExact, Ours, evalVars

LEMMA StepCounts ==
  ASSUME EvalInv, CountInv, EvalNext
  PROVE  CountInv'
<1>1. ASSUME NEW f \in {"assert", "call", "code", "stack", "count"}, Stop(f)
      PROVE  CountInv'
  BY <1>1, StopCounts
<1>2. Skip => CountInv'
  BY UnchangedCounts DEF Skip
<1>3. CASE ~running /\ Begin
  BY <1>3, BeginCounts
<1>4. ASSUME running, NEW x \in Regs, Instr(x)
      PROVE  CountInv'
  <2>1. CASE \/ LoadPlain(x) \/ LoadString(x) \/ Logic(x) \/ Compare(x) \/ Calculate(x)
             \/ Length(x) \/ Concat(x) \/ Self(x) \/ Parent(x) \/ GetGlobal(x)
             \/ \E y \in Regs : Mov(x, y)
    BY <1>1, <1>2, <1>4, <2>1, ComputeCounts
  <2>2. CASE SetGlobal(x)
    BY <1>1, <1>4, <2>2, SetGlobalCounts
  <2>3. CASE \E y \in Regs : MakeObj(x, y)
    BY <1>1, <1>4, <2>3, MakeObjCounts
  <2>4. CASE Push(x)
    BY <1>4, <2>4, PushCounts
  <2>5. CASE Pop(x)
    BY <1>4, <2>5, PopCounts
  <2>6. CASE Return(x)
    BY <1>4, <2>6, ReturnCounts
  <2>7. QED
    BY <1>4, <2>1, <2>2, <2>3, <2>4, <2>5, <2>6 DEF Instr
<1>5. ASSUME running, NEW n \in Nat, Call(n) \/ CallFails(n) \/ Syscall(n) \/ ArgsLocals(n)
      PROVE  CountInv'
  <2>1. CASE Call(n)
    BY <1>5, <2>1, CallCounts
  <2>2. CASE CallFails(n)
    BY <1>1, <2>2 DEF CallFails
  <2>3. CASE Syscall(n)
    BY <1>1, <1>2, <1>5, <2>3, SyscallCounts
  <2>4. CASE ArgsLocals(n)
    BY <1>1, <1>5, <2>4, ArgsLocalsCounts
  <2>5. QED
    BY <1>5, <2>1, <2>2, <2>3, <2>4
<1>6. CASE PushFull \/ CountWraps \/ HaltInCall
  BY <1>1, <1>6 DEF PushFull, CountWraps, HaltInCall
<1>7. CASE Halt \/ RetryTx
  BY <1>7, HaltCounts, RetryCounts
<1>8. \A n \in 0 .. MaxArgs : n \in Nat
  BY EvalAssumption
<1>9. QED
  BY <1>3, <1>4, <1>5, <1>6, <1>7, <1>8 DEF EvalNext, Step

LEMMA InitCounts == EvalInit => CountInv
<1> SUFFICES ASSUME EvalInit
             PROVE  CountInv
  OBVIOUS
<1>1. /\ stack = EmptyStack /\ sp = 0 /\ running = FALSE /\ data = NoOne
      /\ fault = "none" /\ frames = {1} /\ saved = << >>
      /\ refs = [s \in Strings |-> 0] /\ lost = [s \in Strings |-> 0]
      /\ global = [o \in Objs |-> [g \in Names |-> Plain]]
  BY DEF EvalInit
<1>2. RefLimit \in Nat /\ RefLimit > 2 /\ MaxLost \in Nat /\ NoOne \notin Strings
  BY EvalAssumption
<1>3. CellsTyped
  BY <1>1, ValuesAreCells DEF CellsTyped, EmptyStack
<1>4. SavedTyped
  <2>1. {1} \ {1} = {} /\ << >> \in [{} -> Saved]
    OBVIOUS
  <2>2. QED
    BY <1>1, <2>1 DEF SavedTyped
<1>5. TaskTyped /\ refs \in [Strings -> 0 .. RefLimit - 1]
  <2>1. 0 \in 0 .. MaxLost /\ 0 \in 0 .. RefLimit - 1
    BY <1>2
  <2>2. /\ lost \in [Strings -> 0 .. MaxLost]
        /\ refs \in [Strings -> 0 .. RefLimit - 1]
    BY <1>1, <2>1
  <2>3. TaskTyped
    BY <1>1, <2>2 DEF TaskTyped
  <2>4. QED
    BY <2>2, <2>3
<1>6. RefsExact
  <2> SUFFICES ASSUME NEW s \in Strings
               PROVE  refs[s] = Cardinality(Places(stack, s)) + Ours(s) + lost[s]
                                + Cardinality(Spots(global, s))
    BY DEF RefsExact
  <2>1. /\ refs[s] = 0 /\ lost[s] = 0 /\ Ours(s) = 0
        /\ Cardinality(Places(stack, s)) = 0 /\ Cardinality(Spots(global, s)) = 0
    BY <1>1, <1>2, EmptyPlaces, EmptySpots DEF Ours
  <2>2. QED
    BY <2>1
<1>7. QED
  BY <1>3, <1>4, <1>5, <1>6 DEF CountInv

\* The counts are exact in every state an evaluation can reach, and nothing is
\* left on the stack above its end or between two evaluations.
THEOREM CountInvariant == EvalSpec => []CountInv
<1>1. EvalInv /\ CountInv /\ [EvalNext]_evalVars => CountInv'
  BY StepCounts, UnchangedCounts
<1>2. QED
  BY InitCounts, <1>1, EvalInvariant, PTL DEF EvalSpec

\* The stack holds cells, the counts fit their 16 bits and are never negative,
\* and so on for every variable.
THEOREM EvalTypeCorrect == EvalSpec => []EvalTypeOK
<1>1. EvalInv /\ CountInv => EvalTypeOK
  <2> SUFFICES ASSUME EvalInv, CountInv
               PROVE  EvalTypeOK
    OBVIOUS
  <2>1. sp \in 0 .. StackSize /\ frames \subseteq Frame /\ fp \in Frame
    BY DEF EvalInv, FramesStacked
  <2>2. /\ obj \in Objs /\ global \in [Objs -> [Names -> Value]]
        /\ parent \in [Objs -> Objs \cup {NoOne}]
    BY DEF EvalInv, ObjectsTyped
  <2>3. /\ stack \in [Cells -> Cell] /\ running \in BOOLEAN
        /\ refs \in [Strings -> 0 .. RefLimit - 1]
        /\ data \in Strings \cup {NoOne}
        /\ fault \in {"none", "assert", "call", "code", "stack", "count"}
        /\ lost \in [Strings -> 0 .. MaxLost]
        /\ saved \in [frames \ {1} -> Saved]
    BY DEF CountInv, CellsTyped, TaskTyped, SavedTyped
  <2>4. QED
    BY <2>1, <2>2, <2>3 DEF EvalTypeOK
<1>2. QED
  BY <1>1, EvalInvariant, CountInvariant, PTL

\* The count of a string is the number of cells, globals and workers that have
\* it, and of what retries forgot.
THEOREM EvalCountsExact == EvalSpec => []CountsExact
<1>1. EvalInv /\ CountInv => CountsExact
  <2> SUFFICES ASSUME EvalInv, CountInv, NEW s \in Strings
               PROVE  refs[s] = Held(s, 1, sp) + Ours(s) + lost[s]
                                + Cardinality(Spots(global, s))
    BY DEF CountsExact, Spots
  <2>1. QED
    BY WholeStack DEF CountInv, RefsExact
<1>2. QED
  BY <1>1, EvalInvariant, CountInvariant, PTL

=============================================================================

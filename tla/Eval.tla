-------------------------------- MODULE Eval --------------------------------
(***************************************************************************)
(* The evaluator: src/src/eval.c, with the reference counts of             *)
(* src/src/types.c and the globals of src/src/object.c.                    *)
(*                                                                         *)
(* A task runs any code whose registers are inside its frame, which pops   *)
(* what it pushed and returns where it was called: every step is any such  *)
(* instruction.  The instructions themselves check none of this.  So jumps *)
(* need no model, and the unfinished instructions, which have no operands  *)
(* yet, are left out.                                                      *)
(*                                                                         *)
(* Abstracted: all immediate values, which nothing counts, are one, so an  *)
(* instruction that asserts the type of an immediate may find it or not.   *)
(* Strings have no text: the name of a global is any name.  A register is  *)
(* named by its place in the stack: fp[r] of the code is stack[fp + r],    *)
(* and sp and fp count from ctx->stack.  Cells above sp are Plain: the     *)
(* program writes each before it reads it.  One task runs at a time; what  *)
(* locks do to several is the subject of module Store.                     *)
(*                                                                         *)
(* `fault' says why the program has stopped, once it has: an assert, a     *)
(* method that is not there, a stack that is full.                         *)
(***************************************************************************)
EXTENDS Naturals, FiniteSets

CONSTANTS
  Strings,      \* the heap_strings there is memory for
  Objs,         \* the objects there can be
  Root,         \* object 0
  Names,        \* names of globals
  StackSize,    \* INITIAL_STACK_SIZE, less one for the cell below the first
  RefLimit,     \* what a ref_count of 16 bits has no room for
  MaxArgs,      \* bound: arguments or locals of one instruction
  MaxLost       \* bound: references to a string in abandoned stacks

NoOne == "none"

ASSUME EvalAssumption ==
  /\ Root \in Objs
  /\ NoOne \notin Strings \cup Objs
  /\ IsFiniteSet(Strings) /\ IsFiniteSet(Objs) /\ IsFiniteSet(Names)
  /\ StackSize \in Nat \ {0}
  /\ RefLimit \in Nat /\ RefLimit > 2
  /\ MaxArgs \in Nat
  /\ MaxLost \in Nat

VARIABLES
  stack, sp, fp,    \* as in struct eval_ctx
  obj,              \* the object whose method is evaluated
  running,          \* there is an evaluation
  refs,             \* ref_count of each string, 0 when it is freed
  global,           \* the globals of each object, Plain where it has none
  parent,           \* the first parent of each object that was made
  data,             \* the string the worker holds for a read task
  fault,
  lost,             \* history: references in abandoned stacks, per string
  frames,           \* history: where the frames begin
  saved             \* history: what a frame's caller had when it called

evalVars == <<stack, sp, fp, obj, running, refs, global, parent, data, fault,
              lost, frames, saved>>
frameVars == <<fp, obj, frames, saved>>
objVars == <<global, parent>>
taskVars == <<running, data, lost>>

\* nil, a bool, an int, a float or a special
Plain == [type |-> "plain"]
String(s) == [type |-> "string", at |-> s]
ObjRef(o) == [type |-> "objref", at |-> o]
Value == {Plain} \cup {String(s) : s \in Strings} \cup {ObjRef(o) : o \in Objs}

\* What CALL leaves below a frame.
OldFp(f) == [type |-> "fp", at |-> f]
ReturnTo == [type |-> "code"]
OldObj(o) == [type |-> "obj", at |-> o]
Cells == 1 .. StackSize
Cell == Value \cup {OldFp(f) : f \in Cells} \cup {ReturnTo}
        \cup {OldObj(o) : o \in Objs}

Frame == 1 .. StackSize + 1
Saved == [fp : Cells, obj : Objs, cells : [Cells -> Cell]]

EvalTypeOK ==
  /\ stack \in [Cells -> Cell]
  /\ sp \in 0 .. StackSize
  /\ fp \in Frame
  /\ obj \in Objs
  /\ running \in BOOLEAN
  /\ refs \in [Strings -> 0 .. RefLimit - 1]
  /\ global \in [Objs -> [Names -> Value]]
  /\ parent \in [Objs -> Objs \cup {NoOne}]
  /\ data \in Strings \cup {NoOne}
  /\ fault \in {"none", "assert", "call", "code", "stack", "count"}
  /\ lost \in [Strings -> 0 .. MaxLost]
  /\ frames \subseteq Frame
  /\ saved \in [frames \ {1} -> Saved]

EmptyStack == [j \in Cells |-> Plain]

EvalInit ==
  /\ stack = EmptyStack
  /\ sp = 0
  /\ fp = 1
  /\ obj = Root
  /\ running = FALSE
  /\ refs = [s \in Strings |-> 0]
  /\ global = [o \in Objs |-> [g \in Names |-> Plain]]
  /\ parent = [o \in Objs |-> NoOne]
  /\ data = NoOne
  /\ fault = "none"
  /\ lost = [s \in Strings |-> 0]
  /\ frames = {1}
  /\ saved = << >>

-----------------------------------------------------------------------------
(***************************************************************************)
(* Values.                                                                 *)
(***************************************************************************)

\* val_inc_ref() and val_dec_ref(), on counts h
Counted(h, v) == IF v.type = "string" THEN [h EXCEPT ![v.at] = @ + 1] ELSE h

\* Mutant: the value is cleared after its count went down.
DroppedTwice(h, v) == IF v.type = "string" THEN [h EXCEPT ![v.at] = @ - 2] ELSE h
Dropped(h, v) == IF v.type = "string" THEN [h EXCEPT ![v.at] = @ - 1] ELSE h

\* Counts h have room for one more reference to v.
Countable(h, v) == v.type = "string" => h[v.at] < RefLimit - 1

\* References to s in the cells from a to b.
Held(s, a, b) == Cardinality({j \in a .. b : stack[j] = String(s)})

\* val_make_string() finds memory.
Fresh(s) == refs[s] = 0
Made(s) == [refs EXCEPT ![s] = 1]

-----------------------------------------------------------------------------
(***************************************************************************)
(* The evaluation as a whole.                                              *)
(***************************************************************************)

\* eval_new_ctx(), for a method of o
NewFrame(o) ==
  /\ fp' = 1
  /\ obj' = o
  /\ frames' = {1}
  /\ saved' = << >>

\* eval_free_ctx()
Over ==
  /\ NewFrame(Root)
  /\ running' = FALSE
  /\ data' = NoOne
  /\ sp' = 0
  /\ stack' = EmptyStack

\* The program ends, and its memory with it.
Stop(f) ==
  /\ fault' = f
  /\ Over
  /\ refs' = [s \in Strings |-> 0]
  /\ global' = [o \in Objs |-> [g \in Names |-> Plain]]
  /\ parent' = [o \in Objs |-> NoOne]
  /\ lost' = [s \in Strings |-> 0]

-----------------------------------------------------------------------------
(***************************************************************************)
(* Registers.                                                              *)
(***************************************************************************)

Regs == fp .. sp

\* Register r, after the register dst was cleared to take the result.
Cleared(dst, r) == IF r = dst THEN Plain ELSE stack[r]

\* Register dst takes v, which h has counted already.
Set(dst, v, h) ==
  /\ stack' = [stack EXCEPT ![dst] = v]
  /\ refs' = Dropped(h, stack[dst])
  /\ UNCHANGED <<sp, frameVars, objVars, taskVars, fault>>

Skip == UNCHANGED evalVars

Mov(dst, src) ==
  /\ Countable(Dropped(refs, stack[dst]), Cleared(dst, src))
  /\ Set(dst, Cleared(dst, src), Counted(refs, Cleared(dst, src)))

\* CLEAR, TRUE, LOAD_INT, LOAD_FLOAT, and TYPE of any register
LoadPlain(dst) == Set(dst, Plain, refs)
LoadString(dst) == \E s \in Strings : Fresh(s) /\ Set(dst, String(s), Made(s))

\* Operands that only need a certain type are not parameters: it matters
\* whether there are such registers besides dst, which is cleared first.
Plains(dst) == {r \in Regs \ {dst} : stack[r] = Plain}
Texts(dst) == {r \in Regs \ {dst} : stack[r].type = "string"}
Text(r) == stack[r].type = "string"

\* LOGICAL_AND, _OR, _NOT: val_get_bool() asserts the type.
Logic(dst) == (Plains(dst) # {} /\ Set(dst, Plain, refs)) \/ Stop("assert")

\* EQ, and LE and LT, which assert that b is of a's type.
Compare(dst) == Set(dst, Plain, refs) \/ Stop("assert")

\* ADD, SUB, MUL read their operands before they clear the result; what is
\* no number at all they leave alone.
Calculate(dst) ==
  \/ /\ Plains(dst) # {} \/ stack[dst] = Plain
     /\ Set(dst, Plain, refs) \/ Stop("assert")
  \/ Skip

Length(dst) ==
  \/ Texts(dst) # {} /\ Set(dst, Plain, refs)
  \/ Text(dst) /\ Stop("assert")
  \/ Skip

Concat(dst) ==
  \/ Texts(dst) # {} /\ \E s \in Strings : Fresh(s) /\ Set(dst, String(s), Made(s))
  \/ Text(dst) /\ Stop("assert")
  \/ Skip

-----------------------------------------------------------------------------
(***************************************************************************)
(* Objects.                                                                *)
(***************************************************************************)

Exists(o) == o = Root \/ parent[o] # NoOne

\* Some register has the name; val_get_string_data() asserts that it does.
Named == {r \in Regs : Text(r)} # {}

GetGlobal(dst) ==
  \/ Stop("assert")
  \/ /\ Named
     /\ \E g \in Names : /\ Countable(refs, global[obj][g])
                         /\ Set(dst, global[obj][g], Counted(refs, global[obj][g]))

\* The counts once old has been overwritten with v; mutant: without giving up
\* the old value.
ReplacedKept(old, v) == Counted(refs, v)
Replaced(old, v) == Counted(Dropped(refs, old), v)

\* obj_set_global(): the old value is given up before the new one is counted.
SetGlobal(r) ==
  \/ Stop("assert")
  \/ /\ Named
     /\ \E g \in Names :
          /\ Countable(Dropped(refs, global[obj][g]), stack[r])
          /\ refs' = Replaced(global[obj][g], stack[r])
          /\ global' = [global EXCEPT ![obj][g] = stack[r]]
     /\ UNCHANGED <<stack, sp, frameVars, parent, taskVars, fault>>

MakeObj(dst, src) ==
  IF stack[src].type # "objref" THEN Stop("assert")
  ELSE \E o \in Objs :
         /\ ~Exists(o)
         /\ stack' = [stack EXCEPT ![dst] = ObjRef(o)]
         /\ refs' = Dropped(refs, stack[dst])
         /\ parent' = [parent EXCEPT ![o] = stack[src].at]
         /\ UNCHANGED <<sp, frameVars, global, taskVars, fault>>

Self(dst) == Set(dst, ObjRef(obj), refs)
Parent(dst) ==
  Set(dst, IF parent[obj] = NoOne THEN Plain ELSE ObjRef(parent[obj]), refs)

-----------------------------------------------------------------------------
(***************************************************************************)
(* The stack.                                                              *)
(***************************************************************************)

Push(src) ==
  /\ sp < StackSize
  /\ Countable(refs, stack[src])
  /\ sp' = sp + 1
  /\ stack' = [stack EXCEPT ![sp + 1] = stack[src]]
  /\ refs' = Counted(refs, stack[src])
  /\ UNCHANGED <<frameVars, objVars, taskVars, fault>>

\* Nothing looks at the end of the stack.
PushFull == sp = StackSize /\ Stop("stack")

\* The reference moves with the value.
Pop(dst) ==
  /\ stack' = [stack EXCEPT ![dst] = Cleared(dst, sp), ![sp] = Plain]
  /\ refs' = Dropped(refs, stack[dst])
  /\ sp' = sp - 1
  /\ UNCHANGED <<frameVars, objVars, taskVars, fault>>

ArgsLocals(n) ==
  IF sp + n > StackSize THEN Stop("stack")
  ELSE /\ sp' = sp + n
       /\ UNCHANGED <<stack, refs, frameVars, objVars, taskVars, fault>>

\* The stack with what RETURN will need below a new frame f; mutant: each of
\* it one cell too high.
LinkedUp(f) ==
  [stack EXCEPT ![f - 2] = OldFp(fp), ![f - 1] = ReturnTo, ![f] = OldObj(obj)]
Linked(f) ==
  [stack EXCEPT ![f - 3] = OldFp(fp), ![f - 2] = ReturnTo, ![f - 1] = OldObj(obj)]

\* The arguments of a call are its registers; the three cells below them are
\* overwritten.
Call(n) ==
  LET f == sp - n + 1
  IN  /\ f - 3 >= fp
      /\ stack[f - 3].type = "objref"
      /\ stack[f - 2].type = "string"
      /\ refs' = Dropped(Dropped(Dropped(refs, stack[f - 3]), stack[f - 2]), stack[f - 1])
      /\ stack' = Linked(f)
      /\ obj' = stack[f - 3].at
      /\ fp' = f
      /\ frames' = frames \cup {f}
      /\ saved' = [g \in frames' \ {1} |->
                     IF g = f THEN [fp |-> fp, obj |-> obj, cells |-> stack]
                              ELSE saved[g]]
      /\ UNCHANGED <<sp, objVars, taskVars, fault>>

\* Something else than an object and a name, an object that cannot be had, a
\* method that is not there.
CallFails(n) == sp - n - 2 >= fp /\ Stop("call")

\* The object RETURN goes back to; mutant: it stays with the one that was
\* called.
ObjKept == obj
CallerObj == stack[fp - 1].at

\* The stack for the caller, with value v where the old fp was; mutant: the
\* cell above it, which stays on the stack, is not cleared.
ReturnedUncleared(v) ==
  [j \in Cells |-> IF j < fp - 3 \/ j = fp - 2 THEN stack[j]
                   ELSE IF j = fp - 3 THEN v ELSE Plain]
Returned(v) ==
  [j \in Cells |-> IF j < fp - 3 THEN stack[j] ELSE IF j = fp - 3 THEN v ELSE Plain]

Return(r) ==
  LET v == stack[r]
  IN  /\ fp # 1
      /\ Countable(refs, v)
      /\ fp' = stack[fp - 3].at
      /\ obj' = CallerObj
      /\ sp' = fp - 2
      /\ stack' = Returned(v)
      /\ refs' = [s \in Strings |-> Counted(refs, v)[s] - Held(s, fp, sp)]
      /\ frames' = frames \ {fp}
      /\ saved' = [g \in frames' \ {1} |-> saved[g]]
      /\ UNCHANGED <<objVars, taskVars, fault>>

\* The name and the arguments are taken off, whatever the system call did
\* with them; some of them it asserts.
Syscall(n) ==
  /\ sp - n >= fp
  /\ IF stack[sp - n].type # "string" THEN Skip
     ELSE \/ Stop("assert")
          \/ /\ sp' = sp - n - 1
             /\ stack' = [j \in Cells |-> IF j < sp - n THEN stack[j] ELSE Plain]
             /\ refs' = [s \in Strings |-> refs[s] - Held(s, sp - n, sp)]
             /\ UNCHANGED <<frameVars, objVars, taskVars, fault>>

\* A string that has as many references as can be counted gets another one:
\* from MOV and SETGLOBAL, which give up the old value first, from GETGLOBAL,
\* or from PUSH and RETURN.
CountWraps ==
  /\ \/ \E x, y \in Regs : ~Countable(Dropped(refs, stack[x]), Cleared(x, y))
     \/ \E r \in Regs, g \in Names :
          Named /\ ~Countable(Dropped(refs, global[obj][g]), stack[r])
     \/ \E g \in Names : Named /\ ~Countable(refs, global[obj][g])
     \/ \E r \in Regs : (sp < StackSize \/ fp # 1) /\ ~Countable(refs, stack[r])
  /\ Stop("count")

-----------------------------------------------------------------------------
(***************************************************************************)
(* Tasks: vm_eval_ctx_exec(), as tasks_thread_func() calls it.             *)
(***************************************************************************)

\* A task without a string to pass on,
Start(o) ==
  /\ NewFrame(o)
  /\ running' = TRUE
  /\ UNCHANGED <<stack, sp, refs, data, lost, objVars, fault>>

\* and one with, which the worker holds until the evaluation is over.
StartRead(o, s) ==
  /\ Fresh(s)
  /\ NewFrame(o)
  /\ running' = TRUE
  /\ data' = s
  /\ sp' = 1
  /\ stack' = [stack EXCEPT ![1] = String(s)]
  /\ refs' = [refs EXCEPT ![s] = 2]
  /\ UNCHANGED <<lost, objVars, fault>>

\* The object has no such method: the argument stays counted, but in a stack
\* that nobody will clear.  (Without a string among the arguments nothing is
\* left behind.)
NotFound(s) ==
  /\ Fresh(s)
  /\ lost[s] < MaxLost
  /\ refs' = Made(s)
  /\ lost' = [lost EXCEPT ![s] = @ + 1]
  /\ UNCHANGED <<stack, sp, frameVars, running, data, objVars, fault>>

\* What the worker itself holds of s.
Ours(s) == IF s = data THEN 1 ELSE 0

\* HALT takes everything off the stack,
Halt ==
  /\ Over
  /\ refs' = [s \in Strings |-> refs[s] - Held(s, 1, sp) - Ours(s)]
  /\ UNCHANGED <<lost, objVars, fault>>

\* also what is no value: a return address may look like a string.
HaltInCall == fp # 1 /\ Stop("code")

\* EVAL_RETRY_TX, when SETGLOBAL is refused the lock, before it looks at the
\* name: nothing is taken off.
RetryTx ==
  /\ Regs # {}
  /\ Over
  /\ refs' = [s \in Strings |-> refs[s] - Ours(s)]
  /\ lost' = [s \in Strings |-> lost[s] + Held(s, 1, sp)]
  /\ \A s \in Strings : lost'[s] <= MaxLost
  /\ UNCHANGED <<objVars, fault>>

-----------------------------------------------------------------------------

Instr(x) ==
  \/ LoadPlain(x) \/ LoadString(x) \/ Logic(x) \/ Compare(x) \/ Calculate(x)
  \/ Length(x) \/ Concat(x) \/ GetGlobal(x) \/ SetGlobal(x) \/ Self(x)
  \/ Parent(x) \/ Push(x) \/ Pop(x) \/ Return(x)
  \/ \E y \in Regs : Mov(x, y) \/ MakeObj(x, y)

Step ==
  \/ \E x \in Regs : Instr(x)
  \/ \E n \in 0 .. MaxArgs : Call(n) \/ CallFails(n) \/ Syscall(n) \/ ArgsLocals(n)
  \/ PushFull \/ CountWraps \/ Halt \/ HaltInCall \/ RetryTx

\* vm_get_eval_ctx() asserts that the object can be had.
Begin ==
  \/ \E o \in Objs : Exists(o) /\ (Start(o) \/ \E s \in Strings : StartRead(o, s))
  \/ \E s \in Strings : NotFound(s)
  \/ Stop("assert")

EvalNext ==
  /\ fault = "none"
  /\ (running /\ Step) \/ (~running /\ Begin)

EvalSpec == EvalInit /\ [][EvalNext]_evalVars

-----------------------------------------------------------------------------
(***************************************************************************)
(* Properties                                                              *)
(***************************************************************************)

\* The count of a string is the number of cells, globals and workers that
\* have it, and of what retries forgot: no string is freed that something
\* still refers to, and none is kept that nothing but an abandoned stack does.
CountsExact ==
  \A s \in Strings :
    refs[s] = Held(s, 1, sp) + Ours(s) + lost[s]
              + Cardinality({x \in Objs \X Names : global[x[1]][x[2]] = String(s)})

\* Whatever a method does, its callers' registers stay as they were when they
\* called, and what CALL left for its RETURN stays where it is.
CallersKept ==
  \A f \in frames \ {1} :
    /\ \A j \in 1 .. f - 4 : stack[j] = saved[f].cells[j]
    /\ stack[f - 3] = OldFp(saved[f].fp)
    /\ stack[f - 2] = ReturnTo
    /\ stack[f - 1] = OldObj(saved[f].obj)

\* What CALL left on the stack for RETURN is no register of any method, neither
\* of the one that was called nor of the caller it returns to.
RegistersAreValues == \A r \in Regs : stack[r] \in Value

\* A method that returns gives its caller back its frame and its object.
CallerResumes ==
  [][running' /\ fp' < fp => fp' = saved[fp].fp /\ obj' = saved[fp].obj]_evalVars

=============================================================================

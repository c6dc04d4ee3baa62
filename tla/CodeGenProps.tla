----------------------------- MODULE CodeGenProps -----------------------------
(***************************************************************************)
(* What the code generator must keep true while it walks a tree, and of    *)
(* the list of nodes it leaves behind.                                     *)
(***************************************************************************)
EXTENDS CodeGen

Function == [node : Node \cup {NULL}, ir_list_head : Nat, name : Name, arg_cnt : Nat]
VarTable == [offset : Int, vars : Seq(Name), is_global : BOOLEAN]

\* The types of the variables, and the indices that must be in range.
TypeOK ==
  /\ phase \in {"declarations", "functions", "done", "failed"}
  /\ error \in {"none", "undefined variable", "undefined function",
                "argument count", "no return", "redefinition", "no main"}
  /\ cursor \in Node \cup {NULL}
  /\ next_func \in Nat \ {0}
  /\ walk \in Seq(Frame)
  /\ functions \in Seq(Function)
  /\ name_scope \in Seq(VarTable)
  /\ block_depth \in Nat
  /\ has_return \in BOOLEAN
  /\ global_var_cnt \in Nat
  /\ stack_frame_size \in Nat
  /\ heap \in Seq(IrNode)
  /\ list \in Seq(1..Len(heap))
  /\ func_return \in 0..Len(heap)
  /\ ir_stack \in Seq(1..Len(heap))

-----------------------------------------------------------------------------
(* The shared stacks against the recursion.                                *)

\* Activations of a node type that have got as far as a stage.
Open(type, stage) ==
  {i \in 1..Len(walk) : walk[i].node.type = type /\ walk[i].stage >= stage}

OpenBlocks == Open("BLOCK", COMPILED_RIGHT)
OpenParameterScopes == Open("NFUN", COMPILED_LEFT)
OpenBodyScopes == Open("NFUN", COMPILING_RIGHT)

\* Scopes are pushed and popped by different calls of different handlers: the
\* stack holds one table for the globals, and one for each block and two for
\* each function the recursion is inside of; the depth that decides whether a
\* return counts is the number of open blocks.
ScopesMatchWalk ==
  /\ block_depth = Cardinality(OpenBlocks)
  /\ Len(name_scope) = 1 + (Cardinality(OpenParameterScopes)
                              + Cardinality(OpenBodyScopes) + Cardinality(OpenBlocks))

\* What an activation has pushed on ir_stack and not yet popped.
Pending(frame) ==
  CASE frame.node.type = "NFUN" /\ frame.stage > COMPILING_LEFT -> << "prologue" >>
    [] frame.node.type = "WHILE" /\ frame.stage = COMPILED_LEFT -> << "start" >>
    [] frame.node.type = "WHILE" /\ frame.stage > COMPILED_LEFT -> << "start", "exit" >>
    [] frame.node.type = "BRANCH" /\ frame.stage = COMPILED_LEFT -> << "exit" >>
    [] frame.node.type = "BRANCH" /\ frame.stage > COMPILED_LEFT -> << "skip" >>
    [] OTHER -> <<>>

Awaits(role, node) ==
  CASE role = "prologue" -> /\ node.operation = "MOV"
                            /\ node.operand1 = operand_reg("RBP")
    [] role = "start"    -> node = new_empty
    [] role = "exit"     -> node = new_jmp("EQUAL", NIL)
    [] role = "skip"     -> node = new_jmp("NONE", NIL)

\* The entries of ir_stack that belong to the activations below i.
PendingBelow(frames, i) ==
  {entry \in (1..(i - 1)) \X (1..2) : entry[2] <= Len(Pending(frames[entry[1]]))}
Base(frames, i) == Cardinality(PendingBelow(frames, i))

Listed(id) == \E i \in 1..Len(list) : list[i] = id

\* One untyped stack holds loop starts, jumps to patch and prologues, and a
\* handler pops what it takes to be its own: the stack is always what the
\* open activations pushed, in their order, each node linked, still unpatched
\* and not erased as the result of a call.
PatchStackMatchesWalk ==
  /\ Len(ir_stack) = Base(walk, Len(walk) + 1)
  /\ \A i \in 1..Len(walk) : \A k \in 1..Len(Pending(walk[i])) :
       Awaits(Pending(walk[i])[k], heap[ir_stack[Base(walk, i) + k]])
  /\ \A i \in 1..Len(ir_stack) :
       /\ Listed(ir_stack[i])
       /\ \A j \in 1..(i - 1) : ir_stack[j] # ir_stack[i]

-----------------------------------------------------------------------------
(* Variables and their slots.                                              *)

Slot(t, i) == << name_scope[t].is_global, name_scope[t].offset + SLOT * (i - 1) >>

\* Two variables that are in scope together never share their memory.
VisibleSlotsDistinct ==
  \A t, u \in 1..Len(name_scope) :
    \A i \in 1..Len(name_scope[t].vars), j \in 1..Len(name_scope[u].vars) :
      Slot(t, i) = Slot(u, j) => t = u /\ i = j

\* The functions whose code is complete.
Compiled ==
  {k \in 1..Len(functions) :
     /\ functions[k].node # NULL
     /\ k < next_func - 1 \/ (k = next_func - 1 /\ walk = <<>>)}

Position(id) == CHOOSE i \in 1..Len(list) : list[i] = id

\* The positions of a compiled function's code, from its head to its RET.
Code(k) ==
  LET first == Position(functions[k].ir_list_head)
      last  == CHOOSE i \in first..Len(list) :
                 /\ heap[list[i]].operation = "RET"
                 /\ \A j \in first..(i - 1) : heap[list[j]].operation # "RET"
  IN  first..last

At(i) == heap[list[i]]

\* The bytes a prologue reserves: head, push and mov, then the SUB if any.
FrameAt(first) ==
  LET create == At(first + 3)
  IN  IF create.operation = "SUB" /\ create.operand1 = operand_reg("RSP")
        THEN create.operand2.immediate ELSE 0

ReservedFrame(k) == FrameAt(Position(functions[k].ir_list_head))

\* The frame is sized while blocks close and created only at the end of the
\* function: it still covers every slot the body's code reads or writes, so
\* no local shares memory with temporaries, the saved RBP or the return
\* address, and the epilogue releases as much as the prologue reserved.
LocalsInsideFrame ==
  \A k \in Compiled :
    /\ \A i \in Code(k) :
         IsLocalAccess(At(i)) => SlotOf(At(i)) \in SLOT..ReservedFrame(k)
    /\ LET destroy == At(Position(functions[k].ir_list_head) + Cardinality(Code(k)) - 3)
       IN  ReservedFrame(k) > 0 =>
             destroy = new_binary("ADD", operand_reg("RSP"), operand_imm(ReservedFrame(k)))

-----------------------------------------------------------------------------
(* The finished list.                                                      *)

\* When compilation succeeds every node is linked once, every jump has been
\* patched and stays inside its function, every call goes to the head of a
\* function, and only function bodies jump.
ControlFlowClosed ==
  phase = "done" =>
    /\ \A i, j \in 1..Len(list) : list[i] = list[j] => i = j
    /\ \A k \in Compiled : \A i \in Code(k) :
         At(i).operation = "JMP" => \E j \in Code(k) : list[j] = At(i).jump_target
    /\ \A i \in 1..Len(list) :
         /\ At(i).operation = "JMP" => \E k \in Compiled : i \in Code(k)
         /\ At(i).operation = "CALL" =>
              \E k \in 1..Len(functions) : At(i).jump_target = functions[k].ir_list_head
    /\ \A k \in 1..Len(functions) :
         functions[k].node = NULL \/ Listed(functions[k].ir_list_head)

PatchedJump(before, after) ==
  /\ before.operation = "JMP"
  /\ before.jump_target = NIL
  /\ \E target \in 1..Len(heap') : after = [before EXCEPT !.jump_target = target]

ErasedCall(before, previous, after) ==
  /\ before = new_push_reg("RAX")
  /\ previous.operation = "CALL" \/ previous.operand1 = operand_reg("RSP")
  /\ after = new_empty

KeepsEmittedCode ==
  /\ \A id \in 1..Len(heap) :
       \/ heap'[id] = heap[id]
       \/ /\ \E i \in 1..Len(ir_stack) : ir_stack[i] = id
          /\ PatchedJump(heap[id], heap'[id])
       \/ /\ id = ir_tail
          /\ ErasedCall(heap[id], heap[list[Len(list) - 1]], heap'[id])
  /\ \E cut \in 0..Len(list), by \in 0..1 :
       \A i \in 1..Len(list) : list'[IF i <= cut THEN i ELSE i + by] = list[i]

\* Code already emitted changes in two ways only: a pending jump gets its
\* target, and the pushed result of the call just compiled is erased.  The
\* order of the list never changes: nodes are added behind it and at most one
\* of them, the frame of a function, within it.
EmittedCodeIsStable == [][KeepsEmittedCode]_vars

-----------------------------------------------------------------------------
(* What the documentation says and the code does not do.                   *)

\* README.md:95, compiler.cpp:540: a parameter is a variable of the function.
\* No compilation fails because the name of a parameter is unknown in the
\* function that has it.
ParametersAreVariables ==
  LET names[n \in Node \cup {NULL}] ==
        IF n = NULL THEN {} ELSE {n.value} \cup names[n.right]
  IN  error = "undefined variable" /\ walk[1].node.type = "NFUN"
        => Top.node.value \notin names[walk[1].node.left]
=============================================================================

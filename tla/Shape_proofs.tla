----------------------------- MODULE Shape_proofs -----------------------------
(***************************************************************************)
(* Why the stack of a tidy program is in order, first half: the code.      *)
(* Each instruction has a shape: where in a function it is, and how many   *)
(* operands are on top of the stack when control is there.  The handlers   *)
(* of the code generator agree on the shapes of what they emit.            *)
(***************************************************************************)
EXTENDS Backend_proofs

Shape == [place : {"entry", "called", "pushed", "entered", "body"}, height : Nat]
shape(place, height) == [place |-> place, height |-> height]

\* In a function: the return address is on top; so is the saved RBP; RBP is
\* set, but there is no frame; and there is the frame, and nothing above it.
Called  == shape("called", 0)
Pushed  == shape("pushed", 0)
Entered == shape("entered", 0)
Idle    == shape("body", 0)
Entry   == shape("entry", 0)

Raised(s, n) == shape(s.place, s.height + n)
Plain(s) == s.place \in {"entry", "body"}

Takes(node, r) == node.operand1 = operand_reg(r)
SetsRbp(node) == node.operation \in {"MOV", "POP"} /\ Takes(node, "RBP")

\* Instructions that leave RSP, RBP and control alone.
Inert(node) ==
  /\ node.operation \notin {"PUSH", "POP", "JMP", "CALL", "RET", "SYSCALL"}
  /\ ~ (node.operation \in {"ADD", "SUB"} /\ Takes(node, "RSP"))
  /\ ~ SetsRbp(node)

\* An instruction may stand where the shape is s, and then it is t behind it.
Flows(node, s, t) ==
  /\ IsLocalAccess(node) => s.place = "body"
  /\ node.operand1 = operand_top => Plain(s) /\ s.height > 0
  /\ node.operation = "PUSH" => IF Takes(node, "RBP") THEN s = Called /\ t = Pushed
                                ELSE Plain(s) /\ t = Raised(s, 1)
  /\ node.operation = "POP"  => IF Takes(node, "RBP") THEN s \in {Entered, Idle} /\ t = Called
                                ELSE Plain(t) /\ s = Raised(t, 1)
  /\ node.operation = "MOV" /\ Takes(node, "RBP") => s = Pushed /\ t \in {Entered, Idle}
  /\ node.operation = "SUB" /\ Takes(node, "RSP") => s = Entered /\ t = Idle
  /\ node.operation = "ADD" /\ Takes(node, "RSP") =>
       \/ Plain(t) /\ s = Raised(t, M!AmountOf(node))
       \/ s = Idle /\ t = Entered
  /\ node.operation = "JMP"  => s = Idle /\ (node.flags # "NONE" => t = Idle)
  /\ node.operation = "CALL" => Plain(s) /\ t = s
  /\ node.operation = "RET"  => s = Called
  /\ node.operation = "SYSCALL" => s = Entry
  /\ Inert(node) => t = s

-----------------------------------------------------------------------------
(* The shapes of the code emitted so far.                                  *)

\* How many values the code of a tree leaves on the stack.
Results(node) ==
  CASE TypeOf(node) \in Expression -> 1
    [] TypeOf(node) = "PAR"        -> ChainOf(node)
    [] OTHER                       -> 0

\* How many an activation keeps there while its next child is compiled.
Holds(frame) ==
  \/ /\ frame.node.type \in {"OP", "PAR"} /\ frame.node.left # NULL
     /\ frame.stage \in {COMPILING_RIGHT, COMPILED_RIGHT}
  \/ frame.node.type = "IF" /\ frame.stage = COMPILING_RIGHT
  \/ frame.node.type = "BRANCH" /\ frame.stage = COMPILING_LEFT
Held(frame) == IF Holds(frame) THEN 1 ELSE 0

\* How many the child just compiled has left.
Brought(frame) ==
  CASE frame.stage = COMPILED_LEFT  -> Results(frame.node.left)
    [] frame.stage = COMPILED_RIGHT -> Results(frame.node.right)
    [] OTHER                        -> 0

\* under[i] values are on the stack where the code of activation i begins, and
\* statements begin with none.
Under(under) ==
  /\ under \in Seq(Nat) /\ Len(under) = Len(walk)
  /\ walk # <<>> => under[1] = 0
  /\ \A i \in 1..(Len(walk) - 1) : under[i + 1] = under[i] + Held(walk[i])
  /\ \A i \in 1..Len(walk) : walk[i].node.type \notin ExpressionPart => under[i] = 0

\* The shape of the next instruction.
Place == IF InFunction THEN "body" ELSE "entry"

TailShape(under) ==
  IF walk # <<>> /\ (InFunction \/ walk[1].node.type = "NVAR")
    THEN shape(Place, under[Len(walk)] + (Held(Top) + Brought(Top)))
  ELSE IF phase = "declarations" THEN Entry
  ELSE Called

Flowing(h, l, sh, tail) ==
  \A i \in 1..Len(l) : Flows(h[l[i]], sh[l[i]], IF i < Len(l) THEN sh[l[i + 1]] ELSE tail)

\* Jumps lead to where nothing is on the stack but the frame, calls to where
\* nothing is on it but the return address.
Aimed(sh) ==
  /\ sh[list[1]] = Entry
  /\ \A i \in 1..Len(list) :
       At(i).operation = "JMP" /\ At(i).jump_target # NIL =>
         At(i).jump_target \in 1..Len(heap) /\ sh[At(i).jump_target] = Idle
  /\ \A k \in 1..Len(functions) : sh[functions[k].ir_list_head] = Called
  /\ func_return # NIL => sh[func_return] = Idle
  /\ \A e \in 1..Len(ir_stack) : heap[ir_stack[e]] = new_empty => sh[ir_stack[e]] = Idle

\* What makes a frame and what drops it agree on its size, and only a function
\* without one goes without them.
Framing(node, s, t, frame) ==
  /\ node.operation \in {"ADD", "SUB"} /\ Takes(node, "RSP") /\ (s = Entered \/ t = Entered) =>
       node.operand2.immediate = frame
  /\ SetsRbp(node) /\ (s = Idle \/ t = Idle) => frame = 0

\* The code of a function.
Home(sh, first, last) ==
  /\ \E k \in 1..Len(functions) : Region(k, first, last)
  /\ \A i \in first..(last - 1) :
       Framing(At(i), sh[list[i]], sh[list[i + 1]], FrameAt(first))

\* A function that is not finished has made no frame and has dropped none.
Frameless(sh, start) ==
  \A i \in start..Len(list) :
    /\ sh[list[i]] # Entered
    /\ SetsRbp(At(i)) => i = start + 2

Housed(sh) ==
  \E start \in 1..(Len(list) + 1) :
    /\ Begun(start)
    /\ Frameless(sh, start)
    /\ \A i \in 1..(start - 1) : sh[list[i]].place # "entry" =>
         \E last \in i..(start - 1) : \E first \in 1..i : Home(sh, first, last)

\* No activation is inside a loose loop.
Neat ==
  walk # <<>> /\ walk[1].node.type = "NFUN" =>
    \A i \in 1..Len(walk) : walk[i].node \notin LooseTrees

Shaped(sh, under) ==
  /\ sh \in Seq(Shape) /\ Len(sh) = Len(heap)
  /\ Under(under)
  /\ Neat
  /\ Flowing(heap, list, sh, TailShape(under))
  /\ Aimed(sh)
  /\ Housed(sh)

ShapeInv ==
  Tidy /\ phase # "failed" => \E sh \in Seq(Shape), under \in Seq(Nat) : Shaped(sh, under)

-----------------------------------------------------------------------------
(* The walk.                                                               *)

\* How high the stack of operands is above where an activation began, before
\* its handler and after it.
Owed(frame) == Held(frame) + Brought(frame)

Left(frame) ==
  CASE frame.stage = COMPILING_LEFT  -> 0
    [] frame.stage = COMPILED_LEFT   -> Held([node |-> frame.node, stage |-> COMPILING_RIGHT])
    [] frame.stage = COMPILING_RIGHT -> Held(frame)
    [] frame.stage = COMPILED_RIGHT  -> Results(frame.node)

\* Results and what is held are numbers.
LEMMA Counts ==
  ASSUME NEW node \in Node \cup {NULL}
  PROVE  /\ Results(node) \in Nat
         /\ Results(NULL) = 0
         /\ node # NULL /\ node.type \in Expression => Results(node) = 1
         /\ node # NULL /\ node.type = "PAR" => Results(node) = 1 + Results(node.right)
         /\ node # NULL /\ node.type \notin Expression \cup {"PAR"} => Results(node) = 0
<1>1. NULL \notin Node
  BY NodeAssumption
<1>2. Results(NULL) = 0
  BY DEF Results, TypeOf, Expression
<1>3. ASSUME node # NULL, node.type = "PAR"
      PROVE  Results(node) = 1 + Results(node.right) /\ Results(node) \in Nat
  <2>1. node.right \in Node \cup {NULL} /\ TypeOf(node.right) \in {"PAR", "none"}
    BY <1>3, NodeFields DEF RightChild, Expression
  <2>2. Results(node) = ChainOf(node) /\ Results(node) \in Nat
    BY <1>3, ChainAssumption DEF Results, TypeOf, Expression
  <2>3. ChainOf(node) = 1 + ChainOf(node.right)
    BY <1>3, ChainAssumption
  <2>4. CASE node.right = NULL
    BY <1>2, <2>2, <2>3, <2>4, ChainAssumption
  <2>5. CASE node.right # NULL
    <3>1. node.right \in Node /\ node.right.type = "PAR"
      BY <2>1, <2>5, NodeFields DEF TypeOf, NodeType, Expression, Statement
    <3> QED BY <2>2, <2>3, <3>1, <2>5 DEF Results, TypeOf, Expression
  <2> QED BY <2>2, <2>4, <2>5
<1>4. ASSUME node # NULL, node.type # "PAR"
      PROVE  Results(node) = IF node.type \in Expression THEN 1 ELSE 0
  BY <1>4 DEF Results, TypeOf
<1> QED BY <1>2, <1>3, <1>4 DEF Expression

\* What a frame holds is a number, and only parts of expressions hold any
\* while a child is being compiled.
LEMMA Holding ==
  ASSUME NEW frame, frame.node \in Node, frame.stage \in 0..3
  PROVE  /\ Held(frame) \in {0, 1} /\ Brought(frame) \in Nat /\ Owed(frame) \in Nat
         /\ frame.stage = 1 => Held(frame) = 0
         /\ frame.stage = 3 /\ frame.node.type \notin ExpressionPart => Held(frame) = 0
         /\ frame.stage \in {0, 2} => Brought(frame) = 0
<1>1. frame.node.left \in Node \cup {NULL} /\ frame.node.right \in Node \cup {NULL}
  BY NodeFields
<1>2. Results(frame.node.left) \in Nat /\ Results(frame.node.right) \in Nat
  BY <1>1, Counts
<1> QED
  BY <1>2 DEF Held, Holds, Brought, Owed, ExpressionPart, Expression, COMPILING_LEFT,
              COMPILED_LEFT, COMPILING_RIGHT, COMPILED_RIGHT

\* The heights agree when an activation enters a child, passes a missing one,
\* or goes on to its right child.
LEMMA Descending ==
  ASSUME NEW before, NEW after, before.node \in Node, before.stage \in 0..2,
         after.node = before.node, after.stage = before.stage + 1
  PROVE  /\ \A below :
              /\ below.stage = 0 /\ below.node \in Node
              /\ \/ before.stage = 0 /\ below.node = before.node.left
                 \/ before.stage = 2 /\ below.node = before.node.right
              => Held(after) + Owed(below) = Left(before)
         /\ before.stage = 0 /\ before.node.left = NULL => Owed(after) = Left(before)
         /\ before.stage = 2 /\ before.node.right = NULL => Owed(after) = Left(before)
         /\ before.stage = 1 => Owed(after) = Left(before)
<1> DEFINE node == before.node
<1> USE DEF COMPILING_LEFT, COMPILED_LEFT, COMPILING_RIGHT, COMPILED_RIGHT
<1>1. /\ node.type \in NodeType
      /\ node.left \in Node \cup {NULL} /\ node.right \in Node \cup {NULL}
      /\ TypeOf(node.left) \in LeftChild(node.type)
      /\ TypeOf(node.right) \in RightChild(node.type)
  BY NodeFields
<1>2. node.type \in {"OP", "PAR"} \/ node.type = "IF" \/ node.type \notin {"OP", "PAR", "IF"}
  OBVIOUS
<1>3. ASSUME NEW below, below.stage = 0, below.node \in Node,
             \/ before.stage = 0 /\ below.node = node.left
             \/ before.stage = 2 /\ below.node = node.right
      PROVE  Held(after) + Owed(below) = Left(before)
  <2>1. Owed(below) = IF below.node.type = "BRANCH" THEN 1 ELSE 0
    BY <1>3, Holding DEF Owed, Held, Holds, Brought
  <2>2. below.node.type = "BRANCH" <=> before.stage = 2 /\ node.type = "IF"
    <3>1. below.node # NULL /\ TypeOf(below.node) = below.node.type
      BY <1>3, NodeFields DEF TypeOf
    <3>2. CASE before.stage = 0
      BY <1>1, <1>3, <3>1, <3>2 DEF LeftChild, Expression, Statement
    <3>3. CASE before.stage = 2
      BY <1>1, <1>3, <3>1, <3>3 DEF RightChild, Expression, Statement
    <3> QED BY <1>3, <3>2, <3>3
  <2>3. CASE before.stage = 0
    BY <2>1, <2>2, <2>3 DEF Left, Held, Holds
  <2>4. CASE before.stage = 2
    BY <2>1, <2>2, <2>4 DEF Left, Held, Holds
  <2> QED BY <1>3, <2>3, <2>4
<1>4. Results(NULL) = 0
  BY Counts
<1>5. before.stage = 0 /\ node.left = NULL => Owed(after) = Left(before)
  BY <1>4 DEF Left, Owed, Held, Holds, Brought
<1>6. ASSUME before.stage = 2, node.right = NULL
      PROVE  Owed(after) = Left(before)
  <2>1. node.type # "IF"
    BY <1>1, <1>6 DEF TypeOf, RightChild
  <2> QED BY <1>4, <1>6, <2>1 DEF Left, Owed, Held, Holds, Brought
<1>7. ASSUME before.stage = 1
      PROVE  Owed(after) = Left(before)
  BY <1>7 DEF Left, Owed, Held, Holds, Brought
<1> QED BY <1>3, <1>5, <1>6, <1>7

\* After a handler there are heights for the walk again, and the top of the
\* stack of operands is where the handler must have put it.
LEMMA HeightsAfter ==
  ASSUME IInv, CodeInv, walk # <<>>, Proceed, NEW under, Under(under)
  PROVE  /\ under[Len(walk)] \in Nat
         /\ Top \in Frame /\ Owed(Top) \in Nat /\ Left(Top) \in Nat
         /\ \E later \in Seq(Nat) :
              /\ Under(later)'
              /\ walk' # <<>> => /\ Top' \in Frame
                                 /\ later[Len(walk')] \in Nat
                                 /\ later[Len(walk')] + Owed(Top') = under[Len(walk)] + Left(Top)
              /\ walk' = <<>> => under[Len(walk)] + Left(Top) = 0
<1> USE DEF COMPILING_LEFT, COMPILED_LEFT, COMPILING_RIGHT, COMPILED_RIGHT
<1>0. walk \in Seq(Frame) /\ WalkLinked /\ WalkShape
  BY HandlerState DEF IInv, CodeInv
<1>1. PICK n \in Nat \ {0} : n = Len(walk)
  BY <1>0
<1>2. /\ walk \in Seq(Frame) /\ walk' \in Seq(Frame) /\ Len(walk') \in Nat
      /\ Top = walk[n] /\ Top \in Frame /\ Top.node \in Node /\ Top.stage \in 0..3
      /\ WalkLinked /\ WalkShape
  <2>1. walk' \in Seq(Frame) /\ Len(walk') \in Nat
    BY <1>0, ProceedWalk
  <2>2. Top = walk[n] /\ walk[n] \in Frame
    BY <1>0, <1>1 DEF Top
  <2> QED BY <1>0, <2>1, <2>2, TopTyped
<1>3. /\ \A i \in 1..(n - 1) : walk'[i] = walk[i]
      /\ Top.stage = 3 => Len(walk') = n - 1
      /\ Top.stage # 3 =>
           /\ Len(walk') \in {n, n + 1}
           /\ walk'[n].node = Top.node
           /\ walk'[n].stage = Top.stage + 1
      /\ Len(walk') = n + 1 =>
           /\ walk'[n + 1].stage = 0
           /\ \/ Top.stage = 0 /\ walk'[n + 1].node = Top.node.left
              \/ Top.stage = 2 /\ walk'[n + 1].node = Top.node.right
      /\ Top.stage = 2 /\ Top.node.right # NULL => Len(walk') = n + 1
      /\ Top.stage = 0 /\ Top.node.left # NULL => Len(walk') = n + 1
  BY <1>1, <1>2, ProceedWalk
<1>4. /\ under \in Seq(Nat) /\ Len(under) = n /\ under[1] = 0
      /\ \A i \in 1..(n - 1) : under[i + 1] = under[i] + Held(walk[i])
      /\ \A i \in 1..n : walk[i].node.type \notin ExpressionPart => under[i] = 0
      /\ \A i \in 1..n : under[i] \in Nat
  BY <1>1 DEF Under
<1>5. under[n] \in Nat
  BY <1>1, <1>4
<1>6. Owed(Top) \in Nat /\ Left(Top) \in Nat /\ Held(Top) \in {0, 1}
  <2>1. Owed(Top) \in Nat /\ Held(Top) \in {0, 1} /\ Results(Top.node) \in Nat
    BY <1>2, Holding, Counts
  <2>2. Held([node |-> Top.node, stage |-> 2]) \in {0, 1}
    <3> DEFINE f == [node |-> Top.node, stage |-> 2]
    <3>1. f.node \in Node /\ f.stage \in 0..3
      BY <1>2
    <3> HIDE DEF f
    <3>2. Held(f) \in {0, 1}
      BY <3>1, Holding
    <3> QED BY <3>2 DEF f
  <2> QED BY <1>2, <2>1, <2>2 DEF Left
<1>7. CASE Len(walk') = n + 1
  <2>1. Top.stage \in {0, 2} /\ walk'[n + 1] \in Frame /\ walk'[n + 1].node \in Node
    <3>1. walk'[n + 1] \in Frame
      BY <1>1, <1>2, <1>7
    <3> QED BY <1>2, <1>3, <1>7, <3>1 DEF Frame
  <2>2. Held(walk'[n]) \in {0, 1} /\ Held(walk'[n]) + Owed(walk'[n + 1]) = Left(Top)
    <3>1. /\ walk'[n].node = Top.node /\ walk'[n].stage = Top.stage + 1 /\ Top.stage \in 0..2
          /\ walk'[n].node \in Node /\ walk'[n].stage \in 0..3
          /\ walk'[n + 1].stage = 0
          /\ \/ Top.stage = 0 /\ walk'[n + 1].node = Top.node.left
             \/ Top.stage = 2 /\ walk'[n + 1].node = Top.node.right
      BY <1>2, <1>3, <1>7, <2>1
    <3>2. Held(walk'[n]) \in {0, 1}
      BY <3>1, Holding
    <3>3. Held(walk'[n]) + Owed(walk'[n + 1]) = Left(Top)
      BY <1>2, <2>1, <3>1, Descending
    <3> QED BY <3>2, <3>3
  <2>3. PICK later : later = Append(under, under[n] + Held(walk'[n]))
    OBVIOUS
  <2>4. /\ later \in Seq(Nat) /\ Len(later) = n + 1
        /\ \A i \in 1..n : later[i] = under[i]
        /\ later[n + 1] = under[n] + Held(walk'[n])
    BY <1>1, <1>4, <1>5, <2>2, <2>3, AppendProperties
  <2>5. ASSUME NEW i \in 1..n
        PROVE  later[i + 1] = later[i] + Held(walk'[i])
    <3>1. CASE i = n
      BY <1>1, <2>4, <3>1
    <3>2. CASE i \in 1..(n - 1)
      BY <1>1, <1>3, <1>4, <2>4, <3>2
    <3> QED BY <1>1, <3>1, <3>2
  <2>6. ASSUME NEW i \in 1..(n + 1), walk'[i].node.type \notin ExpressionPart
        PROVE  later[i] = 0
    <3>1. CASE i \in 1..(n - 1)
      <4>1. i \in 1..n /\ walk'[i] = walk[i]
        BY <1>1, <1>3, <3>1
      <4>2. under[i] = 0
        BY <1>4, <2>6, <4>1
      <4> QED BY <2>4, <4>1, <4>2
    <3>2. CASE i = n
      BY <1>1, <1>2, <1>3, <1>4, <2>1, <2>4, <2>6, <3>2
    <3>3. CASE i = n + 1
      <4>1. Top.node.type \notin ExpressionPart
        BY <1>2, <1>3, <1>7, <2>1, <2>6, <3>3, ChildTypes
      <4>2. under[n] = 0
        BY <1>1, <1>2, <1>4, <4>1
      <4>3. Held(walk'[n]) = 0
        BY <1>2, <1>3, <2>1, <4>1, Holding
      <4> QED BY <2>4, <3>3, <4>2, <4>3
    <3> QED BY <1>1, <3>1, <3>2, <3>3
  <2>7. Under(later)'
    <3>1. later[1] = 0
      BY <1>1, <1>4, <2>4
    <3> QED BY <1>1, <1>7, <2>4, <2>5, <2>6, <3>1 DEF Under
  <2>8. Top' = walk'[n + 1]
    BY <1>7 DEF Top
  <2>9. /\ walk' # <<>> /\ later[Len(walk')] \in Nat
        /\ later[Len(walk')] + Owed(Top') = under[n] + Left(Top)
    <3>1. Owed(walk'[n + 1]) \in Nat
      BY <1>3, <1>7, <2>1, Holding
    <3>2. walk' # <<>>
      BY <1>1, <1>7
    <3> HIDE DEF Owed, Held, Left
    <3> QED BY <1>5, <1>7, <2>2, <2>4, <2>8, <3>1, <3>2
  <2> QED BY <1>1, <1>2, <1>5, <1>6, <2>1, <2>4, <2>7, <2>8, <2>9
<1>8. CASE Top.stage # 3 /\ Len(walk') = n
  <2>1. Owed(walk'[n]) = Left(Top)
    BY <1>2, <1>3, <1>8, Descending
  <2>2. \A i \in 1..n : walk'[i].node = walk[i].node
    BY <1>1, <1>2, <1>3, <1>8
  <2>3. Under(under)'
    BY <1>1, <1>3, <1>4, <1>8, <2>2 DEF Under
  <2>4. Top' = walk'[n] /\ walk' # <<>> /\ walk'[n] \in Frame
    BY <1>1, <1>2, <1>8 DEF Top
  <2> QED BY <1>1, <1>2, <1>4, <1>5, <1>6, <1>8, <2>1, <2>3, <2>4
<1>9. CASE Top.stage = 3 /\ n > 1
  <2>1. PICK m \in Nat \ {0} : m = n - 1
    BY <1>1, <1>9
  <2>2. PICK later : later = SubSeq(under, 1, m)
    OBVIOUS
  <2>3. m \in 0..Len(under)
    BY <1>4, <2>1
  <2>4. /\ later \in Seq(Nat) /\ Len(later) = m
        /\ \A i \in 1..m : later[i] = under[i]
    BY <1>4, <2>2, <2>3, FrontOf
  <2>5. Under(later)'
    <3>1. Len(walk') = m /\ later[1] = 0
      BY <1>3, <1>4, <1>9, <2>1, <2>4
    <3>2. ASSUME NEW i \in 1..(m - 1)
          PROVE  later[i + 1] = later[i] + Held(walk'[i])
      <4>1. i \in 1..(n - 1) /\ i \in 1..m /\ i + 1 \in 1..m
        BY <1>1, <2>1
      <4> QED BY <1>3, <1>4, <2>4, <4>1
    <3>3. ASSUME NEW i \in 1..m, walk'[i].node.type \notin ExpressionPart
          PROVE  later[i] = 0
      <4>1. i \in 1..(n - 1) /\ i \in 1..n
        BY <1>1, <2>1
      <4> QED BY <1>3, <1>4, <2>4, <3>3, <4>1
    <3> QED BY <2>4, <3>1, <3>2, <3>3 DEF Under
  <2>6. Top' = walk[m] /\ walk' # <<>> /\ m \in 1..(n - 1) /\ Len(walk') = m /\ walk[m] \in Frame
    BY <1>1, <1>2, <1>3, <1>9, <2>1 DEF Top
  <2>7. Owed(walk[m]) = Held(walk[m]) + Results(Top.node)
    <3>1. \/ walk[m].stage = 1 /\ Top.node = walk[m].node.left
          \/ walk[m].stage = 3 /\ Top.node = walk[m].node.right
      BY <1>1, <1>2, <2>1, <2>6 DEF WalkLinked
    <3> QED BY <3>1 DEF Owed, Brought
  <2>8. under[n] = under[m] + Held(walk[m]) /\ Left(Top) = Results(Top.node)
    BY <1>4, <1>9, <2>1, <2>6 DEF Left
  <2>9. Held(walk[m]) \in {0, 1} /\ Results(Top.node) \in Nat /\ under[m] \in Nat
    <3>1. walk[m].node \in Node /\ walk[m].stage \in 0..3
      BY <2>6 DEF Frame
    <3>2. Held(walk[m]) \in {0, 1}
      BY <3>1, Holding
    <3>3. Results(Top.node) \in Nat /\ under[m] \in Nat
      BY <1>1, <1>2, <1>4, <2>6, Counts
    <3> QED BY <3>2, <3>3
  <2>10. later[Len(walk')] + Owed(Top') = under[n] + Left(Top) /\ later[Len(walk')] \in Nat
    <3> HIDE DEF Owed, Held, Left, Results
    <3> QED BY <2>4, <2>6, <2>7, <2>8, <2>9, <2>1
  <2> QED BY <1>1, <1>2, <1>5, <1>6, <2>4, <2>5, <2>6, <2>10
<1>10. CASE Top.stage = 3 /\ n = 1
  <2>1. walk' = <<>>
    BY <1>2, <1>3, <1>10
  <2>2. Top.node.type \in {"NVAR", "NFUN"}
    BY <1>2, <1>10 DEF WalkShape
  <2>3. Left(Top) = 0
    <3>1. Top.node # NULL /\ Top.node.type \notin Expression \cup {"PAR"}
      BY <1>2, <2>2, NodeFields DEF Expression
    <3>2. Results(Top.node) = 0
      BY <1>2, <3>1, Counts
    <3> QED BY <1>10, <3>2 DEF Left
  <2>4. under[n] = 0
    BY <1>4, <1>10
  <2>5. PICK later : later = <<>>
    OBVIOUS
  <2>6. later \in Seq(Nat) /\ Under(later)'
    BY <2>1, <2>5 DEF Under
  <2>7. under[Len(walk)] \in Nat /\ under[Len(walk)] + Left(Top) = 0
    BY <1>1, <1>5, <2>3, <2>4
  <2> QED BY <1>2, <1>6, <2>1, <2>6, <2>7
<1>11. \/ Len(walk') = n + 1
       \/ Top.stage # 3 /\ Len(walk') = n
       \/ Top.stage = 3 /\ n > 1
       \/ Top.stage = 3 /\ n = 1
  BY <1>1, <1>2, <1>3
<1> QED BY <1>7, <1>8, <1>9, <1>10, <1>11

-----------------------------------------------------------------------------
(* Straight code.                                                          *)

\* Code that takes the stack of operands from height a to height b, and sets
\* RBP nowhere.
Climbs(block, place, a, b) ==
  \E heights \in Seq(Nat) :
    /\ Len(heights) = Len(block) + 1 /\ heights[1] = a /\ heights[Len(block) + 1] = b
    /\ \A j \in 1..Len(block) :
         /\ Flows(block[j], shape(place, heights[j]), shape(place, heights[j + 1]))
         /\ ~ SetsRbp(block[j])

\* A function on 1..n is a sequence.
LEMMA Sequenced ==
  ASSUME NEW S, NEW n \in Nat, NEW f, DOMAIN f = 1..n, f = [j \in DOMAIN f |-> f[j]],
         \A j \in 1..n : f[j] \in S
  PROVE  f \in Seq(S) /\ Len(f) = n
<1>1. f \in [1..n -> S]
  OBVIOUS
<1> QED BY <1>1

\* No code leaves the height as it is.
LEMMA ClimbNone ==
  ASSUME NEW place, NEW a \in Nat
  PROVE  Climbs(<<>>, place, a, a)
<1>1. PICK heights : heights = <<a>>
  OBVIOUS
<1>2. heights \in Seq(Nat) /\ Len(heights) = 1 /\ heights[1] = a
  BY <1>1
<1> QED BY <1>2 DEF Climbs

\* One instruction climbs as it flows.
LEMMA ClimbOne ==
  ASSUME NEW place, NEW node, NEW a \in Nat, NEW b \in Nat,
         Flows(node, shape(place, a), shape(place, b)), ~ SetsRbp(node)
  PROVE  Climbs(<<node>>, place, a, b)
<1>1. PICK heights : heights = <<a, b>>
  OBVIOUS
<1>2. heights \in Seq(Nat) /\ Len(heights) = 2 /\ heights[1] = a /\ heights[2] = b
  BY <1>1
<1>3. PICK block : block = <<node>>
  OBVIOUS
<1>4. Len(block) = 1 /\ block[1] = node
  BY <1>3
<1>5. Climbs(block, place, a, b)
  BY <1>2, <1>4 DEF Climbs
<1> QED BY <1>3, <1>5

\* Pieces of code climb one after the other.
LEMMA ClimbJoin ==
  ASSUME NEW S, NEW place, NEW front \in Seq(S), NEW back \in Seq(S), NEW a, NEW b, NEW c,
         Climbs(front, place, a, b), Climbs(back, place, b, c)
  PROVE  Climbs(front \o back, place, a, c)
<1>1. PICK n \in Nat, m \in Nat : n = Len(front) /\ m = Len(back)
  OBVIOUS
<1>2. PICK up \in Seq(Nat) :
        /\ Len(up) = n + 1 /\ up[1] = a /\ up[n + 1] = b
        /\ \A j \in 1..n : /\ Flows(front[j], shape(place, up[j]), shape(place, up[j + 1]))
                           /\ ~ SetsRbp(front[j])
  BY <1>1 DEF Climbs
<1>3. PICK down \in Seq(Nat) :
        /\ Len(down) = m + 1 /\ down[1] = b /\ down[m + 1] = c
        /\ \A j \in 1..m : /\ Flows(back[j], shape(place, down[j]), shape(place, down[j + 1]))
                           /\ ~ SetsRbp(back[j])
  BY <1>1 DEF Climbs
<1>4. PICK block : block = front \o back
  OBVIOUS
<1>5. /\ Len(block) = n + m
      /\ \A j \in 1..n : block[j] = front[j]
      /\ \A j \in 1..m : block[n + j] = back[j]
  BY <1>1, <1>4, Behind
<1>6. PICK heights : heights = [j \in 1..(n + m + 1) |-> IF j <= n THEN up[j] ELSE down[j - n]]
  OBVIOUS
<1>7. ASSUME NEW j \in 1..(n + m + 1)
      PROVE  /\ heights[j] = (IF j <= n THEN up[j] ELSE down[j - n])
             /\ heights[j] \in Nat
  <2>1. heights[j] = IF j <= n THEN up[j] ELSE down[j - n]
    BY <1>6
  <2>2. CASE j <= n
    <3>1. up[j] \in Nat
      BY <1>1, <1>2, <2>2
    <3> QED BY <2>1, <2>2, <3>1
  <2>3. CASE ~ (j <= n)
    <3>1. j - n \in 1..(m + 1)
      BY <1>1, <2>3
    <3>2. down[j - n] \in Nat
      <4>1. down \in Seq(Nat) /\ Len(down) = m + 1
        BY <1>3
      <4> QED BY ONLY <3>1, <4>1
    <3> QED BY <2>1, <2>3, <3>2
  <2> QED BY <2>2, <2>3, <2>1
<1>8. heights \in Seq(Nat) /\ Len(heights) = n + m + 1
  <2>1. PICK k \in Nat : k = n + m + 1
    BY <1>1
  <2>2. DOMAIN heights = 1..k /\ heights = [j \in DOMAIN heights |-> heights[j]]
    BY <1>6, <2>1
  <2>3. \A j \in 1..k : heights[j] \in Nat
    BY <1>7, <2>1
  <2>4. heights \in Seq(Nat) /\ Len(heights) = k
    BY ONLY <2>2, <2>3, k \in Nat, Sequenced, ZenonT(30)
  <2> QED BY <2>1, <2>4
<1>9. \A j \in 1..(n + 1) : heights[j] = up[j]
  <2>1. ASSUME NEW j \in 1..(n + 1)
        PROVE  heights[j] = up[j]
    <3>1. j \in 1..(n + m + 1)
      BY <1>1
    <3>2. CASE j <= n
      BY <1>7, <3>1, <3>2
    <3>3. CASE ~ (j <= n)
      <4>1. j = n + 1 /\ j - n = 1
        BY <1>1, <3>3
      <4>2. heights[j] = down[1]
        BY <1>7, <3>1, <3>3, <4>1
      <4> QED BY <1>2, <1>3, <4>1, <4>2
    <3> QED BY <3>2, <3>3
  <2> QED BY <2>1
<1>10. \A j \in 1..(m + 1) : heights[n + j] = down[j]
  <2>1. ASSUME NEW j \in 1..(m + 1)
        PROVE  heights[n + j] = down[j]
    <3>1. n + j \in 1..(n + m + 1) /\ ~ (n + j <= n) /\ (n + j) - n = j
      BY <1>1
    <3> QED BY <1>7, <3>1
  <2> QED BY <2>1
<1>11. ASSUME NEW j \in 1..(n + m)
       PROVE  /\ Flows(block[j], shape(place, heights[j]), shape(place, heights[j + 1]))
              /\ ~ SetsRbp(block[j])
  <2>1. CASE j <= n
    <3>1. j \in 1..n /\ j \in 1..(n + 1) /\ j + 1 \in 1..(n + 1)
      BY <1>1, <2>1
    <3>2. block[j] = front[j] /\ heights[j] = up[j] /\ heights[j + 1] = up[j + 1]
      BY <1>5, <1>9, <3>1
    <3> QED BY <1>2, <3>1, <3>2
  <2>2. CASE ~ (j <= n)
    <3>1. PICK i \in 1..m : j = n + i
      <4>1. j - n \in 1..m /\ j = n + (j - n)
        BY <1>1, <2>2
      <4> QED BY <4>1
    <3>2. i \in 1..(m + 1) /\ i + 1 \in 1..(m + 1) /\ j + 1 = n + (i + 1)
      BY <1>1, <3>1
    <3>3. block[j] = back[i] /\ heights[j] = down[i] /\ heights[j + 1] = down[i + 1]
      BY <1>5, <1>10, <3>1, <3>2
    <3> QED BY <1>3, <3>3
  <2> QED BY <2>1, <2>2
<1>12. heights[1] = a /\ heights[n + m + 1] = c
  <2>1. 1 \in 1..(n + 1) /\ m + 1 \in 1..(m + 1) /\ n + m + 1 = n + (m + 1)
    BY <1>1
  <2> QED BY <1>2, <1>3, <1>9, <1>10, <2>1
<1>13. Climbs(block, place, a, c)
  BY <1>5, <1>8, <1>11, <1>12 DEF Climbs
<1> QED BY <1>4, <1>13

\* What the instructions that work on the registers and on the top of the stack
\* do to the height.
LEMMA RegisterFlows ==
  ASSUME NEW place \in {"entry", "body"}, NEW h \in Nat, NEW node,
         NEW r \in DataRegister, node.operand1 = operand_reg(r)
  PROVE  /\ ~ SetsRbp(node)
         /\ node.operation = "PUSH" => Flows(node, shape(place, h), shape(place, h + 1))
         /\ node.operation = "POP" => Flows(node, shape(place, h + 1), shape(place, h))
         /\ node.operation \notin {"PUSH", "POP", "JMP", "CALL", "RET", "SYSCALL"} =>
              Flows(node, shape(place, h), shape(place, h))
<1>1. /\ node.operand1 # operand_reg("RSP") /\ node.operand1 # operand_reg("RBP")
      /\ node.operand1 # operand_top
  BY DEF operand_reg, operand_top, DataRegister
<1>2. ~ IsLocalAccess(node)
  BY DEF IsLocalAccess, operand_reg
<1>3. /\ Plain(shape(place, h)) /\ Plain(shape(place, h + 1))
      /\ Raised(shape(place, h), 1) = shape(place, h + 1)
  BY DEF Plain, Raised, shape
<1>4. ~ Takes(node, "RSP") /\ ~ Takes(node, "RBP") /\ ~ SetsRbp(node)
  BY <1>1 DEF Takes, SetsRbp
<1> HIDE DEF shape, Plain, Raised, Takes
<1> QED BY <1>1, <1>2, <1>3, <1>4 DEF Flows, Inert

\* An instruction on the top of the stack leaves the height alone.
LEMMA TopFlows ==
  ASSUME NEW place \in {"entry", "body"}, NEW h \in Nat, h > 0, NEW node,
         node.operand1 = operand_top,
         node.operation \notin {"PUSH", "POP", "JMP", "CALL", "RET", "SYSCALL"}
  PROVE  ~ SetsRbp(node) /\ Flows(node, shape(place, h), shape(place, h))
<1>1. node.operand1 # operand_reg("RSP") /\ node.operand1 # operand_reg("RBP")
  BY DEF operand_reg, operand_top
<1>2. ~ IsLocalAccess(node)
  BY DEF IsLocalAccess, operand_top
<1>3. Plain(shape(place, h)) /\ shape(place, h).height = h
  BY DEF Plain, shape
<1>4. ~ Takes(node, "RSP") /\ ~ Takes(node, "RBP") /\ ~ SetsRbp(node)
  BY <1>1 DEF Takes, SetsRbp
<1> HIDE DEF shape, Plain, Raised, Takes
<1> QED BY <1>1, <1>2, <1>3, <1>4 DEF Flows, Inert

\* Pushing and popping a variable; a local one in a function only.
LEMMA VariableFlows ==
  ASSUME NEW place \in {"entry", "body"}, NEW h \in Nat, NEW node, NEW address,
         \/ node.operand1 = operand_abs(address)
         \/ place = "body" /\ node.operand1 = operand_rbp(address)
  PROVE  /\ ~ SetsRbp(node)
         /\ node.operation = "PUSH" => Flows(node, shape(place, h), shape(place, h + 1))
         /\ node.operation = "POP" => Flows(node, shape(place, h + 1), shape(place, h))
<1>1. /\ node.operand1 # operand_reg("RSP") /\ node.operand1 # operand_reg("RBP")
      /\ node.operand1 # operand_top
  BY DEF operand_reg, operand_top, operand_abs, operand_rbp
<1>2. IsLocalAccess(node) => place = "body"
  <2>1. operand_abs(address).flags # {"MEM", "IMM", "REG"}
    BY DEF operand_abs
  <2> QED BY <2>1 DEF IsLocalAccess
<1>3. /\ Plain(shape(place, h)) /\ Plain(shape(place, h + 1))
      /\ Raised(shape(place, h), 1) = shape(place, h + 1)
      /\ shape(place, h).place = place /\ shape(place, h + 1).place = place
  BY DEF Plain, Raised, shape
<1>4. ~ Takes(node, "RSP") /\ ~ Takes(node, "RBP") /\ ~ SetsRbp(node)
  BY <1>1 DEF Takes, SetsRbp
<1> HIDE DEF shape, Plain, Raised, Takes
<1> QED BY <1>1, <1>2, <1>3, <1>4 DEF Flows, Inert

\* An empty node, a jump and a call.
LEMMA NoOperandFlows ==
  ASSUME NEW s \in Shape, NEW cond, NEW target
  PROVE  /\ ~ SetsRbp(new_empty) /\ Flows(new_empty, s, s)
         /\ ~ SetsRbp(new_jmp(cond, target)) /\ Flows(new_jmp(cond, target), Idle, Idle)
         /\ ~ SetsRbp(new_call(target)) /\ (Plain(s) => Flows(new_call(target), s, s))
<1>1. ~ IsLocalAccess(new_empty) /\ ~ IsLocalAccess(new_jmp(cond, target))
      /\ ~ IsLocalAccess(new_call(target))
  BY DEF IsLocalAccess, new_empty, new_jmp, new_call, instruction, operand_none
<1>2. /\ operand_none # operand_reg("RSP") /\ operand_none # operand_reg("RBP")
      /\ operand_none # operand_top
  BY DEF operand_none, operand_reg, operand_top
<1>3. /\ new_empty.operation = "NOP" /\ new_empty.operand1 = operand_none
      /\ new_jmp(cond, target).operation = "JMP" /\ new_jmp(cond, target).operand1 = operand_none
      /\ new_call(target).operation = "CALL" /\ new_call(target).operand1 = operand_none
  BY DEF new_empty, new_jmp, new_call, instruction
<1> HIDE DEF Idle, Plain, operand_none, operand_reg, operand_top, new_empty, new_jmp, new_call
<1> QED BY <1>1, <1>2, <1>3 DEF Flows, Inert, SetsRbp, Takes

\* Two instructions climb one after the other.
LEMMA ClimbTwo ==
  ASSUME NEW place, NEW node, NEW more, NEW a \in Nat, NEW b \in Nat, NEW c \in Nat,
         Flows(node, shape(place, a), shape(place, b)), ~ SetsRbp(node),
         Flows(more, shape(place, b), shape(place, c)), ~ SetsRbp(more)
  PROVE  Climbs(<<node, more>>, place, a, c)
<1>1. PICK heights : heights = <<a, b, c>>
  OBVIOUS
<1>2. /\ heights \in Seq(Nat) /\ Len(heights) = 3
      /\ heights[1] = a /\ heights[2] = b /\ heights[3] = c
  BY <1>1
<1>3. PICK block : block = <<node, more>>
  OBVIOUS
<1>4. Len(block) = 2 /\ block[1] = node /\ block[2] = more
  BY <1>3
<1>5. \A j \in 1..2 : j = 1 \/ j = 2
  OBVIOUS
<1>6. Climbs(block, place, a, c)
  BY <1>2, <1>4, <1>5 DEF Climbs
<1> QED BY <1>3, <1>6

\* So do three.
LEMMA ClimbThree ==
  ASSUME NEW place, NEW node, NEW more, NEW last,
         NEW a \in Nat, NEW b \in Nat, NEW c \in Nat, NEW d \in Nat,
         Flows(node, shape(place, a), shape(place, b)), ~ SetsRbp(node),
         Flows(more, shape(place, b), shape(place, c)), ~ SetsRbp(more),
         Flows(last, shape(place, c), shape(place, d)), ~ SetsRbp(last)
  PROVE  Climbs(<<node, more, last>>, place, a, d)
<1>1. PICK heights : heights = <<a, b, c, d>>
  OBVIOUS
<1>2. /\ heights \in Seq(Nat) /\ Len(heights) = 4
      /\ heights[1] = a /\ heights[2] = b /\ heights[3] = c /\ heights[4] = d
  BY <1>1
<1>3. PICK block : block = <<node, more, last>>
  OBVIOUS
<1>4. Len(block) = 3 /\ block[1] = node /\ block[2] = more /\ block[3] = last
  BY <1>3
<1>5. \A j \in 1..3 : j = 1 \/ j = 2 \/ j = 3
  OBVIOUS
<1>6. Climbs(block, place, a, d)
  BY <1>2, <1>4, <1>5 DEF Climbs
<1> QED BY <1>3, <1>6

\* Nodes that work on registers only.
RegisterNode ==
  {node \in IrNode :
     /\ node.operation \notin {"PUSH", "POP", "JMP", "CALL", "RET", "SYSCALL"}
     /\ \E r \in DataRegister : node.operand1 = operand_reg(r)}

\* Code that only works on registers leaves the height alone.
LEMMA RegisterCode ==
  ASSUME NEW place \in {"entry", "body"}, NEW h \in Nat, NEW block \in Seq(RegisterNode)
  PROVE  Climbs(block, place, h, h)
<1>1. PICK n \in Nat : n = Len(block)
  OBVIOUS
<1>2. PICK heights : heights = [j \in 1..(n + 1) |-> h]
  OBVIOUS
<1>3. /\ heights \in Seq(Nat) /\ Len(heights) = n + 1
      /\ \A j \in 1..(n + 1) : heights[j] = h
  BY <1>1, <1>2
<1>4. ASSUME NEW j \in 1..n
      PROVE  /\ Flows(block[j], shape(place, heights[j]), shape(place, heights[j + 1]))
             /\ ~ SetsRbp(block[j])
  <2>1. heights[j] = h /\ heights[j + 1] = h
    BY <1>1, <1>3
  <2>2. block[j] \in RegisterNode
    BY <1>1
  <2> QED BY <2>1, <2>2, RegisterFlows DEF RegisterNode
<1>5. heights[1] = h /\ heights[n + 1] = h
  BY <1>1, <1>3
<1> QED BY <1>1, <1>3, <1>4, <1>5 DEF Climbs

\* What the constructors make of registers is such code.
LEMMA RegisterNodes ==
  ASSUME NEW op \in ir_op \ {"PUSH", "POP", "JMP", "CALL", "RET", "SYSCALL"},
         NEW r \in DataRegister, NEW s \in ir_operand
  PROVE  /\ new_unary(op, operand_reg(r)) \in RegisterNode
         /\ new_binary(op, operand_reg(r), s) \in RegisterNode
         /\ \A c \in ir_cond_flags : instruction(op, operand_reg(r), s, c, NIL) \in RegisterNode
<1>1. operand_reg(r) \in ir_operand /\ operand_none \in ir_operand
  BY OperandTypes DEF DataRegister, ir_reg
<1>2. "NONE" \in ir_cond_flags /\ NIL \in Nat
  BY DEF ir_cond_flags, NIL
<1>3. ASSUME NEW c \in ir_cond_flags, NEW t \in ir_operand
      PROVE  instruction(op, operand_reg(r), t, c, NIL) \in RegisterNode
  <2>1. instruction(op, operand_reg(r), t, c, NIL) \in IrNode
    BY <1>1, <1>2, InstructionTypes
  <2>2. /\ instruction(op, operand_reg(r), t, c, NIL).operation = op
        /\ instruction(op, operand_reg(r), t, c, NIL).operand1 = operand_reg(r)
    BY DEF instruction
  <2> QED BY <2>1, <2>2 DEF RegisterNode
<1> QED BY <1>1, <1>2, <1>3 DEF new_unary, new_binary

\* A test takes the value from the stack, in a function only, for it jumps.
LEMMA TestClimbs == Climbs(test_code, "body", 1, 0)
<1>1. Flows(new_pop_reg("RAX"), shape("body", 1), shape("body", 0)) /\ ~ SetsRbp(new_pop_reg("RAX"))
  <2>1. /\ new_pop_reg("RAX").operation = "POP"
        /\ new_pop_reg("RAX").operand1 = operand_reg("RAX")
    BY DEF new_pop_reg, new_unary, new_binary, instruction
  <2>2. shape("body", 0 + 1) = shape("body", 1) /\ "RAX" \in DataRegister
    BY DEF DataRegister
  <2> QED BY <2>1, <2>2, RegisterFlows
<1>2. LET test == new_binary("TEST", operand_reg("RAX"), operand_reg("RAX"))
      IN  Flows(test, shape("body", 0), shape("body", 0)) /\ ~ SetsRbp(test)
  <2> DEFINE test == new_binary("TEST", operand_reg("RAX"), operand_reg("RAX"))
  <2>1. test.operation = "TEST" /\ test.operand1 = operand_reg("RAX") /\ "RAX" \in DataRegister
    BY DEF new_binary, instruction, DataRegister
  <2> HIDE DEF test
  <2>2. Flows(test, shape("body", 0), shape("body", 0)) /\ ~ SetsRbp(test)
    BY <2>1, RegisterFlows
  <2> QED BY <2>2 DEF test
<1>3. Flows(new_jmp("EQUAL", NIL), shape("body", 0), shape("body", 0))
      /\ ~ SetsRbp(new_jmp("EQUAL", NIL))
  <2>1. Idle \in Shape
    BY DEF Idle, Shape, shape
  <2> QED BY <2>1, NoOperandFlows DEF Idle
<1> QED BY <1>1, <1>2, <1>3, ClimbThree DEF test_code

\* The code of an operator replaces its operands by the result.
LEMMA OperatorClimbs ==
  ASSUME NEW place \in {"entry", "body"}, NEW h \in Nat
  PROVE  /\ \A op \in op_type \ {"NOT", "NEG"} : Climbs(binary_code(op), place, h + 2, h + 1)
         /\ \A op \in {"NOT", "NEG"} : Climbs(unary_code(op), place, h + 1, h + 1)
<1> USE DEF ir_reg, ir_op, DataRegister
<1>1. /\ operand_reg("RAX") \in ir_operand /\ operand_reg("RBX") \in ir_operand
      /\ operand_reg("RDX") \in ir_operand
      /\ operand_imm(1) \in ir_operand /\ operand_imm(1000) \in ir_operand
  BY OperandTypes
<1>2. div_code \in Seq(RegisterNode)
  <2>1. new_binary("XOR", operand_reg("RDX"), operand_reg("RDX")) \in RegisterNode
    BY <1>1, RegisterNodes
  <2>2. new_unary("DIV", operand_reg("RBX")) \in RegisterNode
    BY <1>1, RegisterNodes
  <2> QED BY <2>1, <2>2 DEF div_code
<1>3. ASSUME NEW op \in DOMAIN cmp_flags
      PROVE  cmp_code(op) \in Seq(RegisterNode)
  <2>1. new_binary("XOR", operand_reg("RDX"), operand_reg("RDX")) \in RegisterNode
    BY <1>1, RegisterNodes
  <2>2. new_binary("CMP", operand_reg("RAX"), operand_reg("RBX")) \in RegisterNode
    BY <1>1, RegisterNodes
  <2>3. new_binary("MOV", operand_reg("RAX"), operand_imm(1)) \in RegisterNode
    BY <1>1, RegisterNodes
  <2>4. cmp_flags[op] \in ir_cond_flags
    BY DEF cmp_flags, ir_cond_flags
  <2>5. instruction("CMOV", operand_reg("RDX"), operand_reg("RAX"), cmp_flags[op], NIL) \in RegisterNode
    BY <1>1, <2>4, RegisterNodes
  <2>6. new_binary("MOV", operand_reg("RAX"), operand_reg("RDX")) \in RegisterNode
    BY <1>1, RegisterNodes
  <2> QED BY <2>1, <2>2, <2>3, <2>5, <2>6 DEF cmp_code
<1>4. ASSUME NEW op \in op_type \ {"NOT", "NEG"}
      PROVE  \E block \in Seq(RegisterNode) :
               binary_code(op) = << new_pop_reg("RBX"), new_pop_reg("RAX") >> \o block
                                   \o << new_push_reg("RAX") >>
  <2> DEFINE middle ==
        CASE op \in DOMAIN cmp_flags -> cmp_code(op)
          [] op \in {"ADD", "SUB", "AND", "OR"} ->
               << new_binary(op, operand_reg("RAX"), operand_reg("RBX")) >>
          [] op = "MUL" ->
               << new_binary("MUL", operand_reg("RAX"), operand_reg("RBX")),
                  new_binary("MOV", operand_reg("RBX"), operand_imm(1000)) >> \o div_code
          [] op = "DIV" -> div_code
  <2>0. DOMAIN cmp_flags = {"LT", "GT", "LEQ", "GEQ", "EQ", "NEQ"}
    BY DEF cmp_flags
  <2>1. middle \in Seq(RegisterNode)
    <3>1. CASE op \in {"LT", "GT", "LEQ", "GEQ", "EQ", "NEQ"}
      <4>1. middle = cmp_code(op)
        BY <2>0, <3>1
      <4> QED BY <1>3, <2>0, <3>1, <4>1
    <3>2. CASE op \in {"ADD", "SUB", "AND", "OR"}
      <4>1. middle = << new_binary(op, operand_reg("RAX"), operand_reg("RBX")) >>
        BY <2>0, <3>2
      <4>2. new_binary(op, operand_reg("RAX"), operand_reg("RBX")) \in RegisterNode
        BY <1>1, <3>2, RegisterNodes
      <4>3. << new_binary(op, operand_reg("RAX"), operand_reg("RBX")) >> \in Seq(RegisterNode)
        BY <4>2
      <4> HIDE DEF middle
      <4> QED BY <4>1, <4>3
    <3>3. CASE op = "MUL"
      <4>1. middle = << new_binary("MUL", operand_reg("RAX"), operand_reg("RBX")),
                        new_binary("MOV", operand_reg("RBX"), operand_imm(1000)) >> \o div_code
        BY <2>0, <3>3
      <4>2. /\ new_binary("MUL", operand_reg("RAX"), operand_reg("RBX")) \in RegisterNode
            /\ new_binary("MOV", operand_reg("RBX"), operand_imm(1000)) \in RegisterNode
        BY <1>1, RegisterNodes
      <4>3. << new_binary("MUL", operand_reg("RAX"), operand_reg("RBX")),
               new_binary("MOV", operand_reg("RBX"), operand_imm(1000)) >> \in Seq(RegisterNode)
        BY <4>2
      <4> HIDE DEF middle
      <4> QED BY <1>2, <4>1, <4>3, ConcatProperties
    <3>4. CASE op = "DIV"
      <4>1. middle = div_code
        BY <2>0, <3>4
      <4> QED BY <1>2, <4>1
    <3>5. \/ op \in {"LT", "GT", "LEQ", "GEQ", "EQ", "NEQ"} \/ op \in {"ADD", "SUB", "AND", "OR"}
          \/ op = "MUL" \/ op = "DIV"
      BY DEF op_type
    <3> HIDE DEF middle
    <3> QED BY <3>1, <3>2, <3>3, <3>4, <3>5
  <2>2. binary_code(op) = << new_pop_reg("RBX"), new_pop_reg("RAX") >> \o middle
                            \o << new_push_reg("RAX") >>
    BY DEF binary_code
  <2> HIDE DEF middle
  <2> QED BY <2>1, <2>2
<1>5. ASSUME NEW k \in Nat, NEW r \in DataRegister
      PROVE  /\ Flows(new_pop_reg(r), shape(place, k + 1), shape(place, k))
             /\ Flows(new_push_reg(r), shape(place, k), shape(place, k + 1))
             /\ ~ SetsRbp(new_pop_reg(r)) /\ ~ SetsRbp(new_push_reg(r))
  <2>1. /\ new_pop_reg(r).operation = "POP" /\ new_pop_reg(r).operand1 = operand_reg(r)
        /\ new_push_reg(r).operation = "PUSH" /\ new_push_reg(r).operand1 = operand_reg(r)
    BY DEF new_pop_reg, new_push_reg, new_unary, new_binary, instruction
  <2> QED BY <2>1, RegisterFlows
<1>6. ASSUME NEW op \in op_type \ {"NOT", "NEG"}
      PROVE  Climbs(binary_code(op), place, h + 2, h + 1)
  <2>1. PICK block \in Seq(RegisterNode) :
          binary_code(op) = << new_pop_reg("RBX"), new_pop_reg("RAX") >> \o block
                              \o << new_push_reg("RAX") >>
    BY <1>4
  <2>2. Climbs(<< new_pop_reg("RBX"), new_pop_reg("RAX") >>, place, h + 2, h)
    <3>1. h + 1 \in Nat /\ h + 2 \in Nat /\ (h + 1) + 1 = h + 2
      OBVIOUS
    <3>2. Flows(new_pop_reg("RBX"), shape(place, h + 2), shape(place, h + 1))
      BY <1>5, <3>1
    <3> QED BY <1>5, <3>1, <3>2, ClimbTwo
  <2>3. Climbs(block, place, h, h)
    BY RegisterCode
  <2>4. Climbs(<< new_push_reg("RAX") >>, place, h, h + 1)
    BY <1>5, ClimbOne
  <2>5. /\ << new_pop_reg("RBX"), new_pop_reg("RAX") >> \in Seq(IrNode)
        /\ << new_push_reg("RAX") >> \in Seq(IrNode) /\ block \in Seq(IrNode)
    <3>1. new_pop_reg("RBX") \in IrNode /\ new_pop_reg("RAX") \in IrNode
          /\ new_push_reg("RAX") \in IrNode
      BY InstructionTypes
    <3> QED BY <3>1 DEF RegisterNode
  <2>6. /\ << new_pop_reg("RBX"), new_pop_reg("RAX") >> \o block \in Seq(IrNode)
        /\ Climbs(<< new_pop_reg("RBX"), new_pop_reg("RAX") >> \o block, place, h + 2, h)
    <3>1. << new_pop_reg("RBX"), new_pop_reg("RAX") >> \o block \in Seq(IrNode)
      BY <2>5, ConcatProperties
    <3> QED BY <2>2, <2>3, <2>5, <3>1, ClimbJoin
  <2> QED BY <2>1, <2>4, <2>5, <2>6, ClimbJoin
<1>7. ASSUME NEW op \in {"NOT", "NEG"}
      PROVE  Climbs(unary_code(op), place, h + 1, h + 1)
  <2>1. ASSUME NEW node, node.operand1 = operand_top, node.operation \in {"NEG", "NOT", "AND"}
        PROVE  ~ SetsRbp(node) /\ Flows(node, shape(place, h + 1), shape(place, h + 1))
    BY <2>1, TopFlows
  <2>2. /\ new_unary("NEG", operand_top).operand1 = operand_top
        /\ new_unary("NEG", operand_top).operation = "NEG"
        /\ new_unary("NOT", operand_top).operand1 = operand_top
        /\ new_unary("NOT", operand_top).operation = "NOT"
        /\ new_binary("AND", operand_top, operand_imm(1)).operand1 = operand_top
        /\ new_binary("AND", operand_top, operand_imm(1)).operation = "AND"
    BY DEF new_unary, new_binary, instruction
  <2>3. CASE op = "NEG"
    BY <2>1, <2>2, <2>3, ClimbOne DEF unary_code
  <2>4. CASE op # "NEG"
    BY <2>1, <2>2, <2>4, ClimbTwo DEF unary_code
  <2> QED BY <2>3, <2>4
<1> QED BY <1>6, <1>7

\* A constant is moved through RAX, and the dividend is scaled there.
LEMMA ConstantClimbs ==
  ASSUME NEW place \in {"entry", "body"}, NEW h \in Nat, NEW s \in ir_operand
  PROVE  /\ Climbs(<< new_binary("MOV", operand_reg("RAX"), s), new_push_reg("RAX") >>,
                   place, h, h + 1)
         /\ Climbs(<< new_pop_reg("RAX"), new_binary("MUL", operand_reg("RAX"), s),
                      new_push_reg("RAX") >>, place, h + 1, h + 1)
<1>1. /\ new_pop_reg("RAX").operation = "POP" /\ new_pop_reg("RAX").operand1 = operand_reg("RAX")
      /\ new_push_reg("RAX").operation = "PUSH" /\ new_push_reg("RAX").operand1 = operand_reg("RAX")
  BY DEF new_pop_reg, new_push_reg, new_unary, new_binary, instruction
<1>2. \A op \in {"MOV", "MUL"} :
        /\ new_binary(op, operand_reg("RAX"), s).operation = op
        /\ new_binary(op, operand_reg("RAX"), s).operand1 = operand_reg("RAX")
  BY DEF new_binary, instruction
<1>3. "RAX" \in DataRegister /\ h + 1 \in Nat
  BY DEF DataRegister
<1>4. /\ Flows(new_pop_reg("RAX"), shape(place, h + 1), shape(place, h)) /\ ~ SetsRbp(new_pop_reg("RAX"))
      /\ Flows(new_push_reg("RAX"), shape(place, h), shape(place, h + 1))
      /\ ~ SetsRbp(new_push_reg("RAX"))
  BY <1>1, <1>3, RegisterFlows
<1>5. \A op \in {"MOV", "MUL"} :
        /\ Flows(new_binary(op, operand_reg("RAX"), s), shape(place, h), shape(place, h))
        /\ ~ SetsRbp(new_binary(op, operand_reg("RAX"), s))
  BY <1>2, <1>3, RegisterFlows
<1> QED BY <1>3, <1>4, <1>5, ClimbTwo, ClimbThree

\* A return leaves its value in RAX and goes to the end of the function.
LEMMA ReturnClimbs ==
  ASSUME NEW target
  PROVE  Climbs(<< new_pop_reg("RAX"), new_jmp("NONE", target) >>, "body", 1, 0)
<1>1. /\ new_pop_reg("RAX").operation = "POP" /\ new_pop_reg("RAX").operand1 = operand_reg("RAX")
      /\ "RAX" \in DataRegister /\ 0 + 1 = 1
  BY DEF new_pop_reg, new_unary, new_binary, instruction, DataRegister
<1>2. Flows(new_pop_reg("RAX"), shape("body", 0 + 1), shape("body", 0)) /\ ~ SetsRbp(new_pop_reg("RAX"))
  BY <1>1, RegisterFlows
<1>3. Idle \in Shape
  BY DEF Idle, Shape, shape
<1>4. /\ Flows(new_jmp("NONE", target), shape("body", 0), shape("body", 0))
      /\ ~ SetsRbp(new_jmp("NONE", target))
  BY <1>3, NoOperandFlows DEF Idle
<1> QED BY <1>1, <1>2, <1>4, ClimbTwo

\* A variable is pushed or popped; a local one in a function only.
LEMMA VariableClimbs ==
  ASSUME NEW place \in {"entry", "body"}, NEW h \in Nat, NEW operand, NEW address,
         \/ operand = operand_abs(address)
         \/ place = "body" /\ operand = operand_rbp(address)
  PROVE  /\ Climbs(<< new_unary("PUSH", operand) >>, place, h, h + 1)
         /\ Climbs(<< new_unary("POP", operand) >>, place, h + 1, h)
<1>1. \A op \in {"PUSH", "POP"} :
        new_unary(op, operand).operation = op /\ new_unary(op, operand).operand1 = operand
  BY DEF new_unary, new_binary, instruction
<1>2. h + 1 \in Nat
  OBVIOUS
<1>3. /\ ~ SetsRbp(new_unary("PUSH", operand)) /\ ~ SetsRbp(new_unary("POP", operand))
      /\ Flows(new_unary("PUSH", operand), shape(place, h), shape(place, h + 1))
      /\ Flows(new_unary("POP", operand), shape(place, h + 1), shape(place, h))
  BY <1>1, VariableFlows
<1> QED BY <1>2, <1>3, ClimbOne

\* A call takes its arguments from the stack and leaves its result there.
LEMMA CallClimbs ==
  ASSUME NEW place \in {"entry", "body"}, NEW h \in Nat, NEW args \in Nat, NEW target \in Nat
  PROVE  Climbs(<< new_call(target) >> \o free_arguments(args) \o << new_push_reg("RAX") >>,
                place, h + args, h + 1)
<1>1. /\ new_push_reg("RAX").operation = "PUSH" /\ new_push_reg("RAX").operand1 = operand_reg("RAX")
      /\ "RAX" \in DataRegister
  BY DEF new_push_reg, new_unary, new_binary, instruction, DataRegister
<1>2. Climbs(<< new_push_reg("RAX") >>, place, h, h + 1)
  <2>1. /\ Flows(new_push_reg("RAX"), shape(place, h), shape(place, h + 1))
        /\ ~ SetsRbp(new_push_reg("RAX")) /\ h + 1 \in Nat
    BY <1>1, RegisterFlows
  <2> QED BY <2>1, ClimbOne
<1>3. Climbs(<< new_call(target) >>, place, h + args, h + args)
  <2>1. PICK s : s = shape(place, h + args)
    OBVIOUS
  <2>2. s \in Shape /\ Plain(s)
    BY <2>1 DEF shape, Shape, Plain
  <2>3. Flows(new_call(target), s, s) /\ ~ SetsRbp(new_call(target))
    BY <2>2, NoOperandFlows
  <2>4. h + args \in Nat
    OBVIOUS
  <2> QED BY <2>1, <2>3, <2>4, ClimbOne
<1>4. Climbs(free_arguments(args), place, h + args, h)
  <2>1. CASE args = 0
    <3>1. free_arguments(args) = <<>> /\ h + args = h
      BY <2>1 DEF free_arguments
    <3> QED BY <3>1, ClimbNone
  <2>2. CASE args > 0
    <3>1. PICK node : node = new_binary("ADD", operand_reg("RSP"), operand_imm(SLOT * args))
      OBVIOUS
    <3>2. /\ node.operation = "ADD" /\ node.operand1 = operand_reg("RSP")
          /\ M!AmountOf(node) = args
      <4>1. node.operation = "ADD" /\ node.operand1 = operand_reg("RSP")
        BY <3>1 DEF new_binary, instruction
      <4>2. node.operand2.immediate = SLOT * args
        BY <3>1 DEF new_binary, instruction, operand_imm
      <4>3. (8 * args) \div 8 = args
        OBVIOUS
      <4> QED BY <4>1, <4>2, <4>3 DEF M!AmountOf, SLOT
    <3>3. /\ node.operand1 # operand_reg("RBP") /\ node.operand1 # operand_top
          /\ ~ IsLocalAccess(node)
      BY <3>2 DEF operand_reg, operand_top, IsLocalAccess
    <3>4. ~ Takes(node, "RBP") /\ Takes(node, "RSP") /\ ~ SetsRbp(node)
      BY <3>2, <3>3 DEF Takes, SetsRbp
    <3>5. /\ Plain(shape(place, h))
          /\ shape(place, h + args) = Raised(shape(place, h), args)
      BY DEF Plain, Raised, shape
    <3>6. Flows(node, shape(place, h + args), shape(place, h))
      <4> HIDE DEF shape, Plain, Raised, Takes
      <4> QED BY <3>2, <3>3, <3>4, <3>5 DEF Flows, Inert
    <3>7. h + args \in Nat
      OBVIOUS
    <3> QED BY <2>2, <3>1, <3>4, <3>6, <3>7, ClimbOne DEF free_arguments
  <2> QED BY <2>1, <2>2
<1>5. PICK front, middle, back :
        /\ front = << new_call(target) >> /\ middle = free_arguments(args)
        /\ back = << new_push_reg("RAX") >>
  OBVIOUS
<1>6. front \in Seq(IrNode) /\ middle \in Seq(IrNode) /\ back \in Seq(IrNode)
  <2>1. new_call(target) \in IrNode /\ new_push_reg("RAX") \in IrNode
    BY InstructionTypes DEF ir_reg
  <2>2. new_binary("ADD", operand_reg("RSP"), operand_imm(SLOT * args)) \in IrNode
    <3>1. operand_reg("RSP") \in ir_operand /\ operand_imm(SLOT * args) \in ir_operand
      BY OperandTypes DEF ir_reg, SLOT
    <3> QED BY <3>1, InstructionTypes DEF ir_op
  <2> QED BY <1>5, <2>1, <2>2 DEF free_arguments
<1>7. front \o middle \in Seq(IrNode) /\ Climbs(front \o middle, place, h + args, h)
  <2>1. front \o middle \in Seq(IrNode)
    BY <1>6, ConcatProperties
  <2> QED BY <1>3, <1>4, <1>5, <1>6, <2>1, ClimbJoin
<1>8. Climbs(front \o middle \o back, place, h + args, h + 1)
  BY <1>2, <1>5, <1>6, <1>7, ClimbJoin
<1> QED BY <1>5, <1>8

-----------------------------------------------------------------------------
(* Handlers that add code.                                                 *)

\* The shape where a handler goes on, and where the next one will.
LEMMA TailNow ==
  ASSUME IInv, CodeInv, BodyHandler, NEW under, Under(under)
  PROVE  TailShape(under) = shape(Place, under[Len(walk)] + Owed(Top))
<1>1. walk # <<>> /\ (InFunction \/ walk[1].node.type = "NVAR")
  BY BodyUnchanged, BodyStays
<1> QED BY <1>1 DEF TailShape, Owed

\* Behind the code of a handler are the operands that the activation left below it
\* expects.
LEMMA TailNext ==
  ASSUME IInv, CodeInv, CodeEnds, BodyHandler, NEW under, Under(under), NEW later,
         NEW high \in Nat,
         walk' # <<>> => later[Len(walk')] + Owed(Top') = high,
         walk' = <<>> => high = 0
  PROVE  /\ Place' = Place /\ Place \in {"entry", "body"}
         /\ TailShape(later)' = shape(Place, high)
<1>1. /\ walk[1].node.type \in {"NVAR", "NFUN"}
      /\ walk[1].node.type = "NFUN" => InFunction /\ InFunction'
      /\ walk[1].node.type = "NVAR" => ~ InFunction /\ ~ InFunction'
      /\ walk' = <<>> \/ walk'[1].node = walk[1].node
      /\ walk # <<>> /\ UNCHANGED control
  BY BodyStays, BodyUnchanged
<1>2. Place' = Place /\ Place \in {"entry", "body"}
  BY <1>1 DEF Place
<1>3. CASE walk' # <<>>
  <2>1. InFunction' \/ walk'[1].node.type = "NVAR"
    BY <1>1, <1>3
  <2>2. TailShape(later)' = shape(Place', later[Len(walk')] + Owed(Top'))
    BY <1>3, <2>1 DEF TailShape, Owed
  <2> QED BY <1>2, <1>3, <2>2
<1>4. CASE walk' = <<>>
  <2>1. walk[1].node.type = "NVAR"
    BY <1>1, <1>4 DEF InFunction
  <2>2. phase \in {"declarations", "functions"}
    BY DEF BodyHandler, Straight, Handling,
         compile_NVAR, compile_ASS, compile_VAR, compile_CONST,
         compile_OP_dividend, compile_OP, compile_CALL, compile_BLOCK_begin, compile_BLOCK_end,
         compile_NFUN_body, compile_nothing, compile_RET, compile_SEQ, compile_WHILE_start,
         compile_WHILE_test, compile_WHILE_end, compile_BRANCH_test, compile_BRANCH_else,
         compile_BRANCH_end
  <2>3. phase' = "declarations"
    BY <1>1, <2>1, <2>2 DEF CodeEnds, control
  <2>4. Place = "entry"
    BY <1>1, <2>1 DEF Place
  <2> QED BY <1>2, <1>4, <2>3, <2>4 DEF TailShape, Entry
<1> QED BY <1>2, <1>3, <1>4

\* The recursion only goes down to parts of a tree, which are as tidy.
LEMMA NeatNext ==
  ASSUME IInv, walk # <<>>, Proceed, walk' = <<>> \/ walk'[1].node = walk[1].node, Neat
  PROVE  Neat'
<1>1. /\ walk \in Seq(Frame) /\ walk # <<>> /\ Proceed
      /\ walk' = <<>> \/ walk'[1].node = walk[1].node
  BY HandlerState
<1>2. PICK n \in Nat \ {0} : n = Len(walk)
  BY <1>1
<1>3. Top = walk[n] /\ Top.node \in Node /\ Top.stage \in 0..3
  BY <1>1, <1>2, TopTyped DEF Top
<1>4. SUFFICES ASSUME walk' # <<>>, walk'[1].node.type = "NFUN", NEW i \in 1..Len(walk')
               PROVE  walk'[i].node \notin LooseTrees
  BY DEF Neat
<1>5. \A j \in 1..n : walk[j].node \notin LooseTrees
  BY <1>1, <1>2, <1>4 DEF Neat
<1>6. /\ walk' \in Seq(Frame)
      /\ \A j \in 1..(n - 1) : walk'[j] = walk[j]
      /\ Top.stage = 3 => Len(walk') = n - 1
      /\ Top.stage # 3 => Len(walk') \in {n, n + 1} /\ walk'[n].node = Top.node
      /\ Len(walk') = n + 1 => walk'[n + 1].node \in {Top.node.left, Top.node.right}
  BY <1>1, <1>2, ProceedWalk DEF COMPILED_RIGHT
<1>7. CASE i \in 1..(n - 1)
  BY <1>2, <1>5, <1>6, <1>7
<1>8. CASE i = n
  <2>1. Top.stage # 3
    BY <1>2, <1>4, <1>6, <1>8
  <2> QED BY <1>2, <1>3, <1>5, <1>6, <1>8, <2>1
<1>9. CASE i = n + 1
  <2>1. Len(walk') = n + 1
    BY <1>2, <1>3, <1>4, <1>6, <1>9
  <2>2. walk'[i].node \in {Top.node.left, Top.node.right} /\ walk'[i].node \in Node
    <3>1. walk'[n + 1] \in Frame
      BY <1>2, <1>6, <2>1
    <3>2. walk'[n + 1].node \in {Top.node.left, Top.node.right}
      BY <1>6, <2>1
    <3> QED BY <1>9, <3>1, <3>2 DEF Frame
  <2>3. Top.node \notin LooseTrees /\ walk'[i].node # NULL
    BY <1>2, <1>3, <1>5, <2>2, NodeAssumption
  <2> QED BY <1>3, <2>2, <2>3, LooseAssumption DEF LooseTrees
<1>10. i \in 1..(n - 1) \/ i = n \/ i = n + 1
  BY <1>2, <1>3, <1>4, <1>6
<1> QED BY <1>7, <1>8, <1>9, <1>10

\* What is to be known of the shapes of what a handler adds: they go on where
\* the code is, from height low to height high, ...
Extends(sh, more) ==
  /\ more \in Seq(Shape) /\ Len(more) = Len(heap') /\ Len(heap) <= Len(heap')
  /\ \A id \in 1..Len(heap) : more[id] = sh[id]

FreshFlows(more, low, high) ==
  /\ \A i \in (Len(list) + 1)..Len(list') :
       /\ Flows(At(i)', more[list'[i]],
                IF i < Len(list') THEN more[list'[i + 1]] ELSE shape(Place, high))
       /\ ~ SetsRbp(At(i)')
       /\ more[list'[i]].place = Place
  /\ Len(list') > Len(list) => more[list'[Len(list) + 1]] = shape(Place, low)
  /\ Len(list') = Len(list) => low = high

\* ... and what has a target, or will be one, is where no operand is.
FreshAims(more) ==
  /\ \A id \in Fresh : heap'[id].operation = "JMP" /\ heap'[id].jump_target # NIL =>
       heap'[id].jump_target \in 1..Len(heap') /\ more[heap'[id].jump_target] = Idle
  /\ Patching =>
       /\ heap'[LastPending].jump_target \in 1..Len(heap')
       /\ more[heap'[LastPending].jump_target] = Idle
  /\ \A e \in 1..Len(ir_stack') :
       ir_stack'[e] \in Fresh /\ heap'[ir_stack'[e]] = new_empty => more[ir_stack'[e]] = Idle

\* A discarded value is not pushed any more.
Discards == CallCompiled /\ Top.node.type \in {"SEQ", "WHILE", "BRANCH"}
Lowered(low, high) ==
  IF Discards THEN low + 1 = high /\ heap'[ir_tail] = new_empty ELSE low = high

\* What a handler does to code that is already there: nothing, erasing the push at
\* the tail, or giving the jump on top of ir_stack its target.
LEMMA OldCode ==
  ASSUME IInv, CodeInv, BodyHandler, NEW i \in 1..Len(list)
  PROVE  /\ list'[i] = list[i] /\ list[i] \in 1..Len(heap)
         /\ \/ At(i)' = At(i)
            \/ Discards /\ i = Len(list) /\ At(i)' = new_empty
            \/ /\ Patching /\ list[i] = LastPending
               /\ At(i).operation = "JMP" /\ At(i).jump_target = NIL
               /\ \E target \in Fresh : At(i)' = [At(i) EXCEPT !.jump_target = target]
<1>1. list'[i] = list[i] /\ list[i] \in 1..Len(heap) /\ Len(list) \in 1..Len(list)
  BY HandlerState, OldNodes
<1>2. AppendsFresh /\ HeapStep
  <2>1. HandleNode
    BY DEF BodyHandler, Straight, HandleNode
  <2> QED BY <2>1, HandlersKeep, HandlersEmit DEF Emission
<1>3. At(i) = heap[list[i]] /\ At(i)' = heap'[list[i]]
  BY <1>1 DEF At
<1>4. CASE Discards
  BY <1>1, <1>4, OldNodes
<1>5. CASE ~ Discards
  <2>1. \/ heap'[list[i]] = heap[list[i]]
        \/ Patching /\ list[i] = LastPending
    BY <1>1, <1>2, <1>5 DEF HeapStep, Discards
  <2>2. CASE Patching /\ list[i] = LastPending
    BY <1>1, <2>2, BodyUnchanged, PatchedNode, PatchesPending, <1>3
  <2> QED BY <1>1, <1>3, <2>1, <2>2
<1> QED BY <1>4, <1>5

\* Code that was there flows as before.
LEMMA FlowingNext ==
  ASSUME IInv, IInv', CodeInv, BodyHandler, NEW sh \in Seq(Shape), Len(sh) = Len(heap),
         NEW low \in Nat, NEW high \in Nat, NEW top \in Nat, NEW more,
         Flowing(heap, list, sh, shape(Place, top)), Extends(sh, more),
         FreshFlows(more, low, high), Lowered(low, top)
  PROVE  Flowing(heap', list', more, shape(Place, high))
<1>1. /\ Len(list) \in Nat \ {0} /\ list \in Seq(1..Len(heap)) /\ Len(list') \in Nat
      /\ Len(list') >= Len(list)
  <2>1. AppendsFresh
    BY HandlersEmit DEF Emission
  <2>2. Len(list) \in Nat \ {0} /\ list \in Seq(1..Len(heap))
    BY HandlerState
  <2> QED BY <2>1, <2>2, ListGrown
<1>2. PICK n \in Nat \ {0}, m \in Nat : n = Len(list) /\ m = Len(list') /\ m >= n
  BY <1>1
<1>3. ASSUME NEW i \in 1..n
      PROVE  Flows(heap'[list'[i]], more[list'[i]],
                   IF i < m THEN more[list'[i + 1]] ELSE shape(Place, high))
  <2>1. /\ list'[i] = list[i] /\ list[i] \in 1..Len(heap) /\ more[list'[i]] = sh[list[i]]
        /\ \/ At(i)' = At(i)
           \/ Discards /\ i = Len(list) /\ At(i)' = new_empty
           \/ /\ At(i).operation = "JMP"
              /\ \E target \in Fresh : At(i)' = [At(i) EXCEPT !.jump_target = target]
    BY <1>2, OldCode DEF Extends
  <2>2. PICK t : t = IF i < m THEN more[list'[i + 1]] ELSE shape(Place, high)
    OBVIOUS
  <2>3. i = n => t = shape(Place, low)
    BY <1>2, <2>2 DEF FreshFlows
  <2>4. PICK s : s = IF i < n THEN sh[list[i + 1]] ELSE shape(Place, top)
    OBVIOUS
  <2>5. i < n => t = s
    <3>1. ASSUME i < n PROVE t = s
      <4>1. i + 1 \in 1..Len(list) /\ i < m
        BY <1>2, <3>1
      <4>2. list'[i + 1] = list[i + 1] /\ list[i + 1] \in 1..Len(heap)
        BY <4>1, OldCode
      <4> QED BY <2>2, <2>4, <3>1, <4>1, <4>2 DEF Extends
    <3> QED BY <3>1
  <2>6. Flows(At(i), sh[list[i]], s)
    BY <1>2, <2>4 DEF Flowing, At
  <2>7. At(i)' = heap'[list'[i]]
    BY DEF At
  <2>8. CASE At(i)' = At(i) /\ (i < n \/ ~ Discards)
    <3>1. t = s
      <4>1. CASE i < n
        BY <2>5, <4>1
      <4>2. CASE i = n /\ ~ Discards
        BY <2>3, <2>4, <4>2 DEF Lowered
      <4> QED BY <1>2, <2>8, <4>1, <4>2
    <3> QED BY <2>1, <2>2, <2>6, <2>7, <2>8, <3>1
  <2>9. CASE i = n /\ Discards
    <3>1. At(i) = new_push_reg("RAX") /\ heap'[list'[i]] = new_empty /\ low + 1 = top
      <4>1. CallAtTail /\ CallCompiled
        BY <2>9 DEF CodeInv, Discards
      <4> QED BY <1>2, <2>1, <2>9, <4>1 DEF CallAtTail, ErasedCall, Lowered, ir_tail, At
    <3>2. Flows(new_push_reg("RAX"), sh[list[i]], shape(Place, top))
      BY <2>4, <2>6, <2>9, <3>1
    <3>3. sh[list[i]] \in Shape /\ shape(Place, top) = Raised(sh[list[i]], 1)
      <4>1. new_push_reg("RAX").operation = "PUSH" /\ ~ Takes(new_push_reg("RAX"), "RBP")
        BY DEF new_push_reg, new_unary, new_binary, instruction, operand_reg, Takes
      <4> QED BY <2>1, <3>2, <4>1 DEF Flows
    <3>4. sh[list[i]] = shape(Place, low)
      <4>1. /\ sh[list[i]].place = Place /\ sh[list[i]].height + 1 = top
            /\ sh[list[i]].height \in Nat
            /\ sh[list[i]] = shape(sh[list[i]].place, sh[list[i]].height)
        BY <3>3 DEF Shape, shape, Raised
      <4>2. sh[list[i]].height = low
        BY <3>1, <4>1
      <4> QED BY <4>1, <4>2
    <3>5. t = shape(Place, low)
      BY <2>3, <2>9
    <3>6. Flows(new_empty, sh[list[i]], sh[list[i]])
      BY <3>3, NoOperandFlows
    <3> QED BY <2>1, <2>2, <3>1, <3>4, <3>5, <3>6
  <2>10. CASE At(i).operation = "JMP" /\ ~ (i = n /\ Discards)
              /\ \E target \in Fresh : At(i)' = [At(i) EXCEPT !.jump_target = target]
    <3>1. t = s
      <4>1. CASE i < n
        BY <2>5, <4>1
      <4>2. CASE i = n /\ ~ Discards
        BY <2>3, <2>4, <4>2 DEF Lowered
      <4> QED BY <1>2, <2>10, <4>1, <4>2
    <3>2. PICK target : At(i)' = [At(i) EXCEPT !.jump_target = target]
      BY <2>10
    <3>3. At(i) \in IrNode
      <4>1. heap \in Seq(IrNode)
        BY HandlerState
      <4> QED BY <2>1, <4>1 DEF At
    <3>4. /\ At(i)'.operation = At(i).operation /\ At(i)'.operand1 = At(i).operand1
          /\ At(i)'.operand2 = At(i).operand2 /\ At(i)'.flags = At(i).flags
      BY <3>2, <3>3 DEF IrNode
    <3>5. Flows(At(i)', sh[list[i]], s)
      <4>1. PICK a, b : a = At(i) /\ b = At(i)'
        OBVIOUS
      <4>2. /\ a.operation = "JMP" /\ b.operation = a.operation /\ b.operand1 = a.operand1
            /\ b.flags = a.flags /\ b.operand2 = a.operand2
        BY <2>10, <3>4, <4>1
      <4>3. Flows(a, sh[list[i]], s)
        BY <2>6, <4>1
      <4>4. Flows(b, sh[list[i]], s)
        BY ONLY <4>2, <4>3 DEF Flows, IsLocalAccess, Takes, SetsRbp, Inert
      <4> QED BY <4>1, <4>4
    <3> QED BY <2>1, <2>2, <2>7, <3>1, <3>5
  <2>11. i < n \/ i = n
    BY <1>2
  <2> QED BY <2>1, <2>8, <2>9, <2>10, <2>11, <1>2
<1>4. ASSUME NEW i \in (n + 1)..m
      PROVE  Flows(heap'[list'[i]], more[list'[i]],
                   IF i < m THEN more[list'[i + 1]] ELSE shape(Place, high))
  BY <1>2 DEF FreshFlows, At
<1>5. ASSUME NEW i \in 1..m
      PROVE  Flows(heap'[list'[i]], more[list'[i]],
                   IF i < m THEN more[list'[i + 1]] ELSE shape(Place, high))
  <2>1. i \in 1..n \/ i \in (n + 1)..m
    BY <1>2
  <2> QED BY <1>3, <1>4, <2>1
<1> QED BY <1>2, <1>5 DEF Flowing

\* Targets stay where no operand is.
LEMMA AimedNext ==
  ASSUME IInv, IInv', CodeInv, BodyHandler, NEW sh \in Seq(Shape), Len(sh) = Len(heap),
         NEW more, Aimed(sh), Extends(sh, more), FreshAims(more)
  PROVE  Aimed(more)'
<1>1. /\ Len(list) \in Nat \ {0} /\ Len(list') \in Nat
      /\ Len(list') >= Len(list) /\ Len(heap) \in Nat /\ Len(heap') \in Nat
      /\ AppendsFresh /\ HeapStep /\ StackStep
      /\ \A i \in (Len(list) + 1)..Len(list') : list'[i] \in Fresh
  <2>1. AppendsFresh /\ HeapStep /\ StackStep
    BY HandlersEmit DEF Emission
  <2>2. Len(list) \in Nat \ {0} /\ Len(heap) \in Nat
    BY HandlerState
  <2>3. Len(heap') \in Nat
    <3>1. heap' \in Seq(IrNode)
      BY DEF IInv, TypeOK
    <3> QED BY <3>1
  <2> QED BY <2>1, <2>2, <2>3, ListGrown
<1>2. Len(heap') >= Len(heap)
  BY <1>1 DEF Extends
<1>3. UNCHANGED <<functions, func_return>>
  BY BodyUnchanged DEF control
<1>4. more[list'[1]] = Entry
  <2>1. 1 \in 1..Len(list)
    BY <1>1
  <2> QED BY <2>1, OldCode DEF Extends, Aimed
<1>5. ASSUME NEW i \in 1..Len(list'), At(i)'.operation = "JMP", At(i)'.jump_target # NIL
      PROVE  At(i)'.jump_target \in 1..Len(heap') /\ more[At(i)'.jump_target] = Idle
  <2>1. CASE i \in 1..Len(list)
    <3>1. /\ list'[i] = list[i]
          /\ \/ At(i)' = At(i)
             \/ At(i)' = new_empty
             \/ Patching /\ list[i] = LastPending
      BY <2>1, OldCode
    <3>2. CASE At(i)' = At(i)
      <4>1. At(i).jump_target \in 1..Len(heap) /\ sh[At(i).jump_target] = Idle
        BY <1>5, <2>1, <3>2 DEF Aimed
      <4>2. At(i).jump_target \in 1..Len(heap')
        BY <1>1, <1>2, <4>1
      <4> QED BY <3>2, <4>1, <4>2 DEF Extends
    <3>3. CASE At(i)' = new_empty
      BY <1>5, <3>3 DEF new_empty, instruction
    <3>4. CASE Patching /\ list[i] = LastPending
      BY <3>1, <3>4 DEF FreshAims, At
    <3> QED BY <3>1, <3>2, <3>3, <3>4
  <2>2. CASE i \in (Len(list) + 1)..Len(list')
    <3>1. list'[i] \in Fresh
      BY <1>1, <2>2
    <3> QED BY <1>5, <3>1 DEF FreshAims, At
  <2> QED BY <1>1, <2>1, <2>2
<1>6. ASSUME NEW k \in 1..Len(functions)
      PROVE  more[functions[k].ir_list_head] = Called
  <2>1. functions[k].ir_list_head \in 1..Len(heap)
    BY DEF IInv, FunctionTable
  <2> QED BY <2>1 DEF Aimed, Extends
<1>7. func_return # NIL => more[func_return] = Idle
  <2>1. func_return \in 0..Len(heap)
    BY HandlerState
  <2> QED BY <1>1, <2>1 DEF Aimed, Extends, NIL
<1>8. ASSUME NEW e \in 1..Len(ir_stack'), heap'[ir_stack'[e]] = new_empty
      PROVE  more[ir_stack'[e]] = Idle
  <2>1. CASE ir_stack'[e] \in Fresh
    BY <1>8, <2>1 DEF FreshAims
  <2>2. CASE ir_stack'[e] \notin Fresh
    <3>1. PICK i \in 1..Len(ir_stack) : ir_stack'[e] = ir_stack[i]
      BY <1>1, <2>2 DEF StackStep
    <3>2. ir_stack[i] \in 1..Len(heap) /\ PatchStackMatchesWalk
      BY HandlerState DEF CodeInv
    <3>3. heap[ir_stack[i]] = new_empty
      <4>1. CASE CallCompiled /\ ir_stack[i] = ir_tail
        <5>1. CallAtTail
          BY DEF CodeInv
        <5> QED BY <3>2, <4>1, <5>1, EntryIsNoCall
      <4>2. CASE Patching /\ ir_stack[i] = LastPending
        <5>1. PICK target : heap'[LastPending] = [heap[LastPending] EXCEPT !.jump_target = target]
          BY <4>2, PatchesPending
        <5>2. heap[LastPending].operation = "JMP" /\ heap[LastPending] \in IrNode
          <6>1. heap \in Seq(IrNode) /\ LastPending \in 1..Len(heap)
            BY <4>2, BodyUnchanged, HandlerState, PatchedNode
          <6> QED BY <4>2, <6>1, BodyUnchanged, PatchedNode
        <5>3. heap'[LastPending].operation = "JMP"
          BY <5>1, <5>2 DEF IrNode
        <5> QED BY <1>8, <3>1, <4>2, <5>3 DEF new_empty, instruction
      <4>3. CASE heap'[ir_stack[i]] = heap[ir_stack[i]]
        BY <1>8, <3>1, <4>3
      <4> QED BY <1>1, <3>2, <4>1, <4>2, <4>3 DEF HeapStep
    <3> QED BY <3>1, <3>2, <3>3 DEF Aimed, Extends
  <2> QED BY <2>1, <2>2
<1> QED BY <1>3, <1>4, <1>5, <1>6, <1>7, <1>8 DEF Aimed

\* The code of a function that is complete stays as it is.
LEMMA HomeKept ==
  ASSUME list \in Seq(1..Len(heap)), NEW start \in 1..(Len(list) + 1), KeptBelow(start),
         \A k \in 1..Len(functions) :
           k \in 1..Len(functions') /\ functions'[k].ir_list_head = functions[k].ir_list_head,
         NEW sh, NEW more, \A id \in 1..Len(heap) : more[id] = sh[id],
         NEW last \in 1..(start - 1), NEW first \in 1..last, Home(sh, first, last)
  PROVE  Home(more, first, last)'
<1>1. \E k \in 1..Len(functions') : Region(k, first, last)'
  <2>1. PICK k \in 1..Len(functions) : Region(k, first, last)
    BY DEF Home
  <2>2. start \in Nat
    OBVIOUS
  <2> QED BY <2>1, <2>2, RegionKept
<1>2. ASSUME NEW i \in first..last
      PROVE  At(i)' = At(i) /\ list'[i] = list[i] /\ more[list'[i]] = sh[list[i]]
  <2>1. i \in 1..(start - 1) /\ i \in 1..Len(list)
    OBVIOUS
  <2>2. list[i] \in 1..Len(heap)
    BY <2>1
  <2> QED BY <2>1, <2>2 DEF KeptBelow, At
<1>3. FrameAt(first)' = FrameAt(first)
  <2>1. PICK k \in 1..Len(functions) : Region(k, first, last)
    BY DEF Home
  <2>2. first + 3 \in first..last
    BY <2>1 DEF Region
  <2> QED BY <1>2, <2>2 DEF FrameAt
<1>4. ASSUME NEW i \in first..(last - 1)
      PROVE  Framing(At(i)', more[list'[i]], more[list'[i + 1]], FrameAt(first)')
  <2>1. i \in first..last /\ i + 1 \in first..last
    OBVIOUS
  <2>2. /\ At(i)' = At(i) /\ more[list'[i]] = sh[list[i]]
        /\ more[list'[i + 1]] = sh[list[i + 1]]
    BY <1>2, <2>1
  <2> QED BY <1>3, <2>2 DEF Home
<1> QED BY <1>1, <1>4 DEF Home

\* So do all of them, and what a handler adds makes no frame.
LEMMA HousedNext ==
  ASSUME IInv, IInv', CodeInv, RegionInv, BodyHandler, NEW sh, Len(sh) = Len(heap),
         NEW low, NEW high, NEW more, Housed(sh), Extends(sh, more), FreshFlows(more, low, high)
  PROVE  Housed(more)'
<1>1. /\ Len(list) \in Nat \ {0} /\ Len(list') \in Nat /\ list \in Seq(1..Len(heap))
      /\ Len(list') >= Len(list) /\ UNCHANGED functions
  <2>1. AppendsFresh
    BY HandlersEmit DEF Emission
  <2>2. Len(list) \in Nat \ {0} /\ list \in Seq(1..Len(heap))
    BY HandlerState
  <2> QED BY <2>1, <2>2, ListGrown, BodyUnchanged DEF control
<1>2. PICK start \in 1..(Len(list) + 1) :
        /\ Begun(start)
        /\ Frameless(sh, start)
        /\ \A i \in 1..(start - 1) : sh[list[i]].place # "entry" =>
             \E last \in i..(start - 1) : \E first \in 1..i : Home(sh, first, last)
  BY DEF Housed
<1>3. KeptBelow(start)
  <2>1. CASE InFunction
    BY <1>2, <2>1, BodyKeepsBelow
  <2>2. CASE ~ InFunction
    <3>1. ~ Patching /\ ~ Discards
      <4>1. walk[1].node.type = "NVAR" /\ walk \in Seq(Frame) /\ walk # <<>> /\ WalkShape
        BY <2>2, BodyStays, BodyUnchanged, HandlerState DEF IInv
      <4>2. Top.node.type \in ExpressionPart \cup {"NVAR"}
        <5>1. Len(walk) \in 1..Len(walk)
          BY <4>1
        <5> QED BY <4>1, <5>1 DEF WalkShape, Top
      <4> QED BY <4>2 DEF Patching, Discards, ExpressionPart, Expression
    <3>2. ASSUME NEW i \in 1..(start - 1)
          PROVE  list'[i] = list[i] /\ heap'[list[i]] = heap[list[i]]
      <4>1. i \in 1..Len(list)
        BY <1>1
      <4> QED BY <3>1, <4>1, OldCode DEF At
    <3> QED BY <3>2 DEF KeptBelow
  <2> QED BY <2>1, <2>2
<1>4. \A k \in 1..Len(functions) :
        k \in 1..Len(functions') /\ functions'[k].ir_list_head = functions[k].ir_list_head
  BY <1>1
<1>5. \A id \in 1..Len(heap) : more[id] = sh[id]
  BY DEF Extends
<1>6. ASSUME NEW i \in 1..(start - 1), more[list'[i]].place # "entry"
      PROVE  \E last \in i..(start - 1) : \E first \in 1..i : Home(more, first, last)'
  <2>1. more[list'[i]] = sh[list[i]]
    <3>1. i \in 1..Len(list)
      BY <1>1
    <3>2. list'[i] = list[i] /\ list[i] \in 1..Len(heap)
      BY <3>1, OldCode
    <3> QED BY <1>5, <3>2
  <2>2. PICK last \in i..(start - 1) : \E first \in 1..i : Home(sh, first, last)
    BY <1>2, <1>6, <2>1
  <2>3. PICK first \in 1..i : Home(sh, first, last)
    BY <2>2
  <2>4. last \in 1..(start - 1) /\ first \in 1..last
    BY <1>1
  <2>5. Home(more, first, last)'
    BY <1>1, <1>3, <1>4, <1>5, <2>3, <2>4, HomeKept
  <2> QED BY <2>5
<1>7. ASSUME NEW i \in (Len(list) + 1)..Len(list')
      PROVE  ~ SetsRbp(At(i)') /\ more[list'[i]].place = Place /\ Place \in {"entry", "body"}
  BY DEF FreshFlows, Place
<1>8. CASE InFunction
  <2>1. Begun(start)'
    BY <1>2, <1>8, BodyGoesOn DEF InFunction
  <2>2. ASSUME NEW i \in start..Len(list')
        PROVE  more[list'[i]] # Entered /\ (SetsRbp(At(i)') => i = start + 2)
    <3>1. CASE i \in 1..Len(list)
      <4>1. i \in start..Len(list)
        BY <1>1, <3>1
      <4>2. sh[list[i]] # Entered /\ (SetsRbp(At(i)) => i = start + 2)
        BY <1>2, <4>1 DEF Frameless
      <4>3. list'[i] = list[i] /\ list[i] \in 1..Len(heap)
        BY <3>1, OldCode
      <4>4. SetsRbp(At(i)') => At(i)' = At(i)
        <5>1. ~ SetsRbp(new_empty)
          BY DEF SetsRbp, new_empty, instruction
        <5>2. ASSUME At(i).operation = "JMP", NEW target, At(i)' = [At(i) EXCEPT !.jump_target = target]
              PROVE  ~ SetsRbp(At(i)')
          <6>1. At(i) \in IrNode
            <7>1. heap \in Seq(IrNode)
              BY HandlerState
            <7> QED BY <4>3, <7>1 DEF At
          <6>2. At(i)'.operation = "JMP"
            BY <5>2, <6>1 DEF IrNode
          <6> QED BY <6>2 DEF SetsRbp
        <5> QED BY <3>1, <5>1, <5>2, OldCode
      <4> QED BY <1>5, <4>2, <4>3, <4>4
    <3>2. CASE i \in (Len(list) + 1)..Len(list')
      <4>1. more[list'[i]] # Entered
        BY <1>7, <3>2 DEF Entered, shape
      <4> QED BY <1>7, <3>2, <4>1
    <3> QED BY <1>1, <3>1, <3>2
  <2>3. Frameless(more, start)'
    BY <2>2 DEF Frameless
  <2>4. start \in 1..(Len(list') + 1)
    BY <1>1
  <2> QED BY <1>6, <2>1, <2>3, <2>4 DEF Housed
<1>9. CASE ~ InFunction
  <2>1. walk[1].node.type = "NVAR" /\ ~ InFunction' /\ start = Len(list) + 1
    BY <1>2, <1>9, BodyStays DEF Begun
  <2>2. PICK later \in 1..(Len(list') + 1) : Begun(later)'
    <3>1. PICK old : CodeFrom(old)
      BY DEF RegionInv
    <3> QED BY <2>1, <3>1, InitializerKeeps DEF CodeFrom
  <2>3. later = Len(list') + 1
    BY <2>1, <2>2 DEF Begun
  <2>4. Frameless(more, later)'
    <3>1. later > Len(list')
      BY <1>1, <2>3
    <3>2. \A i \in later..Len(list') : FALSE
      BY <1>1, <2>3
    <3> QED BY <3>2 DEF Frameless
  <2>5. ASSUME NEW i \in 1..(later - 1), more[list'[i]].place # "entry"
        PROVE  \E last \in i..(later - 1) : \E first \in 1..i : Home(more, first, last)'
    <3>1. CASE i \in 1..(start - 1)
      <4>1. PICK last \in i..(start - 1) : \E first \in 1..i : Home(more, first, last)'
        BY <1>6, <2>5, <3>1
      <4>2. last \in i..(later - 1)
        BY <1>1, <2>1, <2>3
      <4> QED BY <4>1, <4>2
    <3>2. CASE i \in (Len(list) + 1)..Len(list')
      BY <1>7, <1>9, <2>5, <3>2 DEF Place
    <3> QED BY <1>1, <2>1, <2>3, <3>1, <3>2
  <2> QED BY <2>2, <2>4, <2>5 DEF Housed
<1> QED BY <1>8, <1>9

\* A handler that adds code with shapes like these leaves the code shaped.
LEMMA ShapedNext ==
  ASSUME IInv, IInv', CodeInv, RegionInv, CodeEnds, BodyHandler,
         NEW sh, NEW under, Shaped(sh, under), NEW low \in Nat, NEW more,
         Extends(sh, more), Lowered(low, under[Len(walk)] + Owed(Top)),
         FreshFlows(more, low, under[Len(walk)] + Left(Top)), FreshAims(more)
  PROVE  \E later \in Seq(Nat) : Shaped(more, later)'
<1>1. sh \in Seq(Shape) /\ Len(sh) = Len(heap) /\ Under(under) /\ walk # <<>> /\ Proceed
  BY BodyUnchanged DEF Shaped
<1>2. PICK top, high : top = under[Len(walk)] + Owed(Top) /\ high = under[Len(walk)] + Left(Top)
  OBVIOUS
<1>3. /\ under[Len(walk)] \in Nat /\ Owed(Top) \in Nat /\ Left(Top) \in Nat
      /\ \E later \in Seq(Nat) :
           /\ Under(later)'
           /\ walk' # <<>> => later[Len(walk')] + Owed(Top') = high
           /\ walk' = <<>> => high = 0
  BY <1>1, <1>2, HeightsAfter
<1>4. PICK later \in Seq(Nat) :
        /\ Under(later)'
        /\ walk' # <<>> => later[Len(walk')] + Owed(Top') = high
        /\ walk' = <<>> => high = 0
  BY <1>3
<1>5. top \in Nat /\ high \in Nat
  <2>1. under[Len(walk)] \in Nat /\ Owed(Top) \in Nat /\ Left(Top) \in Nat
    BY <1>3
  <2>2. \A a, b \in Nat : a + b \in Nat
    OBVIOUS
  <2> QED BY ONLY <1>2, <2>1, <2>2, Zenon
<1>6. Place' = Place /\ TailShape(later)' = shape(Place, high)
  BY <1>1, <1>4, <1>5, TailNext
<1>7. Flowing(heap, list, sh, shape(Place, top))
  BY <1>1, <1>2, TailNow DEF Shaped
<1>8. Flowing(heap', list', more, shape(Place, high))
  <2>1. Lowered(low, top) /\ FreshFlows(more, low, high)
    BY <1>2
  <2> QED BY <1>1, <1>5, <1>7, <2>1, FlowingNext
<1>9. Neat'
  BY <1>1, BodyStays, NeatNext DEF Shaped
<1>10. Aimed(more)'
  BY <1>1, AimedNext DEF Shaped
<1>11. Housed(more)'
  BY <1>1, HousedNext DEF Shaped
<1>12. more \in Seq(Shape) /\ Len(more) = Len(heap')
  BY DEF Extends
<1>13. Flowing(heap, list, more, TailShape(later))'
  BY <1>6, <1>8 DEF Flowing
<1> QED BY <1>4, <1>9, <1>10, <1>11, <1>12, <1>13 DEF Shaped

\* Where a handler is: statements are compiled in a function, and begin with
\* nothing on the stack.
LEMMA HandlerPlace ==
  ASSUME IInv, CodeInv, BodyHandler, NEW under, Under(under)
  PROVE  /\ Place \in {"entry", "body"}
         /\ under[Len(walk)] \in Nat /\ Owed(Top) \in Nat /\ Left(Top) \in Nat
         /\ Top.node \in Node /\ Top.stage \in 0..3
         /\ Top.node.type \notin ExpressionPart => under[Len(walk)] = 0
         /\ Top.node.type \notin ExpressionPart \cup {"NVAR"} => Place = "body"
         /\ Place = "entry" => Len(name_scope) = 1
<1>1. walk \in Seq(Frame) /\ walk # <<>> /\ Proceed /\ WalkShape /\ ScopesMatchWalk
  BY HandlerState, BodyUnchanged DEF IInv
<1>2. Len(walk) \in 1..Len(walk) /\ Top = walk[Len(walk)]
  BY <1>1 DEF Top
<1>3. under[Len(walk)] \in Nat /\ Owed(Top) \in Nat /\ Left(Top) \in Nat
  BY <1>1, HeightsAfter
<1>4. Top.node.type \notin ExpressionPart => under[Len(walk)] = 0
  BY <1>2 DEF Under
<1>5. /\ walk[1].node.type \in {"NVAR", "NFUN"}
      /\ walk[1].node.type = "NFUN" => InFunction
      /\ walk[1].node.type = "NVAR" => ~ InFunction
  BY BodyStays
<1>6. Top.node.type \notin ExpressionPart \cup {"NVAR"} => walk[1].node.type = "NFUN"
  BY <1>1, <1>2, <1>5 DEF WalkShape
<1>7. walk[1].node.type = "NVAR" => Len(name_scope) = 1
  BY <1>1, InsideInitializer
<1>8. Top.node \in Node /\ Top.stage \in 0..3
  BY <1>1, TopTyped
<1> QED BY <1>3, <1>4, <1>5, <1>6, <1>7, <1>8 DEF Place

\* Nodes linked in the order they are allocated have the shapes they climb.
LEMMA ShapesFor ==
  ASSUME IInv, IInv', NEW sh \in Seq(Shape), Len(sh) = Len(heap),
         NEW h \in Seq(IrNode), Len(h) = Len(heap), NEW nodes \in Seq(IrNode), EmitTo(h, nodes),
         NEW low \in Nat, NEW high \in Nat, Place \in {"entry", "body"},
         Climbs(nodes, Place, low, high)
  PROVE  \E more :
           /\ Extends(sh, more)
           /\ FreshFlows(more, low, high)
           /\ nodes # <<>> => more[Len(heap) + 1] = shape(Place, low)
<1>1. PICK n \in Nat, c \in Nat, m \in Nat : n = Len(heap) /\ c = Len(nodes) /\ m = Len(list)
  BY HandlerState
<1>2. PICK heights \in Seq(Nat) :
        /\ Len(heights) = c + 1 /\ heights[1] = low /\ heights[c + 1] = high
        /\ \A j \in 1..c :
             /\ Flows(nodes[j], shape(Place, heights[j]), shape(Place, heights[j + 1]))
             /\ ~ SetsRbp(nodes[j])
  BY <1>1 DEF Climbs
<1>3. /\ Len(heap') = n + c /\ Len(list') = m + c
      /\ \A i \in 1..c : list'[m + i] = n + i
      /\ \A i \in 1..c : heap'[n + i] = nodes[i]
  <2>1. heap \in Seq(IrNode) /\ list \in Seq(1..Len(heap)) /\ list # <<>>
    BY HandlerState
  <2> QED BY <1>1, <2>1, EmitTyped, EmitsFresh
<1>4. PICK new : new = [i \in 1..c |-> shape(Place, heights[i])]
  OBVIOUS
<1>5. new \in Seq(Shape) /\ Len(new) = c /\ \A i \in 1..c : new[i] = shape(Place, heights[i])
  <2>1. \A i \in 1..c : new[i] = shape(Place, heights[i])
    BY <1>4
  <2>2. ASSUME NEW i \in 1..c
        PROVE  new[i] \in Shape
    <3>1. PICK k \in Nat : k = heights[i]
      <4>1. heights[i] \in Nat
        BY <1>1, <1>2
      <4> QED BY <4>1
    <3>2. new[i] = shape(Place, k)
      BY <2>1, <3>1
    <3>3. \A place \in {"entry", "body"} : shape(place, k) \in Shape
      BY DEF shape, Shape
    <3> QED BY ONLY <3>2, <3>3, Place \in {"entry", "body"}
  <2>3. DOMAIN new = 1..c /\ new = [i \in DOMAIN new |-> new[i]]
    BY <1>4
  <2>4. new \in Seq(Shape) /\ Len(new) = c
    BY ONLY <2>2, <2>3, c \in Nat, Sequenced, ZenonT(30)
  <2> QED BY <2>1, <2>4
<1>6. PICK more : more = sh \o new
  OBVIOUS
<1>7. /\ more \in Seq(Shape) /\ Len(more) = n + c
      /\ \A id \in 1..n : more[id] = sh[id]
      /\ \A i \in 1..c : more[n + i] = shape(Place, heights[i])
  <2>1. /\ sh \o new \in Seq(Shape) /\ Len(sh \o new) = Len(sh) + Len(new)
        /\ \A i \in 1..Len(sh) : (sh \o new)[i] = sh[i]
        /\ \A i \in 1..Len(new) : (sh \o new)[Len(sh) + i] = new[i]
    <3>1. PICK set : set = Shape
      OBVIOUS
    <3>2. sh \in Seq(set) /\ new \in Seq(set)
      BY <1>5, <3>1
    <3>3. /\ sh \o new \in Seq(set) /\ Len(sh \o new) = Len(sh) + Len(new)
          /\ \A i \in 1..Len(sh) : (sh \o new)[i] = sh[i]
          /\ \A i \in 1..Len(new) : (sh \o new)[Len(sh) + i] = new[i]
      BY ONLY <3>2, Behind
    <3> QED BY <3>1, <3>3
  <2> QED BY <1>1, <1>5, <1>6, <2>1
<1>8. Extends(sh, more)
  BY <1>1, <1>3, <1>7 DEF Extends
<1>9. ASSUME NEW i \in (m + 1)..(m + c)
      PROVE  /\ Flows(At(i)', more[list'[i]],
                      IF i < m + c THEN more[list'[i + 1]] ELSE shape(Place, high))
             /\ ~ SetsRbp(At(i)')
             /\ more[list'[i]].place = Place
  <2>1. PICK j \in 1..c : i = m + j
    <3>1. i - m \in 1..c /\ i = m + (i - m)
      BY <1>1
    <3> QED BY <3>1
  <2>2. list'[i] = n + j /\ At(i)' = nodes[j] /\ more[list'[i]] = shape(Place, heights[j])
    BY <1>3, <1>7, <2>1 DEF At
  <2>3. (IF i < m + c THEN more[list'[i + 1]] ELSE shape(Place, high)) = shape(Place, heights[j + 1])
    <3>1. CASE j < c
      <4>1. j + 1 \in 1..c /\ i + 1 = m + (j + 1) /\ i < m + c
        BY <1>1, <2>1, <3>1
      <4>2. list'[i + 1] = n + (j + 1)
        BY <1>3, <4>1
      <4> QED BY <1>7, <4>1, <4>2
    <3>2. CASE j = c
      <4>1. ~ (i < m + c)
        BY <1>1, <2>1, <3>2
      <4> QED BY <1>2, <3>2, <4>1
    <3>3. j < c \/ j = c
      BY <1>1
    <3> QED BY <3>1, <3>2, <3>3
  <2>4. more[list'[i]].place = Place
    BY <2>2 DEF shape
  <2> QED BY <1>2, <2>2, <2>3, <2>4
<1>10. c > 0 => list'[m + 1] = n + 1 /\ more[n + 1] = shape(Place, low)
  <2>1. c > 0 => 1 \in 1..c
    BY <1>1
  <2> QED BY <1>2, <1>3, <1>7, <2>1
<1>11. c = 0 => low = high
  BY <1>2
<1>12. FreshFlows(more, low, high)
  BY <1>1, <1>3, <1>9, <1>10, <1>11 DEF FreshFlows
<1>13. nodes # <<>> => more[Len(heap) + 1] = shape(Place, low)
  BY <1>1, <1>10
<1> QED BY <1>8, <1>12, <1>13

\* Code that climbs leaves the code shaped.
LEMMA ClimbingShaped ==
  ASSUME IInv, IInv', CodeInv, RegionInv, CodeEnds, BodyHandler,
         NEW sh, NEW under, Shaped(sh, under),
         NEW h \in Seq(IrNode), Len(h) = Len(heap), NEW nodes \in Seq(IrNode), EmitTo(h, nodes),
         NEW low \in Nat, Lowered(low, under[Len(walk)] + Owed(Top)),
         Climbs(nodes, Place, low, under[Len(walk)] + Left(Top)),
         \A j \in 1..Len(nodes) : nodes[j].operation = "JMP" =>
           nodes[j].jump_target \in {NIL, func_return},
         Patching => /\ heap'[LastPending].jump_target = Len(heap) + 1
                     /\ Place = "body" /\ low = 0 /\ nodes # <<>>,
         \A e \in 1..Len(ir_stack') : ir_stack'[e] \in Fresh /\ heap'[ir_stack'[e]] = new_empty =>
           /\ ir_stack'[e] = Len(heap) + 1
           /\ Place = "body" /\ low = 0 /\ nodes # <<>>
  PROVE  \E more \in Seq(Shape), later \in Seq(Nat) : Shaped(more, later)'
<1>1. sh \in Seq(Shape) /\ Len(sh) = Len(heap) /\ Under(under) /\ Aimed(sh)
  BY DEF Shaped
<1>2. PICK high : high = under[Len(walk)] + Left(Top)
  OBVIOUS
<1>3. Place \in {"entry", "body"} /\ high \in Nat
  <2>1. Place \in {"entry", "body"} /\ under[Len(walk)] \in Nat /\ Left(Top) \in Nat
    BY <1>1, HandlerPlace
  <2>2. \A a, b \in Nat : a + b \in Nat
    OBVIOUS
  <2> QED BY ONLY <1>2, <2>1, <2>2, Zenon
<1>4. PICK more :
        /\ Extends(sh, more)
        /\ FreshFlows(more, low, high)
        /\ nodes # <<>> => more[Len(heap) + 1] = shape(Place, low)
  <2>1. Climbs(nodes, Place, low, high)
    BY <1>2
  <2> QED BY <1>1, <1>3, <2>1, ShapesFor
<1>5. /\ Len(heap') = Len(heap) + Len(nodes) /\ Len(heap) \in Nat /\ Len(nodes) \in Nat
      /\ \A i \in 1..Len(nodes) : heap'[Len(heap) + i] = nodes[i]
      /\ \A id \in Fresh : \E i \in 1..Len(nodes) : id = Len(heap) + i
  BY HandlerState, EmitsFresh
<1>6. ASSUME NEW id \in Fresh, heap'[id].operation = "JMP", heap'[id].jump_target # NIL
      PROVE  heap'[id].jump_target \in 1..Len(heap') /\ more[heap'[id].jump_target] = Idle
  <2>1. heap'[id].jump_target = func_return /\ func_return # NIL
    BY <1>5, <1>6
  <2>2. func_return \in 1..Len(heap)
    <3>1. func_return \in 0..Len(heap)
      BY HandlerState
    <3> QED BY <1>5, <2>1, <3>1 DEF NIL
  <2>3. sh[func_return] = Idle
    BY <1>1, <2>1 DEF Aimed
  <2> QED BY <1>4, <1>5, <2>1, <2>2, <2>3 DEF Extends
<1>7. nodes # <<>> => Len(heap) + 1 \in 1..Len(heap')
  BY <1>5
<1>8. Place = "body" /\ low = 0 => shape(Place, low) = Idle
  BY DEF Idle
<1>9. FreshAims(more)
  BY <1>4, <1>6, <1>7, <1>8 DEF FreshAims
<1> QED BY <1>2, <1>4, <1>9, ShapedNext DEF Extends

\* So does a handler that adds no code and leaves the stack as it is.
LEMMA QuietShaped ==
  ASSUME IInv, IInv', CodeInv, RegionInv, CodeEnds, BodyHandler,
         NEW sh, NEW under, Shaped(sh, under), UNCHANGED <<heap, list, ir_stack>>,
         ~ Discards, ~ Patching, Owed(Top) = Left(Top)
  PROVE  \E more \in Seq(Shape), later \in Seq(Nat) : Shaped(more, later)'
<1>1. sh \in Seq(Shape) /\ Len(sh) = Len(heap) /\ Under(under) /\ Len(heap) \in Nat /\ Len(list) \in Nat
      /\ ir_stack \in Seq(1..Len(heap))
  BY HandlerState DEF Shaped
<1>2. PICK high : high = under[Len(walk)] + Left(Top)
  OBVIOUS
<1>3. Place \in {"entry", "body"} /\ high \in Nat
  <2>1. Place \in {"entry", "body"} /\ under[Len(walk)] \in Nat /\ Left(Top) \in Nat
    BY <1>1, HandlerPlace
  <2>2. \A a, b \in Nat : a + b \in Nat
    OBVIOUS
  <2> QED BY ONLY <1>2, <2>1, <2>2, Zenon
<1>4. Fresh = {}
  BY <1>1 DEF Fresh
<1>5. Extends(sh, sh)
  BY <1>1 DEF Extends
<1>6. FreshFlows(sh, high, high)
  BY <1>1 DEF FreshFlows
<1>7. FreshAims(sh)
  BY <1>4 DEF FreshAims
<1>8. Lowered(high, under[Len(walk)] + Owed(Top))
  BY <1>2 DEF Lowered
<1> QED BY <1>1, <1>2, <1>3, <1>5, <1>6, <1>7, <1>8, ShapedNext

-----------------------------------------------------------------------------
(* The handlers of the body.                                               *)

\* How high the operands are before and after the handlers of each type.
LEMMA Levels ==
  ASSUME NEW frame, frame.node \in Node, frame.stage \in 0..3
  PROVE  LET type  == frame.node.type
             stage == frame.stage
         IN  /\ type \in {"NVAR", "ASS", "RET"} /\ stage = 3 => Owed(frame) = 1 /\ Left(frame) = 0
             /\ type \in {"VAR", "CONST"} /\ stage = 3 => Owed(frame) = 0 /\ Left(frame) = 1
             /\ type = "OP" /\ stage = 1 /\ frame.node.value \notin {"NOT", "NEG"} =>
                  Owed(frame) = 1 /\ Left(frame) = 1
             /\ type = "OP" /\ stage = 3 =>
                  /\ Owed(frame) = IF frame.node.value \in {"NOT", "NEG"} THEN 1 ELSE 2
                  /\ Left(frame) = 1
             /\ type = "CALL" /\ stage = 3 =>
                  Owed(frame) = ChainOf(frame.node.right) /\ Left(frame) = 1
             /\ type \in {"SEQ", "BRANCH"} /\ stage = 1 =>
                  /\ Owed(frame) = IF TypeOf(frame.node.left) = "CALL" THEN 1 ELSE 0
                  /\ Left(frame) = 0
             /\ type \in {"WHILE", "BRANCH"} /\ stage = 3 =>
                  /\ Owed(frame) = IF TypeOf(frame.node.right) = "CALL" THEN 1 ELSE 0
                  /\ Left(frame) = 0
             /\ type = "BRANCH" /\ stage = 0 => Owed(frame) = 1 /\ Left(frame) = 0
             /\ type = "WHILE" /\ stage = 0 => Owed(frame) = 0 /\ Left(frame) = 0
             /\ type = "WHILE" /\ stage = 1 => Owed(frame) = 1 /\ Left(frame) = 0
             /\ type = "BLOCK" \/ type = "NFUN" => Owed(frame) = 0 /\ Left(frame) = 0
<1>1. PICK type, stage : type = frame.node.type /\ stage = frame.stage
  OBVIOUS
<1>2. PICK l, r : l = frame.node.left /\ r = frame.node.right
  OBVIOUS
<1>3. /\ type \in NodeType
      /\ TypeOf(l) \in LeftChild(type) /\ TypeOf(r) \in RightChild(type)
      /\ type = "OP" => (l = NULL <=> frame.node.value \in {"NOT", "NEG"})
  BY <1>1, <1>2, NodeFields, NodeAssumption
<1>4. /\ Results(NULL) = 0 /\ TypeOf(NULL) = "none" /\ ChainOf(NULL) = 0
      /\ \A n \in {l, r} : Results(n) = CASE TypeOf(n) \in Expression -> 1
                                         [] TypeOf(n) = "PAR"        -> ChainOf(n)
                                         [] OTHER                    -> 0
      /\ Results(frame.node) = CASE type \in Expression -> 1
                                 [] type = "PAR"        -> ChainOf(frame.node)
                                 [] OTHER               -> 0
  <2>1. Results(NULL) = 0
    BY Counts
  <2>2. TypeOf(frame.node) = type
    BY <1>1, NodeAssumption DEF TypeOf
  <2> QED BY <2>1, <2>2, ChainAssumption DEF Results, TypeOf
<1>5. /\ Owed(frame) = (IF Holds(frame) THEN 1 ELSE 0)
                         + (IF stage = 1 THEN Results(l) ELSE IF stage = 3 THEN Results(r) ELSE 0)
      /\ Left(frame) = IF stage = 0 THEN 0
                       ELSE IF stage = 1 THEN Held([node |-> frame.node, stage |-> 2])
                       ELSE IF stage = 2 THEN Held(frame)
                       ELSE Results(frame.node)
  BY <1>1, <1>2 DEF Owed, Held, Brought, Left, COMPILING_LEFT, COMPILED_LEFT, COMPILING_RIGHT,
                    COMPILED_RIGHT
<1>6. /\ Holds(frame) <=> \/ type \in {"OP", "PAR"} /\ l # NULL /\ stage \in {2, 3}
                          \/ type = "IF" /\ stage = 2
                          \/ type = "BRANCH" /\ stage = 0
      /\ Held(frame) = IF Holds(frame) THEN 1 ELSE 0
      /\ Held([node |-> frame.node, stage |-> 2])
           = IF (type \in {"OP", "PAR"} /\ l # NULL) \/ type = "IF" THEN 1 ELSE 0
  BY <1>1, <1>2 DEF Holds, Held, COMPILING_LEFT, COMPILED_LEFT, COMPILING_RIGHT, COMPILED_RIGHT
<1>7. PICK owed, left, rl, rr, rn :
        /\ owed = Owed(frame) /\ left = Left(frame)
        /\ rl = Results(l) /\ rr = Results(r) /\ rn = Results(frame.node)
  OBVIOUS
<1>8. stage \in 0..3
  BY <1>1
<1>9. type \in {"NVAR", "ASS", "RET"} /\ stage = 3 => owed = 1 /\ left = 0
  BY <1>3, <1>4, <1>5, <1>6, <1>7 DEF RightChild, Expression
<1>10. type \in {"VAR", "CONST"} /\ stage = 3 => owed = 0 /\ left = 1
  BY <1>3, <1>4, <1>5, <1>6, <1>7 DEF RightChild, Expression
<1>11. type = "OP" =>
         /\ stage = 1 /\ frame.node.value \notin {"NOT", "NEG"} => owed = 1 /\ left = 1
         /\ stage = 3 =>
              /\ owed = IF frame.node.value \in {"NOT", "NEG"} THEN 1 ELSE 2
              /\ left = 1
  <2>1. ASSUME type = "OP" PROVE TypeOf(r) \in Expression /\ TypeOf(l) \in Expression \cup {"none"}
    BY <1>3, <2>1 DEF RightChild, LeftChild
  <2>2. ASSUME type = "OP", l # NULL PROVE TypeOf(l) \in Expression
    BY <1>2, <2>1, <2>2, NodeFields DEF TypeOf, NodeType, Expression, Statement
  <2> QED BY <1>3, <1>4, <1>5, <1>6, <1>7, <2>1, <2>2 DEF Expression
<1>12. type = "CALL" /\ stage = 3 => owed = ChainOf(r) /\ left = 1
  <2>1. ASSUME type = "CALL" PROVE TypeOf(r) = "PAR" \/ r = NULL
    BY <1>2, <1>3, <2>1, NodeFields DEF RightChild, Expression, TypeOf, NodeType, Statement
  <2>2. ChainOf(r) \in Nat
    BY <1>2, NodeFields
  <2> QED BY <1>3, <1>4, <1>5, <1>6, <1>7, <2>1, <2>2 DEF Expression
<1>13. /\ type \in {"SEQ", "BRANCH"} /\ stage = 1 =>
            owed = (IF TypeOf(l) = "CALL" THEN 1 ELSE 0) /\ left = 0
       /\ type \in {"WHILE", "BRANCH"} /\ stage = 3 =>
            owed = (IF TypeOf(r) = "CALL" THEN 1 ELSE 0) /\ left = 0
  BY <1>3, <1>4, <1>5, <1>6, <1>7 DEF LeftChild, RightChild, Expression, Statement
<1>14. /\ type = "BRANCH" /\ stage = 0 => owed = 1 /\ left = 0
       /\ type = "WHILE" /\ stage = 0 => owed = 0 /\ left = 0
       /\ type = "WHILE" /\ stage = 1 => owed = 1 /\ left = 0
  BY <1>3, <1>4, <1>5, <1>6, <1>7 DEF LeftChild, RightChild, Expression, Statement
<1>15. type = "BLOCK" \/ type = "NFUN" => owed = 0 /\ left = 0
  BY <1>3, <1>4, <1>5, <1>6, <1>7, <1>8 DEF LeftChild, RightChild, Expression, Statement
<1> QED BY <1>1, <1>2, <1>7, <1>9, <1>10, <1>11, <1>12, <1>13, <1>14, <1>15

\* Where nothing is done, nothing is owed.
LEMMA NothingOwed ==
  ASSUME NEW frame, frame.node \in Node, frame.stage \in 0..3,
         ~ Acts(frame.node, frame.stage)
  PROVE  Owed(frame) = Left(frame)
<1> USE DEF COMPILING_LEFT, COMPILED_LEFT, COMPILING_RIGHT, COMPILED_RIGHT
<1>1. PICK type, stage : type = frame.node.type /\ stage = frame.stage
  OBVIOUS
<1>2. PICK l, r : l = frame.node.left /\ r = frame.node.right
  OBVIOUS
<1>3. /\ type \in NodeType
      /\ TypeOf(l) \in LeftChild(type) /\ TypeOf(r) \in RightChild(type)
  BY <1>1, <1>2, NodeFields
<1>4. /\ Results(NULL) = 0
      /\ Results(l) = CASE TypeOf(l) \in Expression -> 1
                        [] TypeOf(l) = "PAR"        -> ChainOf(l)
                        [] OTHER                    -> 0
      /\ Results(r) = CASE TypeOf(r) \in Expression -> 1
                        [] TypeOf(r) = "PAR"        -> ChainOf(r)
                        [] OTHER                    -> 0
  BY Counts DEF Results
<1>5. /\ l \in Node \cup {NULL} /\ r \in Node \cup {NULL}
      /\ (TypeOf(l) = "none" <=> l = NULL) /\ (TypeOf(r) = "none" <=> r = NULL)
  BY <1>2, NodeFields DEF TypeOf, NodeType, Expression, Statement
<1>6. Results(l) \in Nat /\ Results(r) \in Nat
  BY <1>5, Counts
<1>7. CASE stage = 0
  <2>1. type # "BRANCH"
    BY <1>1, <1>7 DEF Acts
  <2>2. Held(frame) = 0
    BY <1>1, <1>7, <2>1 DEF Held, Holds
  <2>3. Brought(frame) = 0
    BY <1>1, <1>7 DEF Brought
  <2>4. Left(frame) = 0
    BY <1>1, <1>7 DEF Left
  <2> QED BY <2>2, <2>3, <2>4 DEF Owed
<1>8. CASE stage = 1
  <2>1. type \notin {"SEQ", "WHILE", "BRANCH", "NFUN"}
    BY <1>1, <1>8 DEF Acts
  <2>2. /\ Owed(frame) = Results(l)
        /\ Left(frame) = IF (type \in {"OP", "PAR"} /\ l # NULL) \/ type = "IF" THEN 1 ELSE 0
    BY <1>1, <1>2, <1>6, <1>8, <2>1 DEF Owed, Held, Holds, Brought, Left
  <2>3. CASE type \in {"OP", "PAR", "IF"}
    <3>1. l # NULL => TypeOf(l) \in Expression
      BY <1>3, <1>5, <2>3 DEF LeftChild
    <3>2. type # "OP" => l # NULL
      BY <1>3, <1>5, <2>3 DEF LeftChild, Expression
    <3>3. l # NULL => Results(l) = 1
      BY <1>5, <3>1, Counts DEF TypeOf
    <3>4. l = NULL => Results(l) = 0
      BY <1>4
    <3>5. Left(frame) = IF l # NULL THEN 1 ELSE 0
      BY <2>2, <2>3, <3>2
    <3> QED BY <2>2, <3>3, <3>4, <3>5
  <2>4. CASE type \notin {"OP", "PAR", "IF"}
    <3>1. TypeOf(l) \notin Expression \cup {"PAR"}
      BY <1>3, <2>1, <2>4 DEF LeftChild, Expression, Statement
    <3> QED BY <1>4, <2>2, <2>4, <3>1
  <2> QED BY <2>3, <2>4
<1>9. CASE stage = 2
  <2>1. Brought(frame) = 0 /\ Left(frame) = Held(frame) /\ Held(frame) \in {0, 1}
    BY <1>1, <1>9 DEF Brought, Left, Held
  <2> QED BY <2>1 DEF Owed
<1>10. CASE stage = 3
  <2>1. type \in {"IF", "PAR", "SEQ", "DEFS", "ARG"}
    BY <1>1, <1>3, <1>10 DEF Acts, NodeType, Expression, Statement
  <2>2. /\ Owed(frame) = (IF type = "PAR" /\ l # NULL THEN 1 ELSE 0) + Results(r)
        /\ Left(frame) = Results(frame.node)
    BY <1>1, <1>2, <1>6, <1>10, <2>1 DEF Owed, Held, Holds, Brought, Left
  <2>3. CASE type = "PAR"
    <3>1. l # NULL
      BY <1>3, <1>5, <2>3 DEF LeftChild, Expression
    <3>2. Results(frame.node) = 1 + Results(r)
      BY <1>1, <1>2, <2>3, Counts, NodeAssumption
    <3> QED BY <2>2, <2>3, <3>1, <3>2
  <2>4. CASE type # "PAR"
    <3>1. TypeOf(r) \notin Expression \cup {"PAR"}
      BY <1>3, <2>1, <2>4 DEF RightChild, Expression, Statement
    <3>2. Results(frame.node) = 0
      BY <1>1, <2>1, <2>4, Counts, NodeAssumption DEF Expression
    <3> QED BY <1>4, <2>2, <2>4, <3>1, <3>2
  <2> QED BY <2>3, <2>4
<1> QED BY <1>1, <1>7, <1>8, <1>9, <1>10

\* The common case: no construct is closed and no value is discarded.
LEMMA OrdinaryShaped ==
  ASSUME IInv, IInv', CodeInv, RegionInv, CodeEnds, BodyHandler,
         NEW sh, NEW under, Shaped(sh, under),
         Top.node.type \notin {"SEQ", "WHILE", "BRANCH"}, UNCHANGED ir_stack,
         NEW nodes \in Seq(IrNode), Emit(nodes),
         Climbs(nodes, Place, under[Len(walk)] + Owed(Top), under[Len(walk)] + Left(Top)),
         \A j \in 1..Len(nodes) : nodes[j].operation = "JMP" =>
           nodes[j].jump_target \in {NIL, func_return}
  PROVE  \E more \in Seq(Shape), later \in Seq(Nat) : Shaped(more, later)'
<1>1. ~ Discards /\ ~ Patching
  BY DEF Discards, Patching
<1>2. PICK low : low = under[Len(walk)] + Owed(Top)
  OBVIOUS
<1>3. low \in Nat
  <2>1. under[Len(walk)] \in Nat /\ Owed(Top) \in Nat
    BY HandlerPlace DEF Shaped
  <2>2. \A a, b \in Nat : a + b \in Nat
    OBVIOUS
  <2> QED BY ONLY <1>2, <2>1, <2>2, Zenon
<1>4. Lowered(low, under[Len(walk)] + Owed(Top))
  BY <1>1, <1>2 DEF Lowered
<1>5. heap \in Seq(IrNode) /\ EmitTo(heap, nodes)
  BY HandlerState DEF Emit
<1>6. \A e \in 1..Len(ir_stack') : ir_stack'[e] \notin Fresh
  <2>1. ir_stack \in Seq(1..Len(heap)) /\ Len(heap) \in Nat
    BY HandlerState
  <2> QED BY <2>1 DEF Fresh
<1>7. Climbs(nodes, Place, low, under[Len(walk)] + Left(Top))
  BY <1>2
<1> QED BY <1>1, <1>3, <1>4, <1>5, <1>6, <1>7, ClimbingShaped

\* The operand of a variable: RBP is used only where there are local tables.
LEMMA VariablePlaced ==
  ASSUME NEW tables \in Seq(VarTable), LaidOut(tables), NEW name, Visible(tables, name)
  PROVE  \E address :
           \/ variable_operand(tables, name) = operand_abs(address)
           \/ Len(tables) # 1 /\ variable_operand(tables, name) = operand_rbp(address)
<1>1. PICK t \in 1..Len(tables) : find_var(tables, name).is_global = tables[t].is_global
  BY VariableFound
<1>2. Len(tables) = 1 => find_var(tables, name).is_global
  BY <1>1 DEF LaidOut
<1>3. PICK var : var = find_var(tables, name)
  OBVIOUS
<1>4. variable_operand(tables, name)
        = IF var.is_global THEN operand_abs(var.addr) ELSE operand_rbp(- var.addr)
  BY <1>3 DEF variable_operand
<1> QED BY <1>2, <1>3, <1>4

\* Handlers of expressions and of simple statements keep the code shaped.
LEMMA StraightShaped ==
  ASSUME IInv, IInv', CodeInv, RegionInv, CodeEnds, Straight,
         NEW sh, NEW under, Shaped(sh, under)
  PROVE  \E more \in Seq(Shape), later \in Seq(Nat) : Shaped(more, later)'
<1> USE DEF COMPILING_LEFT, COMPILED_LEFT, COMPILING_RIGHT, COMPILED_RIGHT
<1>1. BodyHandler /\ Under(under)
  BY DEF BodyHandler, Shaped
<1>2. PICK h \in Nat, place \in {"entry", "body"} : h = under[Len(walk)] /\ place = Place
  BY <1>1, HandlerPlace
<1>3. /\ Top.node \in Node /\ Top.stage \in 0..3
      /\ place = "entry" => Len(name_scope) = 1
  BY <1>1, <1>2, HandlerPlace
<1>4. /\ Top.node.type \notin {"SEQ", "WHILE", "BRANCH"} => ~ Discards /\ ~ Patching
      /\ "MOV" \in ir_op /\ "MUL" \in ir_op /\ "PUSH" \in ir_op /\ "POP" \in ir_op
      /\ "RAX" \in ir_reg /\ "RAX" \in DataRegister
  BY DEF Discards, Patching, ir_op, ir_reg, DataRegister
<1>5. ASSUME NEW nodes \in Seq(IrNode), Emit(nodes), UNCHANGED ir_stack,
             Top.node.type \notin {"SEQ", "WHILE", "BRANCH"},
             NEW low, NEW high, low = h + Owed(Top), high = h + Left(Top),
             Climbs(nodes, place, low, high),
             \A j \in 1..Len(nodes) : nodes[j].operation # "JMP"
      PROVE  \E more \in Seq(Shape), later \in Seq(Nat) : Shaped(more, later)'
  <2>1. Climbs(nodes, Place, under[Len(walk)] + Owed(Top), under[Len(walk)] + Left(Top))
    BY <1>2, <1>5
  <2> QED BY <1>1, <1>5, <2>1, OrdinaryShaped
<1>6. ASSUME NEW op \in {"PUSH", "POP"}, NEW name, Visible(name_scope', name),
             Len(name_scope') = Len(name_scope),
             Emit(<< new_unary(op, variable_operand(name_scope', name)) >>),
             UNCHANGED ir_stack,
             Top.node.type \notin {"SEQ", "WHILE", "BRANCH"},
             op = "PUSH" => Owed(Top) = 0 /\ Left(Top) = 1,
             op = "POP" => Owed(Top) = 1 /\ Left(Top) = 0
      PROVE  \E more \in Seq(Shape), later \in Seq(Nat) : Shaped(more, later)'
  <2>1. name_scope' \in Seq(VarTable) /\ LaidOut(name_scope')
    BY DEF IInv, TypeOK, ScopeLayout
  <2>2. PICK operand : operand = variable_operand(name_scope', name)
    OBVIOUS
  <2>3. PICK address :
          \/ operand = operand_abs(address)
          \/ place = "body" /\ operand = operand_rbp(address)
    <3>1. PICK address :
            \/ operand = operand_abs(address)
            \/ Len(name_scope') # 1 /\ operand = operand_rbp(address)
      BY <1>6, <2>1, <2>2, VariablePlaced
    <3> QED BY <1>3, <1>6, <3>1
  <2>4. new_unary(op, operand) \in IrNode
    BY <1>4, <1>6, <2>1, <2>2, VariableOperand, InstructionTypes
  <2>5. PICK node : node = new_unary(op, operand)
    OBVIOUS
  <2>6. << node >> \in Seq(IrNode) /\ \A j \in 1..Len(<< node >>) : << node >>[j].operation # "JMP"
    <3>1. node.operation = op
      BY <2>5 DEF new_unary, new_binary, instruction
    <3> QED BY <2>4, <2>5, <3>1
  <2>7. /\ op = "PUSH" => Climbs(<< node >>, place, h, h + 1)
        /\ op = "POP" => Climbs(<< node >>, place, h + 1, h)
    BY <1>2, <2>3, <2>5, VariableClimbs
  <2>8. Emit(<< node >>)
    BY <1>6, <2>2, <2>5
  <2>9. op = "PUSH" => h + Owed(Top) = h /\ h + Left(Top) = h + 1
    BY <1>2, <1>6
  <2>10. op = "POP" => h + Owed(Top) = h + 1 /\ h + Left(Top) = h
    BY <1>2, <1>6
  <2>11. CASE op = "PUSH"
    BY <1>5, <1>6, <2>6, <2>7, <2>8, <2>9, <2>11
  <2>12. CASE op = "POP"
    BY <1>5, <1>6, <2>6, <2>7, <2>8, <2>10, <2>12
  <2> QED BY <2>11, <2>12
<1>7. CASE compile_NVAR
  <2>1. /\ Top.node.type = "NVAR" /\ Top.stage = 3 /\ UNCHANGED ir_stack
        /\ name_scope' = add_var(name_scope, Top.node.value)
        /\ Emit(<< new_unary("POP", variable_operand(name_scope', Top.node.value)) >>)
    BY <1>7 DEF compile_NVAR, Handling
  <2>2. Visible(name_scope', Top.node.value) /\ Len(name_scope') = Len(name_scope)
    <3>1. Top.node.value \in Name
      BY <1>3, <2>1, NodeFields DEF Named
    <3>2. name_scope \in Seq(VarTable) /\ name_scope # <<>>
      BY <1>1, BodyUnchanged, HandlerState
    <3> QED BY <2>1, <3>1, <3>2, AddVar
  <2>3. Owed(Top) = 1 /\ Left(Top) = 0
    BY <1>3, <2>1, Levels
  <2> QED BY <1>6, <2>1, <2>2, <2>3
<1>8. CASE compile_ASS
  <2>1. /\ Top.node.type = "ASS" /\ Top.stage = 3 /\ UNCHANGED ir_stack
        /\ name_scope' = name_scope /\ Visible(name_scope, Top.node.value)
        /\ Emit(<< new_unary("POP", variable_operand(name_scope, Top.node.value)) >>)
    BY <1>8 DEF compile_ASS, Handling, scoping
  <2>2. Owed(Top) = 1 /\ Left(Top) = 0
    BY <1>3, <2>1, Levels
  <2> QED BY <1>6, <2>1, <2>2
<1>9. CASE compile_VAR
  <2>1. /\ Top.node.type = "VAR" /\ Top.stage = 3 /\ UNCHANGED ir_stack
        /\ name_scope' = name_scope /\ Visible(name_scope, Top.node.value)
        /\ Emit(<< new_unary("PUSH", variable_operand(name_scope, Top.node.value)) >>)
    BY <1>9 DEF compile_VAR, Handling, scoping
  <2>2. Owed(Top) = 0 /\ Left(Top) = 1
    BY <1>3, <2>1, Levels
  <2> QED BY <1>6, <2>1, <2>2
<1>10. CASE compile_CONST
  <2>1. /\ Top.node.type = "CONST" /\ Top.stage = 3 /\ UNCHANGED ir_stack
        /\ Emit(<< new_binary("MOV", operand_reg("RAX"), operand_imm(to_fixed(Top.node.num))),
                   new_push_reg("RAX") >>)
    BY <1>10 DEF compile_CONST, Handling
  <2>2. PICK s \in ir_operand : s = operand_imm(to_fixed(Top.node.num))
    <3>1. Top.node.num \in Number
      BY <1>3, <2>1, NodeFields
    <3>2. to_fixed(Top.node.num) \in Int
      BY <3>1 DEF to_fixed, Number
    <3> QED BY <3>2, OperandTypes
  <2>3. PICK load, push : load = new_binary("MOV", operand_reg("RAX"), s) /\ push = new_push_reg("RAX")
    OBVIOUS
  <2>4. load \in DataNode /\ push \in DataNode
    BY <1>4, <2>2, <2>3, DataNodes
  <2>5. << load, push >> \in Seq(IrNode)
        /\ \A j \in 1..Len(<< load, push >>) : << load, push >>[j].operation # "JMP"
    BY <2>4 DEF DataNode
  <2>6. Climbs(<< load, push >>, place, h, h + 1)
    BY <1>2, <2>2, <2>3, ConstantClimbs
  <2>7. h + Owed(Top) = h /\ h + Left(Top) = h + 1
    <3>1. Owed(Top) = 0 /\ Left(Top) = 1
      BY <1>3, <2>1, Levels
    <3> QED BY <1>2, <3>1
  <2> QED BY <1>5, <2>1, <2>2, <2>3, <2>5, <2>6, <2>7
<1>11. CASE compile_OP_dividend
  <2>1. /\ Top.node.type = "OP" /\ Top.stage = 1 /\ Top.node.value = "DIV" /\ UNCHANGED ir_stack
        /\ Emit(<< new_pop_reg("RAX"), new_binary("MUL", operand_reg("RAX"), operand_imm(1000)),
                   new_push_reg("RAX") >>)
    BY <1>11 DEF compile_OP_dividend, Handling
  <2>2. PICK s \in ir_operand : s = operand_imm(1000)
    BY OperandTypes
  <2>3. PICK pop, scale, push :
          /\ pop = new_pop_reg("RAX") /\ scale = new_binary("MUL", operand_reg("RAX"), s)
          /\ push = new_push_reg("RAX")
    OBVIOUS
  <2>4. pop \in DataNode /\ scale \in DataNode /\ push \in DataNode
    BY <1>4, <2>2, <2>3, DataNodes
  <2>5. << pop, scale, push >> \in Seq(IrNode)
        /\ \A j \in 1..Len(<< pop, scale, push >>) : << pop, scale, push >>[j].operation # "JMP"
    BY <2>4 DEF DataNode
  <2>6. Climbs(<< pop, scale, push >>, place, h + 1, h + 1)
    <3>1. Climbs(<< new_pop_reg("RAX"), new_binary("MUL", operand_reg("RAX"), s),
                    new_push_reg("RAX") >>, place, h + 1, h + 1)
      <4>1. h \in Nat /\ place \in {"entry", "body"} /\ s \in ir_operand
        BY <1>2, <2>2
      <4> QED BY ONLY <4>1, ConstantClimbs, Zenon
    <3> QED BY <2>3, <3>1
  <2>7. h + Owed(Top) = h + 1 /\ h + Left(Top) = h + 1
    <3>1. Owed(Top) = 1 /\ Left(Top) = 1
      BY <1>3, <2>1, Levels
    <3> QED BY <1>2, <3>1
  <2>8. PICK nodes : nodes = << pop, scale, push >>
    OBVIOUS
  <2>9. Emit(nodes)
    BY <2>1, <2>2, <2>3, <2>8
  <2> QED BY <1>5, <2>1, <2>5, <2>6, <2>7, <2>8, <2>9
<1>12. CASE compile_OP
  <2>1. PICK op : op = Top.node.value
    OBVIOUS
  <2>2. /\ Top.node.type = "OP" /\ Top.stage = 3 /\ UNCHANGED ir_stack
        /\ Emit(IF op \in {"NOT", "NEG"} THEN unary_code(op) ELSE binary_code(op))
    BY <1>12, <2>1 DEF compile_OP, Handling
  <2>3. PICK nodes : nodes = IF op \in {"NOT", "NEG"} THEN unary_code(op) ELSE binary_code(op)
    OBVIOUS
  <2>4. op \in op_type
    BY <1>3, <2>1, <2>2, NodeFields
  <2>5. nodes \in Seq(DataNode)
    BY <2>3, <2>4, DataCode
  <2>6. nodes \in Seq(IrNode) /\ \A j \in 1..Len(nodes) : nodes[j].operation # "JMP"
    BY <2>5 DEF DataNode
  <2>7. Climbs(nodes, place, IF op \in {"NOT", "NEG"} THEN h + 1 ELSE h + 2, h + 1)
    BY <1>2, <2>3, <2>4, OperatorClimbs
  <2>8. h + Owed(Top) = (IF op \in {"NOT", "NEG"} THEN h + 1 ELSE h + 2) /\ h + Left(Top) = h + 1
    <3>1. Owed(Top) = (IF op \in {"NOT", "NEG"} THEN 1 ELSE 2) /\ Left(Top) = 1
      BY <1>3, <2>1, <2>2, Levels
    <3> QED BY <1>2, <3>1
  <2> QED BY <1>5, <2>2, <2>3, <2>6, <2>7, <2>8
<1>13. CASE compile_CALL
  <2>1. PICK args \in Nat : args = ChainOf(Top.node.right)
    BY <1>3, NodeFields
  <2>2. PICK target \in Nat : target = func_array_find_func(Top.node.value).ir_list_head
    <3>1. functions \in Seq(Function)
      BY DEF IInv, TypeOK
    <3>2. PICK k \in 1..Len(functions) : func_array_find_func(Top.node.value) = functions[k]
      BY <1>13, <3>1, FunctionFound DEF compile_CALL
    <3>3. functions[k] \in Function
      BY <3>1
    <3> QED BY <3>2, <3>3 DEF Function
  <2>3. /\ Top.node.type = "CALL" /\ Top.stage = 3 /\ UNCHANGED ir_stack
        /\ Emit(<< new_call(target) >> \o free_arguments(args) \o << new_push_reg("RAX") >>)
    BY <1>13, <2>1, <2>2 DEF compile_CALL, Handling
  <2>4. PICK call, frees, push :
          call = new_call(target) /\ frees = free_arguments(args) /\ push = new_push_reg("RAX")
    OBVIOUS
  <2>5. PICK nodes : nodes = << call >> \o frees \o << push >>
    OBVIOUS
  <2>6. /\ call \in IrNode /\ call.operation = "CALL" /\ push \in IrNode /\ push.operation = "PUSH"
        /\ frees \in Seq(IrNode) /\ \A j \in 1..Len(frees) : frees[j].operation = "ADD"
    <3>1. call \in IrNode /\ push \in IrNode
      BY <1>4, <2>4, InstructionTypes
    <3>2. call.operation = "CALL" /\ push.operation = "PUSH"
      BY <2>4 DEF new_call, new_push_reg, new_unary, new_binary, instruction
    <3>3. PICK free : free = new_binary("ADD", operand_reg("RSP"), operand_imm(SLOT * args))
      OBVIOUS
    <3>4. free \in IrNode /\ free.operation = "ADD"
      <4>1. SLOT * args \in Int
        BY DEF SLOT
      <4>2. operand_imm(SLOT * args) \in ir_operand /\ operand_reg("RSP") \in ir_operand
        BY <4>1, OperandTypes DEF ir_reg
      <4>3. free \in IrNode
        BY <3>3, <4>2, InstructionTypes DEF ir_op
      <4> QED BY <3>3, <4>3 DEF new_binary, instruction
    <3>5. frees = IF args > 0 THEN << free >> ELSE <<>>
      BY <2>4, <3>3 DEF free_arguments
    <3> QED BY <3>1, <3>2, <3>4, <3>5
  <2>7. nodes \in Seq(IrNode) /\ \A j \in 1..Len(nodes) : nodes[j].operation # "JMP"
    <3>1. PICK front : front = << call >> \o frees
      OBVIOUS
    <3>2. /\ front \in Seq(IrNode) /\ Len(front) = 1 + Len(frees)
          /\ front[1] = call /\ \A j \in 1..Len(frees) : front[1 + j] = frees[j]
      BY <2>6, <3>1
    <3>3. \A j \in 1..Len(front) : front[j].operation # "JMP"
      <4>1. ASSUME NEW j \in 1..Len(front) PROVE front[j].operation # "JMP"
        <5>1. Len(frees) \in Nat
          BY <2>6
        <5>2. j = 1 \/ (j - 1 \in 1..Len(frees) /\ j = 1 + (j - 1))
          BY <3>2, <5>1
        <5> QED BY <2>6, <3>2, <5>2
      <4> QED BY <4>1
    <3>4. nodes = Append(front, push)
      <4>1. nodes = front \o << push >>
        BY <2>5, <3>1
      <4> QED BY <2>6, <3>2, <4>1
    <3> QED BY <2>6, <3>2, <3>3, <3>4
  <2>8. Climbs(nodes, place, h + args, h + 1)
    BY <1>2, <2>1, <2>2, <2>4, <2>5, CallClimbs
  <2>9. h + Owed(Top) = h + args /\ h + Left(Top) = h + 1
    <3>1. Owed(Top) = args /\ Left(Top) = 1
      BY <1>3, <2>1, <2>3, Levels
    <3> QED BY <1>2, <3>1
  <2> QED BY <1>5, <2>3, <2>4, <2>5, <2>7, <2>8, <2>9
<1>14. CASE compile_BLOCK_begin \/ compile_BLOCK_end \/ compile_NFUN_body
  <2>1. /\ UNCHANGED <<heap, list, ir_stack>>
        /\ Top.node.type \in {"BLOCK", "NFUN"}
    BY <1>14 DEF compile_BLOCK_begin, compile_BLOCK_end, compile_NFUN_body, Handling, code
  <2>2. Owed(Top) = Left(Top)
    BY <1>3, <2>1, Levels
  <2>3. ~ Discards /\ ~ Patching
    BY <1>4, <2>1
  <2> QED BY <1>1, <2>1, <2>2, <2>3, QuietShaped
<1>15. CASE compile_nothing
  <2>1. UNCHANGED <<heap, list, ir_stack>> /\ ~ Acts(Top.node, Top.stage)
    BY <1>15 DEF compile_nothing, code
  <2>2. Owed(Top) = Left(Top)
    BY <1>3, <2>1, NothingOwed
  <2>3. ~ Patching
    BY <1>3, <2>1 DEF Patching, Acts
  <2>4. ~ Discards
    <3>1. ASSUME Discards PROVE FALSE
      <4>1. Top.node.type = "SEQ" /\ Top.stage = 3 /\ TypeOf(Top.node.right) = "CALL"
        BY <1>3, <2>1, <3>1 DEF Discards, CallCompiled, Acts
      <4> QED BY <1>3, <4>1, NodeFields DEF RightChild, Expression
    <3> QED BY <3>1
  <2> QED BY <1>1, <2>1, <2>2, <2>3, <2>4, QuietShaped
<1> QED BY <1>7, <1>8, <1>9, <1>10, <1>11, <1>12, <1>13, <1>14, <1>15 DEF Straight

\* Statements are compiled in functions, where nothing is on the stack.
LEMMA StatementLevels ==
  ASSUME IInv, CodeInv, BodyHandler, NEW under, Under(under),
         Top.node.type \in {"RET", "SEQ", "WHILE", "BRANCH"}
  PROVE  /\ Place = "body" /\ Top.node \in Node /\ Top.stage \in 0..3
         /\ under[Len(walk)] + Owed(Top) = Owed(Top)
         /\ under[Len(walk)] + Left(Top) = Left(Top)
<1>1. Top.node.type \notin ExpressionPart \cup {"NVAR"}
  BY DEF ExpressionPart, Expression
<1>2. under[Len(walk)] = 0 /\ Owed(Top) \in Nat /\ Left(Top) \in Nat
  BY <1>1, HandlerPlace
<1>3. PICK a \in Nat, b \in Nat, c \in Nat : a = under[Len(walk)] /\ b = Owed(Top) /\ c = Left(Top)
  BY <1>2
<1>4. a + b = b /\ a + c = c
  BY <1>2, <1>3
<1> QED BY <1>1, <1>3, <1>4, HandlerPlace

\* A tidy program has no loop whose condition or body is a bare call.
LEMMA NoLooseCall ==
  ASSUME IInv, walk # <<>>, Neat, Top.node.type = "WHILE"
  PROVE  TypeOf(Top.node.left) # "CALL" /\ TypeOf(Top.node.right) # "CALL"
<1>1. walk \in Seq(Frame) /\ Len(walk) \in 1..Len(walk) /\ Top = walk[Len(walk)]
  BY HandlerState DEF Top
<1>2. Top.node \in Node
  BY <1>1, TopTyped
<1>3. walk[1].node.type = "NFUN"
  <2>1. WalkShape
    BY DEF IInv
  <2>2. Top.node.type \notin ExpressionPart \cup {"NVAR"}
    BY DEF ExpressionPart, Expression
  <2> QED BY <1>1, <2>1, <2>2 DEF WalkShape
<1>4. Top.node \notin LooseTrees
  BY <1>1, <1>3 DEF Neat
<1>5. ~ LooseLoop[Top.node]
  BY <1>2, <1>4 DEF LooseTrees
<1> QED BY <1>2, <1>5, LooseAssumption

\* The value of a bare call is erased where it was pushed.
LEMMA TailErased ==
  ASSUME IInv, CodeInv, CallCompiled, NEW child, TypeOf(child) = "CALL"
  PROVE  /\ ir_tail \in 1..Len(heap)
         /\ Discarding(child)[ir_tail] = new_empty
         /\ \A target \in Nat :
              ir_stack # <<>> => Patch(Discarding(child), LastPending, target)[ir_tail] = new_empty
<1>1. heap \in Seq(IrNode) /\ list \in Seq(1..Len(heap)) /\ list # <<>>
      /\ ir_stack \in Seq(1..Len(heap))
  BY HandlerState DEF CallCompiled
<1>2. ir_tail \in 1..Len(heap)
  BY <1>1 DEF ir_tail
<1>3. PICK h : h = Discarding(child)
  OBVIOUS
<1>4. h = [heap EXCEPT ![ir_tail] = new_empty]
  BY <1>3 DEF Discarding
<1>5. h[ir_tail] = new_empty /\ h \in Seq(IrNode) /\ Len(h) = Len(heap)
  <2>1. h \in Seq(IrNode) /\ Len(h) = Len(heap)
    BY <1>1, <1>3, DiscardTyped
  <2>2. PICK tail : tail = ir_tail
    OBVIOUS
  <2>3. h = [heap EXCEPT ![tail] = new_empty] /\ tail \in 1..Len(heap)
    BY <1>2, <1>4, <2>2
  <2>4. h[tail] = new_empty
    BY <1>1, <2>3
  <2> QED BY <2>1, <2>2, <2>4
<1>6. ASSUME NEW target \in Nat, ir_stack # <<>>
      PROVE  Patch(h, LastPending, target)[ir_tail] = new_empty
  <2>1. Len(ir_stack) \in 1..Len(ir_stack) /\ LastPending \in 1..Len(heap)
    BY <1>1, <1>6 DEF LastPending
  <2>2. LastPending # ir_tail
    BY <2>1, EntryIsNoCall DEF CodeInv, LastPending
  <2>3. PICK tail, jump \in 1..Len(h) : tail = ir_tail /\ jump = LastPending
    BY <1>2, <1>5, <2>1
  <2>4. h[tail] = new_empty /\ tail \in 1..Len(h) /\ tail # jump
    BY <1>2, <1>5, <2>2, <2>3
  <2>5. \A id \in 1..Len(h) :
          Patch(h, jump, target)[id]
            = IF id = jump THEN [h[id] EXCEPT !.jump_target = target] ELSE h[id]
    <3>1. h \in Seq(IrNode) /\ jump \in 1..Len(h) /\ target \in Nat
      BY <1>5, <1>6, <2>3
    <3> QED BY ONLY <3>1, PatchValues
  <2>6. PICK after : after = Patch(h, jump, target)
    OBVIOUS
  <2>7. after[tail] = h[tail]
    BY <2>4, <2>5, <2>6
  <2> QED BY <2>3, <2>4, <2>6, <2>7
<1> QED BY <1>2, <1>3, <1>5, <1>6

\* compile_RET: the value is popped, and the jump to the epilogue needs no operand.
LEMMA ReturnShaped ==
  ASSUME IInv, IInv', CodeInv, RegionInv, CodeEnds, compile_RET,
         NEW sh, NEW under, Shaped(sh, under)
  PROVE  \E more \in Seq(Shape), later \in Seq(Nat) : Shaped(more, later)'
<1>1. /\ BodyHandler /\ Under(under)
      /\ Top.node.type = "RET" /\ Top.stage = 3 /\ UNCHANGED ir_stack
      /\ Emit(<< new_pop_reg("RAX"), new_jmp("NONE", func_return) >>)
  BY DEF BodyHandler, Shaped, compile_RET, Handling, COMPILED_RIGHT
<1>2. /\ Place = "body"
      /\ under[Len(walk)] + Owed(Top) = 1
      /\ under[Len(walk)] + Left(Top) = 0
  <2>1. /\ Place = "body" /\ Top.node \in Node /\ Top.stage \in 0..3
        /\ under[Len(walk)] + Owed(Top) = Owed(Top)
        /\ under[Len(walk)] + Left(Top) = Left(Top)
    BY <1>1, StatementLevels
  <2>2. Owed(Top) = 1 /\ Left(Top) = 0
    BY <1>1, <2>1, Levels
  <2> QED BY <2>1, <2>2
<1>3. PICK pop, jump, nodes :
        /\ pop = new_pop_reg("RAX") /\ jump = new_jmp("NONE", func_return)
        /\ nodes = << pop, jump >>
  OBVIOUS
<1>4. pop \in IrNode /\ pop.operation = "POP" /\ jump \in IrNode /\ jump.jump_target = func_return
  <2>1. func_return \in Nat
    <3>1. func_return \in 0..Len(heap) /\ Len(heap) \in Nat
      BY <1>1, BodyUnchanged, HandlerState
    <3> QED BY <3>1
  <2>2. pop \in IrNode /\ jump \in IrNode
    BY <1>3, <2>1, InstructionTypes DEF ir_reg, ir_cond_flags
  <2> QED BY <1>3, <2>2 DEF new_pop_reg, new_unary, new_binary, new_jmp, instruction
<1>5. /\ nodes \in Seq(IrNode)
      /\ \A j \in 1..Len(nodes) : nodes[j].operation = "JMP" =>
           nodes[j].jump_target \in {NIL, func_return}
  BY <1>3, <1>4
<1>6. Emit(nodes)
  BY <1>1, <1>3
<1>7. Climbs(nodes, "body", 1, 0)
  <2>1. Climbs(<< new_pop_reg("RAX"), new_jmp("NONE", func_return) >>, "body", 1, 0)
    BY ReturnClimbs
  <2> QED BY <1>3, <2>1
<1>8. Climbs(nodes, Place, under[Len(walk)] + Owed(Top), under[Len(walk)] + Left(Top))
  BY <1>2, <1>7
<1> QED BY <1>1, <1>5, <1>6, <1>8, OrdinaryShaped

\* compile_SEQ: the push of a discarded call is erased.
LEMMA SequenceShaped ==
  ASSUME IInv, IInv', CodeInv, RegionInv, CodeEnds, compile_SEQ,
         NEW sh, NEW under, Shaped(sh, under)
  PROVE  \E more \in Seq(Shape), later \in Seq(Nat) : Shaped(more, later)'
<1>1. /\ BodyHandler /\ Under(under) /\ walk # <<>>
      /\ Top.node.type = "SEQ" /\ Top.stage = 1 /\ UNCHANGED ir_stack
      /\ EmitTo(Discarding(Top.node.left), <<>>)
  BY DEF BodyHandler, Shaped, compile_SEQ, Handling, COMPILED_LEFT
<1>2. /\ under[Len(walk)] + Owed(Top) = (IF TypeOf(Top.node.left) = "CALL" THEN 1 ELSE 0)
      /\ under[Len(walk)] + Left(Top) = 0
  <2>1. /\ Place = "body" /\ Top.node \in Node /\ Top.stage \in 0..3
        /\ under[Len(walk)] + Owed(Top) = Owed(Top)
        /\ under[Len(walk)] + Left(Top) = Left(Top)
    BY <1>1, StatementLevels
  <2>2. Owed(Top) = (IF TypeOf(Top.node.left) = "CALL" THEN 1 ELSE 0) /\ Left(Top) = 0
    BY <1>1, <2>1, Levels
  <2> QED BY <2>1, <2>2
<1>3. PICK h : h = Discarding(Top.node.left)
  OBVIOUS
<1>4. PICK nodes \in Seq(IrNode) : nodes = <<>>
  <2>1. <<>> \in Seq(IrNode)
    OBVIOUS
  <2> QED BY <2>1
<1>5. heap \in Seq(IrNode) /\ list \in Seq(1..Len(heap)) /\ list # <<>>
      /\ ir_stack \in Seq(1..Len(heap)) /\ Len(heap) \in Nat
  BY <1>1, HandlerState
<1>6. h \in Seq(IrNode) /\ Len(h) = Len(heap) /\ EmitTo(h, nodes)
  BY <1>1, <1>3, <1>4, <1>5, DiscardTyped
<1>7. Discards <=> TypeOf(Top.node.left) = "CALL"
  BY <1>1 DEF Discards, CallCompiled, COMPILED_LEFT, COMPILED_RIGHT
<1>8. Lowered(0, under[Len(walk)] + Owed(Top))
  <2>1. ASSUME Discards PROVE heap'[ir_tail] = new_empty
    <3>1. ir_tail \in 1..Len(heap) /\ h[ir_tail] = new_empty
      BY <1>3, <1>4, <1>7, <2>1, TailErased DEF Discards
    <3>2. \A id \in 1..Len(heap) : heap'[id] = h[id]
      BY <1>6, EmitsFresh
    <3> QED BY <3>1, <3>2
  <2> QED BY <1>2, <1>7, <2>1 DEF Lowered
<1>9. Climbs(nodes, Place, 0, under[Len(walk)] + Left(Top))
  <2>1. Climbs(<<>>, Place, 0, 0)
    BY ClimbNone
  <2> QED BY <1>2, <1>3, <1>4, <2>1
<1>10. \A e \in 1..Len(ir_stack') : ir_stack'[e] \notin Fresh
  BY <1>1, <1>5 DEF Fresh
<1>11. ~ Patching
  BY <1>1 DEF Patching
<1>12. \A j \in 1..Len(nodes) : FALSE
  BY <1>4
<1> QED BY <1>1, <1>6, <1>8, <1>9, <1>10, <1>11, <1>12, ClimbingShaped

\* A node that is waiting now was waiting before or is the one just pushed.
LEMMA PushedEntry ==
  ASSUME IInv, walk # <<>>, NEW id, id \in Fresh, ir_stack' = Append(ir_stack, id)
  PROVE  \A e \in 1..Len(ir_stack') : ir_stack'[e] \in Fresh => ir_stack'[e] = id
<1>1. ir_stack \in Seq(1..Len(heap)) /\ Len(heap) \in Nat /\ id \in Int
  BY HandlerState DEF Fresh
<1>2. ASSUME NEW e \in 1..Len(ir_stack'), ir_stack'[e] \in Fresh
      PROVE  ir_stack'[e] = id
  <2>1. PICK more : more = Append(ir_stack, id)
    OBVIOUS
  <2>2. e \in 1..(Len(ir_stack) + 1)
    BY <1>1, <1>2
  <2>3. e \in 1..Len(ir_stack) \/ e = Len(ir_stack) + 1
    BY <1>1, <2>2
  <2>4. CASE e \in 1..Len(ir_stack)
    <3>1. ir_stack'[e] = ir_stack[e] /\ ir_stack[e] \in 1..Len(heap)
      BY <1>1, <2>4
    <3> QED BY <1>1, <1>2, <3>1 DEF Fresh
  <2>5. CASE e = Len(ir_stack) + 1
    BY <1>1, <2>5
  <2> QED BY <2>3, <2>4, <2>5
<1> QED BY <1>2

\* What is left on ir_stack when entries are popped is old.
LEMMA PoppedEntries ==
  ASSUME IInv, walk # <<>>, NEW k \in 0..Len(ir_stack), ir_stack' = SubSeq(ir_stack, 1, k)
  PROVE  \A e \in 1..Len(ir_stack') : ir_stack'[e] \notin Fresh
<1>1. ir_stack \in Seq(1..Len(heap)) /\ Len(heap) \in Nat
  BY HandlerState
<1>2. Len(ir_stack') = k /\ \A e \in 1..k : ir_stack'[e] = ir_stack[e]
  BY <1>1, FrontOf
<1>3. \A e \in 1..k : ir_stack[e] \in 1..Len(heap)
  BY <1>1
<1> QED BY <1>1, <1>2, <1>3 DEF Fresh

\* The test jumps away when the value on top is zero, and has popped it.
LEMMA TestShaped ==
  ASSUME IInv, IInv', CodeInv, RegionInv, CodeEnds, BodyHandler,
         NEW sh, NEW under, Shaped(sh, under),
         Top.node.type \in {"WHILE", "BRANCH"}, ~ Patching, ~ Discards,
         Owed(Top) = 1, Left(Top) = 0, Emit(test_code),
         ir_stack' = Append(ir_stack, Len(heap) + 3)
  PROVE  \E more \in Seq(Shape), later \in Seq(Nat) : Shaped(more, later)'
<1>1. /\ Under(under) /\ walk # <<>> /\ Place = "body"
      /\ under[Len(walk)] + Owed(Top) = 1
      /\ under[Len(walk)] + Left(Top) = 0
  BY BodyUnchanged, StatementLevels DEF Shaped
<1>2. Lowered(1, under[Len(walk)] + Owed(Top))
  BY <1>1 DEF Lowered
<1>3. Climbs(test_code, Place, 1, under[Len(walk)] + Left(Top))
  BY <1>1, TestClimbs
<1>4. PICK nodes \in Seq(IrNode) : nodes = test_code
  BY TestCode
<1>5. /\ Len(nodes) = 3 /\ nodes[3] = new_jmp("EQUAL", NIL)
      /\ nodes[1].operation # "JMP" /\ nodes[2].operation # "JMP"
  BY <1>4, TestCode DEF DataNode
<1>6. \A j \in 1..Len(nodes) : nodes[j].operation = "JMP" =>
        nodes[j].jump_target \in {NIL, func_return}
  <2>1. nodes[3].jump_target = NIL
    BY <1>5 DEF new_jmp, instruction
  <2>2. \A j \in 1..Len(nodes) : j = 1 \/ j = 2 \/ j = 3
    BY <1>5
  <2> QED BY <1>5, <2>1, <2>2
<1>7. heap \in Seq(IrNode) /\ Len(heap) \in Nat /\ EmitTo(heap, nodes)
  BY <1>1, <1>4, HandlerState DEF Emit
<1>8. /\ Len(heap') = Len(heap) + 3
      /\ heap'[Len(heap) + 3] = new_jmp("EQUAL", NIL)
  <2>1. /\ Len(heap') = Len(heap) + Len(nodes)
        /\ \A i \in 1..Len(nodes) : heap'[Len(heap) + i] = nodes[i]
    BY <1>7, EmitsFresh
  <2>2. 3 \in 1..Len(nodes)
    BY <1>5
  <2> QED BY <1>5, <2>1, <2>2
<1>9. ASSUME NEW e \in 1..Len(ir_stack'), ir_stack'[e] \in Fresh
      PROVE  heap'[ir_stack'[e]] # new_empty
  <2>1. Len(heap) + 3 \in Fresh
    BY <1>7, <1>8 DEF Fresh
  <2>2. PICK id \in Fresh : id = Len(heap) + 3
    BY <2>1
  <2>3. ir_stack' = Append(ir_stack, id)
    BY <2>2
  <2>4. ir_stack'[e] = id
    BY <1>1, <1>9, <2>3, PushedEntry
  <2>5. new_jmp("EQUAL", NIL) # new_empty
    BY DEF new_jmp, new_empty, instruction
  <2> QED BY <1>8, <2>2, <2>4, <2>5
<1>10. Climbs(nodes, Place, 1, under[Len(walk)] + Left(Top))
  BY <1>3, <1>4
<1> QED BY <1>2, <1>6, <1>7, <1>9, <1>10, ClimbingShaped

\* compile_WHILE before and behind the condition.
LEMMA LoopBeginShaped ==
  ASSUME IInv, IInv', CodeInv, RegionInv, CodeEnds, compile_WHILE_start \/ compile_WHILE_test,
         NEW sh, NEW under, Shaped(sh, under)
  PROVE  \E more \in Seq(Shape), later \in Seq(Nat) : Shaped(more, later)'
<1> USE DEF COMPILING_LEFT, COMPILED_LEFT, COMPILING_RIGHT, COMPILED_RIGHT
<1>1. /\ BodyHandler /\ Under(under) /\ walk # <<>> /\ Neat
      /\ Top.node.type = "WHILE" /\ Top.stage \in {0, 1}
  BY DEF BodyHandler, Shaped, compile_WHILE_start, compile_WHILE_test, Handling
<1>2. /\ Place = "body" /\ Top.node \in Node /\ Top.stage \in 0..3
      /\ under[Len(walk)] + Owed(Top) = Owed(Top)
      /\ under[Len(walk)] + Left(Top) = Left(Top)
  BY <1>1, StatementLevels
<1>3. TypeOf(Top.node.left) # "CALL"
  BY <1>1, NoLooseCall
<1>4. ~ Patching /\ ~ Discards
  BY <1>1, <1>3 DEF Patching, Discards, CallCompiled
<1>5. CASE compile_WHILE_start
  <2>1. /\ Top.stage = 0 /\ Emit(<< new_empty >>)
        /\ ir_stack' = Append(ir_stack, Len(heap) + 1)
    BY <1>5 DEF compile_WHILE_start, Handling
  <2>2. Owed(Top) = 0 /\ Left(Top) = 0
    BY <1>1, <1>2, <2>1, Levels
  <2>3. PICK nodes \in Seq(IrNode) : nodes = << new_empty >>
    <3>1. << new_empty >> \in Seq(IrNode)
      BY InstructionTypes
    <3> QED BY <3>1
  <2>4. Len(nodes) = 1 /\ nodes[1] = new_empty
    BY <2>3
  <2>5. Climbs(nodes, "body", 0, 0)
    <3>1. shape("body", 0) \in Shape
      BY DEF shape, Shape
    <3>2. ~ SetsRbp(new_empty) /\ Flows(new_empty, shape("body", 0), shape("body", 0))
      BY <3>1, NoOperandFlows
    <3> QED BY <2>3, <3>2, ClimbOne
  <2>6. heap \in Seq(IrNode) /\ Len(heap) \in Nat /\ EmitTo(heap, nodes)
    BY <1>1, <2>1, <2>3, HandlerState DEF Emit
  <2>7. Len(heap') = Len(heap) + 1
    BY <2>4, <2>6, EmitsFresh
  <2>8. PICK id \in Fresh : id = Len(heap) + 1
    BY <2>6, <2>7 DEF Fresh
  <2>9. \A e \in 1..Len(ir_stack') : ir_stack'[e] \in Fresh => ir_stack'[e] = Len(heap) + 1
    <3>1. ir_stack' = Append(ir_stack, id)
      BY <2>1, <2>8
    <3> QED BY <1>1, <2>8, <3>1, PushedEntry
  <2>10. \A j \in 1..Len(nodes) : nodes[j].operation # "JMP"
    BY <2>4 DEF new_empty, instruction
  <2>11. Lowered(0, under[Len(walk)] + Owed(Top))
    BY <1>2, <1>4, <2>2 DEF Lowered
  <2>12. Climbs(nodes, Place, 0, under[Len(walk)] + Left(Top))
    BY <1>2, <2>2, <2>5
  <2>13. nodes # <<>>
    BY <2>3
  <2> QED BY <1>1, <1>2, <1>4, <2>6, <2>9, <2>10, <2>11, <2>12, <2>13, ClimbingShaped
<1>6. CASE compile_WHILE_test
  <2>1. /\ Top.stage = 1 /\ EmitTo(Discarding(Top.node.left), test_code)
        /\ ir_stack' = Append(ir_stack, Len(heap) + 3)
    BY <1>6 DEF compile_WHILE_test, Handling
  <2>2. Emit(test_code)
    BY <1>3, <2>1 DEF Discarding, Emit
  <2>3. Owed(Top) = 1 /\ Left(Top) = 0
    BY <1>1, <1>2, <2>1, Levels
  <2> QED BY <1>1, <1>4, <2>1, <2>2, <2>3, TestShaped
<1> QED BY <1>5, <1>6

\* compile_BRANCH before the first branch.
LEMMA BranchTestShaped ==
  ASSUME IInv, IInv', CodeInv, RegionInv, CodeEnds, compile_BRANCH_test,
         NEW sh, NEW under, Shaped(sh, under)
  PROVE  \E more \in Seq(Shape), later \in Seq(Nat) : Shaped(more, later)'
<1> USE DEF COMPILING_LEFT, COMPILED_LEFT, COMPILING_RIGHT, COMPILED_RIGHT
<1>1. /\ BodyHandler /\ Under(under)
      /\ Top.node.type = "BRANCH" /\ Top.stage = 0 /\ Emit(test_code)
      /\ ir_stack' = Append(ir_stack, Len(heap) + 3)
  BY DEF BodyHandler, Shaped, compile_BRANCH_test, Handling
<1>2. Top.node \in Node /\ Top.stage \in 0..3
  BY <1>1, StatementLevels
<1>3. ~ Patching /\ ~ Discards
  BY <1>1 DEF Patching, Discards, CallCompiled
<1>4. Owed(Top) = 1 /\ Left(Top) = 0
  BY <1>1, <1>2, Levels
<1> QED BY <1>1, <1>3, <1>4, TestShaped

\* compile_BRANCH at its end.
LEMMA BranchEndShaped ==
  ASSUME IInv, IInv', CodeInv, RegionInv, CodeEnds, compile_BRANCH_end,
         NEW sh, NEW under, Shaped(sh, under)
  PROVE  \E more \in Seq(Shape), later \in Seq(Nat) : Shaped(more, later)'
<1> USE DEF COMPILING_LEFT, COMPILED_LEFT, COMPILING_RIGHT, COMPILED_RIGHT
<1>1. /\ BodyHandler /\ Under(under) /\ walk # <<>>
      /\ Top.node.type = "BRANCH" /\ Top.stage = 3
      /\ EmitTo(Patch(Discarding(Top.node.right), LastPending, Len(heap) + 1), << new_empty >>)
      /\ ir_stack' = SubSeq(ir_stack, 1, Len(ir_stack) - 1)
  BY DEF BodyHandler, Shaped, compile_BRANCH_end, Handling
<1>2. /\ Place = "body"
      /\ under[Len(walk)] + Owed(Top) = (IF TypeOf(Top.node.right) = "CALL" THEN 1 ELSE 0)
      /\ under[Len(walk)] + Left(Top) = 0
  <2>1. /\ Place = "body" /\ Top.node \in Node /\ Top.stage \in 0..3
        /\ under[Len(walk)] + Owed(Top) = Owed(Top)
        /\ under[Len(walk)] + Left(Top) = Left(Top)
    BY <1>1, StatementLevels
  <2>2. Owed(Top) = (IF TypeOf(Top.node.right) = "CALL" THEN 1 ELSE 0) /\ Left(Top) = 0
    BY <1>1, <2>1, Levels
  <2> QED BY <2>1, <2>2
<1>3. Patching /\ (Discards <=> TypeOf(Top.node.right) = "CALL")
  BY <1>1 DEF Patching, Discards, CallCompiled
<1>4. /\ heap \in Seq(IrNode) /\ Len(heap) \in Nat
      /\ Len(ir_stack) \in 1..Len(ir_stack) /\ LastPending \in 1..Len(heap)
      /\ ir_stack \in Seq(1..Len(heap)) /\ ir_stack # <<>>
  <2>1. heap \in Seq(IrNode) /\ Len(heap) \in Nat /\ ir_stack \in Seq(1..Len(heap))
    BY <1>1, HandlerState
  <2>2. Len(ir_stack) \in 1..Len(ir_stack) /\ LastPending \in 1..Len(heap)
    BY <1>1, <1>3, PatchedNode
  <2> QED BY <2>1, <2>2
<1>5. PICK target \in Nat : target = Len(heap) + 1
  BY <1>4
<1>6. PICK d, h : d = Discarding(Top.node.right) /\ h = Patch(d, LastPending, target)
  OBVIOUS
<1>7. /\ d \in Seq(IrNode) /\ Len(d) = Len(heap)
      /\ h \in Seq(IrNode) /\ Len(h) = Len(heap)
      /\ h[LastPending].jump_target = target
  <2>1. list \in Seq(1..Len(heap)) /\ list # <<>>
    BY <1>1, HandlerState
  <2>2. d \in Seq(IrNode) /\ Len(d) = Len(heap)
    BY <1>4, <1>6, <2>1, DiscardTyped
  <2>3. PICK jump \in 1..Len(d) : jump = LastPending
    BY <1>4, <2>2
  <2>4. h \in Seq(IrNode) /\ Len(h) = Len(d)
    BY <1>6, <2>2, <2>3, PatchTyped
  <2>5. h = [d EXCEPT ![jump].jump_target = target]
    BY <1>6, <2>3 DEF Patch
  <2>6. d[jump] \in IrNode
    BY <2>2
  <2>7. h[jump] = [d[jump] EXCEPT !.jump_target = target]
    BY <2>2, <2>5
  <2>8. h[jump].jump_target = target
    BY <2>6, <2>7 DEF IrNode
  <2> QED BY <2>2, <2>3, <2>4, <2>8
<1>8. PICK nodes \in Seq(IrNode) : nodes = << new_empty >>
  <2>1. << new_empty >> \in Seq(IrNode)
    BY InstructionTypes
  <2> QED BY <2>1
<1>9. Len(nodes) = 1 /\ nodes[1] = new_empty /\ nodes # <<>>
  BY <1>8
<1>10. EmitTo(h, nodes)
  BY <1>1, <1>5, <1>6, <1>8
<1>11. \A id \in 1..Len(heap) : heap'[id] = h[id]
  BY <1>7, <1>10, EmitsFresh
<1>12. heap'[LastPending].jump_target = Len(heap) + 1
  BY <1>4, <1>5, <1>7, <1>11
<1>13. Lowered(0, under[Len(walk)] + Owed(Top))
  <2>1. ASSUME Discards PROVE heap'[ir_tail] = new_empty
    <3>1. ir_tail \in 1..Len(heap) /\ h[ir_tail] = new_empty
      BY <1>3, <1>4, <1>6, <2>1, TailErased DEF Discards
    <3> QED BY <1>11, <3>1
  <2> QED BY <1>2, <1>3, <2>1 DEF Lowered
<1>14. Climbs(nodes, Place, 0, under[Len(walk)] + Left(Top))
  <2>1. shape("body", 0) \in Shape
    BY DEF shape, Shape
  <2>2. ~ SetsRbp(new_empty) /\ Flows(new_empty, shape("body", 0), shape("body", 0))
    BY <2>1, NoOperandFlows
  <2>3. Climbs(nodes, "body", 0, 0)
    BY <1>8, <2>2, ClimbOne
  <2> QED BY <1>2, <2>3
<1>15. \A e \in 1..Len(ir_stack') : ir_stack'[e] \notin Fresh
  <2>1. Len(ir_stack) \in Nat /\ Len(ir_stack) >= 1
    BY <1>4
  <2>2. PICK k \in 0..Len(ir_stack) : k = Len(ir_stack) - 1
    <3>1. Len(ir_stack) - 1 \in 0..Len(ir_stack)
      BY <2>1
    <3> QED BY <3>1
  <2> QED BY <1>1, <2>2, PoppedEntries
<1>16. \A j \in 1..Len(nodes) : nodes[j].operation # "JMP"
  BY <1>9 DEF new_empty, instruction
<1>17. \A j \in 1..Len(nodes) : nodes[j].operation = "JMP" =>
         nodes[j].jump_target \in {NIL, func_return}
  BY <1>16
<1>18. /\ heap'[LastPending].jump_target = Len(heap) + 1
       /\ Place = "body" /\ 0 = 0 /\ nodes # <<>>
  BY <1>2, <1>9, <1>12
<1> QED BY <1>1, <1>7, <1>10, <1>13, <1>14, <1>15, <1>17, <1>18, ClimbingShaped

\* The end of a loop, or of the first half of a branch: a jump, and behind it
\* the empty node that the test jumps to, which was allocated first.
LEMMA SwappedShaped ==
  ASSUME IInv, IInv', CodeInv, RegionInv, CodeEnds, BodyHandler,
         NEW sh, NEW under, Shaped(sh, under), Place = "body",
         under[Len(walk)] + Left(Top) = 0, Lowered(0, under[Len(walk)] + Owed(Top)),
         NEW h \in Seq(IrNode), Len(h) = Len(heap), NEW back \in Nat,
         heap' = h \o << new_empty, new_jmp("NONE", back) >>,
         list' = list \o << Len(heap) + 2, Len(heap) + 1 >>,
         back # NIL => back \in 1..Len(heap) /\ sh[back] = Idle,
         heap'[LastPending].jump_target = Len(heap) + 1,
         \A e \in 1..Len(ir_stack') : ir_stack'[e] \in Fresh => heap'[ir_stack'[e]] # new_empty
  PROVE  \E more \in Seq(Shape), later \in Seq(Nat) : Shaped(more, later)'
<1>1. /\ sh \in Seq(Shape) /\ Len(sh) = Len(heap) /\ walk # <<>>
      /\ Len(heap) \in Nat /\ Len(list) \in Nat /\ list \in Seq(1..Len(heap))
  BY BodyUnchanged, HandlerState DEF Shaped
<1>2. PICK n \in Nat, m \in Nat : n = Len(heap) /\ m = Len(list)
  BY <1>1
<1>3. PICK jump : jump = new_jmp("NONE", back)
  OBVIOUS
<1>4. Idle = shape("body", 0) /\ Idle \in Shape
  BY DEF Idle, shape, Shape
<1>5. PICK nodes \in Seq(IrNode) : nodes = << new_empty, jump >>
  <2>1. jump \in IrNode /\ new_empty \in IrNode
    BY <1>2, <1>3, InstructionTypes DEF ir_cond_flags
  <2>2. << new_empty, jump >> \in Seq(IrNode)
    BY <2>1
  <2> QED BY <2>2
<1>6. /\ Len(heap') = n + 2
      /\ heap'[n + 1] = new_empty /\ heap'[n + 2] = jump
      /\ \A id : id \in Fresh <=> id = n + 1 \/ id = n + 2
  <2>1. Len(nodes) = 2 /\ nodes[1] = new_empty /\ nodes[2] = jump
    BY <1>5
  <2>2. heap' = h \o nodes /\ list' = list \o << Len(heap) + 2, Len(heap) + 1 >>
    BY <1>2, <1>3, <1>5
  <2> QED BY <1>2, <1>3, <2>1, <2>2, SwappedFresh
<1>7. Len(list') = m + 2 /\ list'[m + 1] = n + 2 /\ list'[m + 2] = n + 1
  <2>1. PICK a \in Nat, b \in Nat : a = n + 2 /\ b = n + 1
    BY <1>2, <1>3
  <2>2. PICK links \in Seq(Nat) : links = << a, b >>
    <3>1. << a, b >> \in Seq(Nat)
      OBVIOUS
    <3> QED BY <3>1
  <2>3. Len(links) = 2 /\ links[1] = a /\ links[2] = b
    BY <2>2
  <2>4. list \in Seq(Nat)
    BY <1>1
  <2>5. list' = list \o links
    BY <1>2, <1>3, <2>1, <2>2
  <2> QED BY <1>2, <1>3, <2>1, <2>3, <2>4, <2>5
<1>8. PICK more : more = sh \o << Idle, Idle >>
  OBVIOUS
<1>9. /\ more \in Seq(Shape) /\ Len(more) = n + 2
      /\ \A id \in 1..n : more[id] = sh[id]
      /\ more[n + 1] = Idle /\ more[n + 2] = Idle
  <2>1. PICK set : set = Shape
    OBVIOUS
  <2>2. PICK tail \in Seq(set) : tail = << Idle, Idle >>
    <3>1. << Idle, Idle >> \in Seq(set)
      BY <1>4, <2>1
    <3> QED BY <3>1
  <2>3. Len(tail) = 2 /\ tail[1] = Idle /\ tail[2] = Idle /\ sh \in Seq(set) /\ Len(sh) = n
    BY <1>1, <1>2, <1>3, <2>1, <2>2
  <2>4. /\ sh \o tail \in Seq(set) /\ Len(sh \o tail) = Len(sh) + Len(tail)
        /\ \A i \in 1..Len(sh) : (sh \o tail)[i] = sh[i]
        /\ \A i \in 1..Len(tail) : (sh \o tail)[Len(sh) + i] = tail[i]
    BY ONLY <2>2, <2>3, Behind
  <2>5. more = sh \o tail
    BY <1>8, <2>2
  <2>6. 1 \in 1..Len(tail) /\ 2 \in 1..Len(tail)
    BY <2>3
  <2> QED BY <1>2, <1>3, <2>1, <2>3, <2>4, <2>5, <2>6
<1>10. Extends(sh, more)
  BY <1>2, <1>3, <1>6, <1>9 DEF Extends
<1>11. /\ Flows(jump, Idle, Idle) /\ ~ SetsRbp(jump)
       /\ Flows(new_empty, Idle, Idle) /\ ~ SetsRbp(new_empty)
  BY <1>2, <1>3, <1>4, NoOperandFlows
<1>12. FreshFlows(more, 0, 0)
  <2>1. ASSUME NEW i \in (m + 1)..(m + 2)
        PROVE  /\ Flows(At(i)', more[list'[i]],
                        IF i < m + 2 THEN more[list'[i + 1]] ELSE shape(Place, 0))
               /\ ~ SetsRbp(At(i)')
               /\ more[list'[i]].place = Place
    <3>1. i = m + 1 \/ i = m + 2
      <4>1. i \in Int /\ m + 1 <= i /\ i <= m + 2 /\ m \in Nat
        BY <1>2, <1>3
      <4> QED BY ONLY <4>1
    <3>2. Idle.place = Place /\ shape(Place, 0) = Idle
      BY <1>4 DEF shape
    <3>3. CASE i = m + 1
      <4>1. At(i)' = jump /\ more[list'[i]] = Idle
        BY <1>6, <1>7, <1>9, <3>3 DEF At
      <4>2. i < m + 2 /\ more[list'[i + 1]] = Idle
        <5>1. i + 1 = m + 2 /\ i < m + 2
          BY <1>2, <1>3, <3>3
        <5> QED BY <1>7, <1>9, <5>1
      <4> QED BY <1>11, <3>2, <4>1, <4>2
    <3>4. CASE i = m + 2
      <4>1. At(i)' = new_empty /\ more[list'[i]] = Idle
        BY <1>6, <1>7, <1>9, <3>4 DEF At
      <4>2. ~ (i < m + 2)
        BY <1>2, <1>3, <3>4
      <4> QED BY <1>11, <3>2, <4>1, <4>2
    <3> QED BY <3>1, <3>3, <3>4
  <2>2. more[list'[m + 1]] = shape(Place, 0) /\ m + 2 # m
    BY <1>2, <1>3, <1>4, <1>7, <1>9
  <2>3. m \in Nat /\ Len(list) = m /\ Len(list') = m + 2
    BY <1>2, <1>7
  <2>4. \A i \in (Len(list) + 1)..Len(list') :
          /\ Flows(At(i)', more[list'[i]],
                   IF i < Len(list') THEN more[list'[i + 1]] ELSE shape(Place, 0))
          /\ ~ SetsRbp(At(i)')
          /\ more[list'[i]].place = Place
    BY ONLY <2>1, <2>3
  <2>5. more[list'[Len(list) + 1]] = shape(Place, 0)
    BY ONLY <2>2, <2>3
  <2> QED BY ONLY <2>4, <2>5 DEF FreshFlows
<1>13. FreshAims(more)
  <2>1. ASSUME NEW id \in Fresh, heap'[id].operation = "JMP", heap'[id].jump_target # NIL
        PROVE  heap'[id].jump_target \in 1..Len(heap') /\ more[heap'[id].jump_target] = Idle
    <3>1. new_empty.operation # "JMP" /\ jump.jump_target = back
      BY <1>2, <1>3 DEF new_empty, new_jmp, instruction
    <3>2. heap'[id] = jump
      BY <1>6, <2>1, <3>1
    <3>3. back \in 1..n /\ sh[back] = Idle
      BY <1>2, <1>3, <2>1, <3>1, <3>2
    <3>4. back \in 1..(n + 2)
      BY <1>2, <1>3, <3>3
    <3> QED BY <1>6, <1>9, <3>1, <3>2, <3>3, <3>4
  <2>2. heap'[LastPending].jump_target \in 1..Len(heap') /\ more[heap'[LastPending].jump_target] = Idle
    <3>1. n + 1 \in 1..(n + 2)
      BY <1>2, <1>3
    <3> QED BY <1>2, <1>3, <1>6, <1>9, <3>1
  <2> QED BY <2>1, <2>2 DEF FreshAims
<1>14. FreshFlows(more, 0, under[Len(walk)] + Left(Top))
  BY <1>12
<1>15. \E later \in Seq(Nat) : Shaped(more, later)'
  BY <1>10, <1>13, <1>14, ShapedNext
<1> QED BY <1>9, <1>15

\* compile_WHILE at its end: the jump back leads to where the loop began.
LEMMA LoopEndShaped ==
  ASSUME IInv, IInv', CodeInv, RegionInv, CodeEnds, compile_WHILE_end,
         NEW sh, NEW under, Shaped(sh, under)
  PROVE  \E more \in Seq(Shape), later \in Seq(Nat) : Shaped(more, later)'
<1> USE DEF COMPILING_LEFT, COMPILED_LEFT, COMPILING_RIGHT, COMPILED_RIGHT
<1>1. PICK n, e, start : n = Len(heap) /\ e = Len(ir_stack) /\ start = ir_stack[e - 1]
  OBVIOUS
<1>2. /\ BodyHandler /\ Under(under) /\ walk # <<>> /\ Neat /\ Aimed(sh)
      /\ Top.node.type = "WHILE" /\ Top.stage = 3
      /\ heap' = Patch(heap, LastPending, n + 1) \o << new_empty, new_jmp("NONE", start) >>
      /\ list' = list \o << (n + 1) + 1, n + 1 >>
      /\ ir_stack' = SubSeq(ir_stack, 1, e - 2)
  BY <1>1 DEF BodyHandler, Shaped, compile_WHILE_end, Handling
<1>3. Top \in Frame /\ n \in Nat /\ ir_stack \in Seq(1..n) /\ e \in Nat /\ heap \in Seq(IrNode)
  BY <1>1, <1>2, TopState, HandlerState
<1>4. /\ Base(walk, Len(walk)) \in Nat /\ e = Base(walk, Len(walk)) + 2
      /\ Awaits("start", heap[ir_stack[Base(walk, Len(walk)) + 1]])
  <2>1. Pending(Top) = << "start", "exit" >>
    BY <1>2, <1>3, PendingCases
  <2>2. Len(Pending(Top)) = 2 /\ Pending(Top)[1] = "start" /\ 1 \in 1..Len(Pending(Top))
    BY <2>1
  <2> QED BY <1>1, <1>2, <2>2, TopState
<1>5. /\ e >= 2 /\ e - 1 \in 1..e /\ e \in 1..e
      /\ heap[start] = new_empty /\ start \in 1..n /\ LastPending \in 1..n
  <2>1. e >= 2 /\ e - 1 \in 1..e /\ e - 1 = Base(walk, Len(walk)) + 1 /\ e \in 1..e
    BY <1>3, <1>4
  <2>2. heap[start] = new_empty
    BY <1>1, <1>4, <2>1 DEF Awaits
  <2>3. start \in 1..n /\ LastPending \in 1..n
    BY <1>1, <1>3, <2>1 DEF LastPending
  <2> QED BY <2>1, <2>2, <2>3
<1>6. sh[start] = Idle
  <2>1. e - 1 \in 1..Len(ir_stack) /\ heap[ir_stack[e - 1]] = new_empty
    BY <1>1, <1>5
  <2> QED BY <1>1, <1>2, <2>1 DEF Aimed
<1>7. /\ Place = "body" /\ under[Len(walk)] + Left(Top) = 0 /\ under[Len(walk)] + Owed(Top) = 0
  <2>1. /\ Place = "body" /\ Top.node \in Node /\ Top.stage \in 0..3
        /\ under[Len(walk)] + Owed(Top) = Owed(Top)
        /\ under[Len(walk)] + Left(Top) = Left(Top)
    BY <1>2, StatementLevels
  <2>2. TypeOf(Top.node.right) # "CALL"
    BY <1>2, NoLooseCall
  <2>3. Owed(Top) = 0 /\ Left(Top) = 0
    BY <1>2, <2>1, <2>2, Levels
  <2> QED BY <2>1, <2>3
<1>8. Lowered(0, under[Len(walk)] + Owed(Top))
  <2>1. ~ Discards
    BY <1>2, NoLooseCall DEF Discards, CallCompiled
  <2> QED BY <1>7, <2>1 DEF Lowered
<1>9. PICK target \in Nat, back \in Nat, jump \in 1..Len(heap) :
        target = n + 1 /\ back = start /\ jump = LastPending
  <2>1. n + 1 \in Nat /\ start \in Nat
    BY <1>3, <1>5
  <2> QED BY <1>1, <1>5, <2>1
<1>10. PICK h : h = Patch(heap, jump, target)
  OBVIOUS
<1>11. h \in Seq(IrNode) /\ Len(h) = Len(heap) /\ h[jump].jump_target = target
  <2>1. h \in Seq(IrNode) /\ Len(h) = Len(heap)
    BY <1>3, <1>10, PatchTyped
  <2>2. h = [heap EXCEPT ![jump].jump_target = target] /\ heap[jump] \in IrNode
    BY <1>3, <1>10 DEF Patch
  <2>3. h[jump] = [heap[jump] EXCEPT !.jump_target = target]
    BY <1>3, <2>2
  <2>4. h[jump].jump_target = target
    BY <2>2, <2>3 DEF IrNode
  <2> QED BY <2>1, <2>4
<1>12. /\ heap' = h \o << new_empty, new_jmp("NONE", back) >>
       /\ list' = list \o << Len(heap) + 2, Len(heap) + 1 >>
  <2>1. (n + 1) + 1 = n + 2
    BY <1>3
  <2> QED BY <1>1, <1>2, <1>9, <1>10, <2>1
<1>13. heap'[LastPending].jump_target = Len(heap) + 1
  <2>1. PICK nodes \in Seq(IrNode) : nodes = << new_empty, new_jmp("NONE", back) >>
    <3>1. new_empty \in IrNode /\ new_jmp("NONE", back) \in IrNode
      BY <1>9, InstructionTypes DEF ir_cond_flags
    <3>2. << new_empty, new_jmp("NONE", back) >> \in Seq(IrNode)
      BY <3>1
    <3> QED BY <3>2
  <2>2. heap' = h \o nodes
    BY <1>12, <2>1
  <2>3. heap'[jump] = h[jump]
    BY <1>9, <1>11, <2>2, Behind
  <2> QED BY <1>1, <1>9, <1>11, <2>3
<1>14. \A k \in 1..Len(ir_stack') : ir_stack'[k] \notin Fresh
  <2>1. e - 2 \in 0..e
    BY <1>3, <1>5
  <2>2. PICK k \in 0..Len(ir_stack) : k = e - 2
    BY <1>1, <2>1
  <2> QED BY <1>2, <2>2, PoppedEntries
<1>15. back \in 1..Len(heap) /\ sh[back] = Idle
  BY <1>1, <1>5, <1>6, <1>9
<1> QED BY <1>2, <1>7, <1>8, <1>11, <1>12, <1>13, <1>14, <1>15, SwappedShaped

\* compile_BRANCH between the branches: the first jump leads behind the second.
LEMMA ElseShaped ==
  ASSUME IInv, IInv', CodeInv, RegionInv, CodeEnds, compile_BRANCH_else,
         NEW sh, NEW under, Shaped(sh, under)
  PROVE  \E more \in Seq(Shape), later \in Seq(Nat) : Shaped(more, later)'
<1> USE DEF COMPILING_LEFT, COMPILED_LEFT, COMPILING_RIGHT, COMPILED_RIGHT
<1>1. PICK n, e : n = Len(heap) /\ e = Len(ir_stack)
  OBVIOUS
<1>2. /\ BodyHandler /\ Under(under) /\ walk # <<>>
      /\ Top.node.type = "BRANCH" /\ Top.stage = 1
      /\ heap' = Patch(Discarding(Top.node.left), LastPending, n + 1)
                   \o << new_empty, new_jmp("NONE", NIL) >>
      /\ list' = list \o << (n + 1) + 1, n + 1 >>
      /\ ir_stack' = [ir_stack EXCEPT ![e] = (n + 1) + 1]
  BY <1>1 DEF BodyHandler, Shaped, compile_BRANCH_else, Handling
<1>3. Patching /\ (Discards <=> TypeOf(Top.node.left) = "CALL")
  BY <1>2 DEF Patching, Discards, CallCompiled
<1>4. /\ n \in Nat /\ ir_stack \in Seq(1..n) /\ e \in 1..Len(ir_stack) /\ ir_stack # <<>>
      /\ heap \in Seq(IrNode) /\ list \in Seq(1..Len(heap)) /\ list # <<>>
      /\ LastPending \in 1..Len(heap)
  <2>1. /\ n \in Nat /\ ir_stack \in Seq(1..n) /\ heap \in Seq(IrNode)
        /\ list \in Seq(1..Len(heap)) /\ list # <<>>
    BY <1>1, <1>2, HandlerState
  <2>2. Len(ir_stack) \in 1..Len(ir_stack) /\ LastPending \in 1..Len(heap)
    BY <1>2, <1>3, PatchedNode
  <2> QED BY <1>1, <2>1, <2>2
<1>5. /\ Place = "body" /\ under[Len(walk)] + Left(Top) = 0
      /\ under[Len(walk)] + Owed(Top) = (IF TypeOf(Top.node.left) = "CALL" THEN 1 ELSE 0)
  <2>1. /\ Place = "body" /\ Top.node \in Node /\ Top.stage \in 0..3
        /\ under[Len(walk)] + Owed(Top) = Owed(Top)
        /\ under[Len(walk)] + Left(Top) = Left(Top)
    BY <1>2, StatementLevels
  <2>2. Owed(Top) = (IF TypeOf(Top.node.left) = "CALL" THEN 1 ELSE 0) /\ Left(Top) = 0
    BY <1>2, <2>1, Levels
  <2> QED BY <2>1, <2>2
<1>6. PICK target \in Nat : target = n + 1
  BY <1>4
<1>7. PICK d, h : d = Discarding(Top.node.left) /\ h = Patch(d, LastPending, target)
  OBVIOUS
<1>8. /\ h \in Seq(IrNode) /\ Len(h) = Len(heap)
      /\ h[LastPending].jump_target = target
  <2>1. d \in Seq(IrNode) /\ Len(d) = Len(heap)
    BY <1>4, <1>7, DiscardTyped
  <2>2. PICK jump \in 1..Len(d) : jump = LastPending
    BY <1>4, <2>1
  <2>3. h \in Seq(IrNode) /\ Len(h) = Len(d)
    BY <1>7, <2>1, <2>2, PatchTyped
  <2>4. h = [d EXCEPT ![jump].jump_target = target]
    BY <1>7, <2>2 DEF Patch
  <2>5. d[jump] \in IrNode
    BY <2>1
  <2>6. h[jump] = [d[jump] EXCEPT !.jump_target = target]
    BY <2>1, <2>4
  <2>7. h[jump].jump_target = target
    BY <2>5, <2>6 DEF IrNode
  <2> QED BY <2>1, <2>2, <2>3, <2>7
<1>9. /\ heap' = h \o << new_empty, new_jmp("NONE", NIL) >>
      /\ list' = list \o << Len(heap) + 2, Len(heap) + 1 >>
      /\ ir_stack' = [ir_stack EXCEPT ![e] = n + 2]
  <2>1. (n + 1) + 1 = n + 2
    BY <1>4
  <2> QED BY <1>1, <1>2, <1>6, <1>7, <2>1
<1>10. PICK nodes \in Seq(IrNode) : nodes = << new_empty, new_jmp("NONE", NIL) >>
  <2>1. new_empty \in IrNode /\ new_jmp("NONE", NIL) \in IrNode
    BY InstructionTypes DEF ir_cond_flags, NIL
  <2>2. << new_empty, new_jmp("NONE", NIL) >> \in Seq(IrNode)
    BY <2>1
  <2> QED BY <2>2
<1>11. /\ \A id \in 1..Len(heap) : heap'[id] = h[id]
       /\ heap'[n + 2] = new_jmp("NONE", NIL)
  <2>1. Len(nodes) = 2 /\ nodes[1] = new_empty /\ nodes[2] = new_jmp("NONE", NIL)
    BY <1>10
  <2>2. heap' = h \o nodes /\ list' = list \o << Len(heap) + 2, Len(heap) + 1 >>
    BY <1>9, <1>10
  <2>3. /\ \A id \in 1..Len(heap) : heap'[id] = h[id]
        /\ heap'[Len(heap) + 2] = nodes[2]
    BY <1>8, <2>1, <2>2, SwappedFresh
  <2> QED BY <1>1, <2>1, <2>3
<1>12. heap'[LastPending].jump_target = Len(heap) + 1
  BY <1>1, <1>4, <1>6, <1>8, <1>11
<1>13. Lowered(0, under[Len(walk)] + Owed(Top))
  <2>1. ASSUME Discards PROVE heap'[ir_tail] = new_empty
    <3>1. ir_tail \in 1..Len(heap) /\ h[ir_tail] = new_empty
      BY <1>3, <1>4, <1>7, <2>1, TailErased DEF Discards
    <3> QED BY <1>11, <3>1
  <2> QED BY <1>3, <1>5, <2>1 DEF Lowered
<1>14. ASSUME NEW k \in 1..Len(ir_stack'), ir_stack'[k] \in Fresh
       PROVE  heap'[ir_stack'[k]] # new_empty
  <2>1. PICK id : id = n + 2
    OBVIOUS
  <2>2. ir_stack' = [ir_stack EXCEPT ![e] = id]
    BY <1>9, <2>1
  <2>3. k \in 1..Len(ir_stack) /\ (k # e => ir_stack'[k] = ir_stack[k]) /\ (k = e => ir_stack'[k] = id)
    BY <1>4, <2>2
  <2>4. ir_stack[k] \in 1..n
    <3>1. ir_stack \in Seq(1..n) /\ k \in 1..Len(ir_stack)
      BY <1>4, <2>3
    <3> QED BY ONLY <3>1, ElementOfSeq, Zenon
  <2>5. k = e
    BY <1>1, <1>4, <1>14, <2>3, <2>4 DEF Fresh
  <2>6. new_jmp("NONE", NIL) # new_empty
    BY DEF new_jmp, new_empty, instruction
  <2> QED BY <1>11, <2>1, <2>3, <2>5, <2>6
<1>15. PICK back \in Nat : back = NIL
  BY DEF NIL
<1>16. heap' = h \o << new_empty, new_jmp("NONE", back) >>
  BY <1>9, <1>15
<1> QED BY <1>2, <1>5, <1>8, <1>9, <1>12, <1>13, <1>14, <1>15, <1>16, SwappedShaped

\* Every handler of the body leaves the code shaped.
LEMMA BodyShaped ==
  ASSUME IInv, IInv', CodeInv, RegionInv, CodeEnds, BodyHandler,
         NEW sh, NEW under, Shaped(sh, under)
  PROVE  \E more \in Seq(Shape), later \in Seq(Nat) : Shaped(more, later)'
<1>1. CASE Straight
  BY <1>1, StraightShaped
<1>2. CASE compile_RET
  BY <1>2, ReturnShaped
<1>3. CASE compile_SEQ
  BY <1>3, SequenceShaped
<1>4. CASE compile_WHILE_start \/ compile_WHILE_test
  BY <1>4, LoopBeginShaped
<1>5. CASE compile_WHILE_end
  BY <1>5, LoopEndShaped
<1>6. CASE compile_BRANCH_test
  BY <1>6, BranchTestShaped
<1>7. CASE compile_BRANCH_else
  BY <1>7, ElseShaped
<1>8. CASE compile_BRANCH_end
  BY <1>8, BranchEndShaped
<1> QED BY <1>1, <1>2, <1>3, <1>4, <1>5, <1>6, <1>7, <1>8 DEF BodyHandler

-----------------------------------------------------------------------------
(* Between functions, and where one begins.                                *)

\* Between functions, and where one begins, the code that is there stays as it
\* is, and what is added goes on with the shape of the tail.
AppendsCode ==
  /\ Len(list) <= Len(list') /\ Len(heap) <= Len(heap')
  /\ \A i \in 1..Len(list) : list'[i] = list[i]
  /\ \A id \in 1..Len(heap) : heap'[id] = heap[id]
  /\ \A k \in 1..Len(functions) :
       k \in 1..Len(functions') /\ functions'[k].ir_list_head = functions[k].ir_list_head

\* Code added at the tail flows on from the code before it.
LEMMA AppendedFlows ==
  ASSUME list \in Seq(1..Len(heap)), Len(list) \in Nat \ {0}, Len(list') \in Nat, AppendsCode,
         NEW sh, NEW more, Extends(sh, more), NEW tail, NEW tail2,
         Flowing(heap, list, sh, tail),
         \A i \in (Len(list) + 1)..Len(list') :
           Flows(At(i)', more[list'[i]], IF i < Len(list') THEN more[list'[i + 1]] ELSE tail2),
         tail = IF Len(list) < Len(list') THEN more[list'[Len(list) + 1]] ELSE tail2
  PROVE  Flowing(heap', list', more, tail2)
<1>1. PICK n \in Nat \ {0}, m \in Nat : n = Len(list) /\ m = Len(list') /\ n <= m
  BY DEF AppendsCode
<1>2. ASSUME NEW i \in 1..n
      PROVE  list'[i] = list[i] /\ heap'[list'[i]] = heap[list[i]] /\ more[list'[i]] = sh[list[i]]
  BY <1>1 DEF AppendsCode, Extends
<1>3. ASSUME NEW i \in 1..m
      PROVE  Flows(heap'[list'[i]], more[list'[i]], IF i < m THEN more[list'[i + 1]] ELSE tail2)
  <2>1. CASE i \in (n + 1)..m
    BY <1>1, <2>1 DEF At
  <2>2. CASE i \in 1..(n - 1)
    <3>1. i \in 1..n /\ i + 1 \in 1..n /\ i < n /\ i < m
      BY <1>1, <2>2
    <3>2. Flows(heap[list[i]], sh[list[i]], sh[list[i + 1]])
      BY <1>1, <3>1 DEF Flowing
    <3> QED BY <1>2, <3>1, <3>2
  <2>3. CASE i = n
    <3>1. Flows(heap[list[n]], sh[list[n]], tail)
      BY <1>1 DEF Flowing
    <3>2. tail = IF n < m THEN more[list'[n + 1]] ELSE tail2
      BY <1>1
    <3>3. n \in 1..n
      BY <1>1
    <3> QED BY <1>2, <2>3, <3>1, <3>2, <3>3
  <2>4. i \in (n + 1)..m \/ i \in 1..(n - 1) \/ i = n
    BY <1>1
  <2> QED BY <2>1, <2>2, <2>3, <2>4
<1> QED BY <1>1, <1>3 DEF Flowing

\* Code added at the tail that has no jump leaves all aims alone.
LEMMA AppendedAims ==
  ASSUME list \in Seq(1..Len(heap)), Len(list) \in Nat \ {0}, Len(list') \in Nat,
         Len(heap) \in Nat, Len(heap') \in Nat, AppendsCode,
         NEW sh, NEW more, Extends(sh, more), Aimed(sh),
         \A i \in (Len(list) + 1)..Len(list') : At(i)'.operation # "JMP",
         \A k \in 1..Len(functions') : more[functions'[k].ir_list_head] = Called,
         func_return' # NIL => more[func_return'] = Idle,
         \A e \in 1..Len(ir_stack') : heap'[ir_stack'[e]] = new_empty => more[ir_stack'[e]] = Idle
  PROVE  Aimed(more)'
<1>1. ASSUME NEW i \in 1..Len(list)
      PROVE  /\ list'[i] = list[i] /\ At(i)' = At(i) /\ more[list'[i]] = sh[list[i]]
  BY DEF AppendsCode, Extends, At
<1>2. more[list'[1]] = Entry
  <2>1. 1 \in 1..Len(list)
    OBVIOUS
  <2> QED BY <1>1, <2>1 DEF Aimed
<1>3. ASSUME NEW i \in 1..Len(list'), At(i)'.operation = "JMP", At(i)'.jump_target # NIL
      PROVE  At(i)'.jump_target \in 1..Len(heap') /\ more[At(i)'.jump_target] = Idle
  <2>1. i \in 1..Len(list)
    <3>1. i \notin (Len(list) + 1)..Len(list')
      BY <1>3
    <3> QED BY <3>1
  <2>2. At(i).jump_target \in 1..Len(heap) /\ sh[At(i).jump_target] = Idle
    BY <1>1, <1>3, <2>1 DEF Aimed
  <2>3. At(i).jump_target \in 1..Len(heap')
    BY <2>2 DEF AppendsCode
  <2> QED BY <1>1, <2>1, <2>2, <2>3 DEF Extends
<1> QED BY <1>2, <1>3 DEF Aimed

\* Code that is complete stays so, when none is being compiled.
LEMMA AppendedHomes ==
  ASSUME list \in Seq(1..Len(heap)), Len(list) \in Nat \ {0}, AppendsCode,
         NEW sh, NEW more, Extends(sh, more), Housed(sh), ~ InFunction
  PROVE  \A i \in 1..Len(list) : more[list'[i]].place # "entry" =>
           \E last \in i..Len(list) : \E first \in 1..i : Home(more, first, last)'
<1>1. PICK start \in 1..(Len(list) + 1) :
        /\ Begun(start)
        /\ \A i \in 1..(start - 1) : sh[list[i]].place # "entry" =>
             \E last \in i..(start - 1) : \E first \in 1..i : Home(sh, first, last)
  BY DEF Housed
<1>2. start = Len(list) + 1 /\ start - 1 = Len(list)
  BY <1>1 DEF Begun
<1>3. KeptBelow(start)
  <2>1. ASSUME NEW i \in 1..(start - 1) PROVE list'[i] = list[i] /\ heap'[list[i]] = heap[list[i]]
    <3>1. i \in 1..Len(list)
      BY <1>2
    <3>2. list[i] \in 1..Len(heap)
      BY <3>1
    <3> QED BY <3>1, <3>2 DEF AppendsCode
  <2> QED BY <2>1 DEF KeptBelow
<1>4. ASSUME NEW i \in 1..Len(list), more[list'[i]].place # "entry"
      PROVE  \E last \in i..Len(list) : \E first \in 1..i : Home(more, first, last)'
  <2>1. more[list'[i]] = sh[list[i]]
    <3>1. list'[i] = list[i] /\ list[i] \in 1..Len(heap)
      BY DEF AppendsCode
    <3> QED BY <3>1 DEF Extends
  <2>2. PICK last \in i..(start - 1) : \E first \in 1..i : Home(sh, first, last)
    BY <1>1, <1>2, <1>4, <2>1
  <2>3. PICK first \in 1..i : Home(sh, first, last)
    BY <2>2
  <2>4. last \in 1..(start - 1) /\ first \in 1..last /\ last \in i..Len(list)
    BY <1>2
  <2>5. /\ \A k \in 1..Len(functions) :
             k \in 1..Len(functions') /\ functions'[k].ir_list_head = functions[k].ir_list_head
        /\ \A id \in 1..Len(heap) : more[id] = sh[id]
    BY DEF AppendsCode, Extends
  <2>6. Home(more, first, last)'
    BY <1>3, <2>3, <2>4, <2>5, HomeKept
  <2> QED BY <2>4, <2>6
<1> QED BY <1>4

\* Where no function is being compiled, all of the code is complete.
LEMMA OutsideHoused ==
  ASSUME Len(list') \in Nat, ~ InFunction', RegionInv', NEW more,
         \A i \in 1..Len(list') : more[list'[i]].place # "entry" =>
           \E last \in i..Len(list') : \E first \in 1..i : Home(more, first, last)'
  PROVE  Housed(more)'
<1>1. PICK later \in 1..(Len(list') + 1) : Begun(later)'
  BY DEF RegionInv, CodeFrom
<1>2. later = Len(list') + 1 /\ later - 1 = Len(list')
  BY <1>1 DEF Begun
<1>3. \A i \in later..Len(list') : FALSE
  BY <1>2
<1>4. Frameless(more, later)'
  BY <1>3 DEF Frameless
<1> QED BY <1>1, <1>2, <1>4 DEF Housed

\* The prologue of a function: the head, the saved RBP and the new one, behind
\* which control is in the body.  There is no frame yet.
LEMMA PrologueShaped ==
  ASSUME IInv, IInv', CodeInv, RegionInv, compile_NFUN_begin,
         NEW sh, NEW under, Shaped(sh, under)
  PROVE  \E more \in Seq(Shape), later \in Seq(Nat) : Shaped(more, later)'
<1> USE DEF COMPILING_LEFT, COMPILED_LEFT, COMPILING_RIGHT, COMPILED_RIGHT
<1>1. PICK n \in Nat, m \in Nat : n = Len(heap) /\ m = Len(list)
  BY HandlerState
<1>2. PICK head, mov :
        /\ head = functions[next_func - 1].ir_list_head
        /\ mov = new_binary("MOV", operand_reg("RBP"), operand_reg("RSP"))
  OBVIOUS
<1>3. /\ walk \in Seq(Frame) /\ walk # <<>> /\ Len(walk) = 1 /\ Top = walk[1] /\ Proceed
      /\ UNCHANGED control /\ Top.node.type = "NFUN" /\ Top.stage = 0
      /\ Len(heap') = n + 3
      /\ \A id \in 1..n : heap'[id] = heap[id]
      /\ heap'[n + 1] = new_push_reg("RBP") /\ heap'[n + 2] = mov /\ heap'[n + 3] = new_empty
      /\ Len(list') = m + 3 /\ \A i \in 1..m : list'[i] = list[i]
      /\ list'[m + 1] = head /\ list'[m + 2] = n + 1 /\ list'[m + 3] = n + 2
      /\ ir_stack' = Append(ir_stack, n + 2)
      /\ func_return' = n + 3
  BY <1>1, <1>2, PrologueCode, HandlerState
<1>4. /\ sh \in Seq(Shape) /\ Len(sh) = n /\ Under(under)
      /\ m \in Nat \ {0} /\ list \in Seq(1..Len(heap)) /\ ir_stack \in Seq(1..n)
      /\ head \in 1..n /\ sh[head] = Called /\ heap[head] = new_empty
      /\ functions' = functions
  <2>1. /\ next_func - 1 \in 1..Len(functions) /\ head \in 1..n
        /\ Waiting(next_func - 1)
    BY <1>1, <1>2, <1>3, FunctionCompiled DEF Waiting
  <2>2. sh[head] = Called /\ heap[head] = new_empty
    BY <1>1, <1>2, <2>1 DEF Shaped, Aimed, CodeInv, ListInv
  <2>3. functions' = functions
    BY <1>3 DEF control
  <2>4. m \in Nat \ {0} /\ list \in Seq(1..Len(heap)) /\ ir_stack \in Seq(1..n)
    BY <1>1, <1>2, HandlerState
  <2> QED BY <1>1, <1>2, <2>1, <2>2, <2>3, <2>4 DEF Shaped
<1>5. ~ InFunction /\ InFunction' /\ walk' # <<>> /\ walk'[1].node = walk[1].node
  <2>1. ~ InFunction
    BY <1>3 DEF InFunction
  <2>2. walk' \in Seq(Frame) /\ Len(walk') \in {1, 2} /\ walk'[1].node = Top.node
        /\ walk'[1].stage = 1
    BY <1>3, ProceedWalk
  <2>3. walk' # <<>>
    BY <2>2
  <2> QED BY <1>3, <2>1, <2>2, <2>3 DEF InFunction
<1>6. PICK later \in Seq(Nat) : Under(later)' /\ later[Len(walk')] + Owed(Top') = 0
                                /\ later[Len(walk')] \in Nat /\ Top' \in Frame
  <2>1. under[Len(walk)] + Left(Top) = 0
    <3>1. under[1] = 0 /\ Left(Top) = 0
      BY <1>3, <1>4 DEF Under, Left
    <3> QED BY <1>3, <3>1
  <2> QED BY <1>3, <1>4, <1>5, <2>1, HeightsAfter
<1>7. TailShape(under) = Called /\ TailShape(later)' = Idle
  <2>1. phase # "declarations"
    <3>1. phase = "declarations" => next_func = 1
      BY DEF CodeInv, FunctionOrder
    <3>2. next_func - 1 \in 1..Len(functions)
      BY <1>3, FunctionCompiled
    <3> QED BY <3>1, <3>2
  <2>2. TailShape(under) = Called
    BY <1>3, <1>5, <2>1 DEF TailShape
  <2>3. TailShape(later)' = shape("body", later[Len(walk')] + (Held(Top') + Brought(Top')))
    BY <1>5 DEF TailShape, Place
  <2>4. later[Len(walk')] + (Held(Top') + Brought(Top')) = 0
    BY <1>6 DEF Owed
  <2> QED BY <2>2, <2>3, <2>4 DEF Idle
<1>8. PICK set : set = Shape
  OBVIOUS
<1>9. Called \in set /\ Pushed \in set /\ Idle \in set
  BY <1>8 DEF Called, Pushed, Idle, shape, Shape
<1>10. PICK tail \in Seq(set) : tail = << Called, Pushed, Idle >>
  <2>1. << Called, Pushed, Idle >> \in Seq(set)
    BY <1>9
  <2> QED BY <2>1
<1>11. Len(tail) = 3 /\ tail[1] = Called /\ tail[2] = Pushed /\ tail[3] = Idle
  BY <1>10
<1>12. PICK more : more = sh \o tail
  OBVIOUS
<1>13. /\ more \in Seq(Shape) /\ Len(more) = n + 3
       /\ \A id \in 1..n : more[id] = sh[id]
       /\ more[n + 1] = Called /\ more[n + 2] = Pushed /\ more[n + 3] = Idle
  <2>1. sh \in Seq(set) /\ tail \in Seq(set)
    BY <1>4, <1>8
  <2>2. /\ sh \o tail \in Seq(set) /\ Len(sh \o tail) = Len(sh) + Len(tail)
        /\ \A i \in 1..Len(sh) : (sh \o tail)[i] = sh[i]
        /\ \A i \in 1..Len(tail) : (sh \o tail)[Len(sh) + i] = tail[i]
    BY ONLY <2>1, Behind
  <2>3. 1 \in 1..Len(tail) /\ 2 \in 1..Len(tail) /\ 3 \in 1..Len(tail)
    BY <1>11
  <2> QED BY <1>4, <1>8, <1>11, <1>12, <2>2, <2>3
<1>14. Extends(sh, more)
  BY <1>1, <1>2, <1>3, <1>13 DEF Extends
<1>15. AppendsCode
  <2>1. m <= m + 3 /\ n <= n + 3
    OBVIOUS
  <2> QED BY <1>1, <1>2, <1>3, <1>4, <2>1 DEF AppendsCode
<1>16. /\ Flows(new_empty, Called, Called)
       /\ Flows(new_push_reg("RBP"), Called, Pushed)
       /\ Flows(mov, Pushed, Idle)
       /\ ~ SetsRbp(new_empty) /\ ~ SetsRbp(new_push_reg("RBP"))
  <2>1. Flows(new_empty, Called, Called) /\ ~ SetsRbp(new_empty)
    BY <1>8, <1>9, NoOperandFlows
  <2>2. /\ Flows(new_push_reg("RBP"), Called, Pushed) /\ ~ SetsRbp(new_push_reg("RBP"))
        /\ Flows(mov, Pushed, Idle)
    <3>1. {"REG"} # {"MEM", "IMM", "REG"} /\ {"REG"} # {"MEM", "REG"}
      <4>1. "MEM" \notin {"REG"} /\ "MEM" \in {"MEM", "IMM", "REG"} /\ "MEM" \in {"MEM", "REG"}
        OBVIOUS
      <4> QED BY <4>1
    <3>2. operand_reg("RBP").flags = {"REG"} /\ operand_reg("RBP") # operand_reg("RSP")
      BY DEF operand_reg
    <3>3. operand_reg("RBP") # operand_top
      BY <3>1 DEF operand_reg, operand_top
    <3>4. /\ new_push_reg("RBP").operation = "PUSH" /\ mov.operation = "MOV"
          /\ new_push_reg("RBP").operand1 = operand_reg("RBP")
          /\ mov.operand1 = operand_reg("RBP")
      BY <1>1, <1>2 DEF new_push_reg, new_unary, new_binary, instruction
    <3>5. ~ IsLocalAccess(new_push_reg("RBP")) /\ ~ IsLocalAccess(mov)
      BY <3>1, <3>2, <3>4 DEF IsLocalAccess
    <3>6. PICK push : push = new_push_reg("RBP")
      OBVIOUS
    <3>7. Flows(push, Called, Pushed) /\ ~ SetsRbp(push)
      BY <3>3, <3>4, <3>5, <3>6 DEF Flows, Takes, SetsRbp, Inert
    <3>8. Flows(mov, Pushed, Idle)
      BY <3>3, <3>4, <3>5 DEF Flows, Takes, SetsRbp, Inert
    <3> QED BY <3>6, <3>7, <3>8
  <2> QED BY <2>1, <2>2
<1>17. /\ At(m + 1)' = new_empty /\ At(m + 2)' = new_push_reg("RBP") /\ At(m + 3)' = mov
       /\ more[list'[m + 1]] = Called /\ more[list'[m + 2]] = Called
       /\ more[list'[m + 3]] = Pushed
  BY <1>3, <1>4, <1>13 DEF At
<1>18. ASSUME NEW i \in (Len(list) + 1)..Len(list')
       PROVE  i = m + 1 \/ i = m + 2 \/ i = m + 3
  <2>1. i \in Int /\ m + 1 <= i /\ i <= m + 3 /\ m \in Nat
    BY <1>1, <1>2, <1>3
  <2> QED BY ONLY <2>1
<1>19. ASSUME NEW i \in (Len(list) + 1)..Len(list')
       PROVE  /\ Flows(At(i)', more[list'[i]],
                       IF i < Len(list') THEN more[list'[i + 1]] ELSE TailShape(later)')
              /\ At(i)'.operation # "JMP"
              /\ more[list'[i]] # Entered
              /\ SetsRbp(At(i)') => i = m + 3
  <2>1. /\ new_empty.operation # "JMP" /\ new_push_reg("RBP").operation # "JMP"
        /\ mov.operation # "JMP"
    BY <1>1, <1>2 DEF new_empty, new_push_reg, new_unary, new_binary, instruction
  <2>2. Called # Entered /\ Pushed # Entered
    BY DEF Called, Entered, Pushed, shape
  <2>3. CASE i = m + 1
    <3>1. i < Len(list') /\ i + 1 = m + 2
      <4>1. Len(list') = m + 3 /\ i = m + 1 /\ m \in Nat
        BY <1>3, <2>3
      <4> QED BY ONLY <4>1
    <3> QED BY <1>16, <1>17, <2>1, <2>2, <2>3, <3>1
  <2>4. CASE i = m + 2
    <3>1. i < Len(list') /\ i + 1 = m + 3
      <4>1. Len(list') = m + 3 /\ i = m + 2 /\ m \in Nat
        BY <1>3, <2>4
      <4> QED BY ONLY <4>1
    <3> QED BY <1>16, <1>17, <2>1, <2>2, <2>4, <3>1
  <2>5. CASE i = m + 3
    <3>1. ~ (i < Len(list'))
      BY <1>3, <2>5
    <3> QED BY <1>7, <1>16, <1>17, <2>1, <2>2, <2>5, <3>1
  <2> QED BY <1>18, <2>3, <2>4, <2>5
<1>20. Len(list) \in Nat \ {0} /\ Len(list') \in Nat /\ Len(heap) \in Nat /\ Len(heap') \in Nat
  BY <1>1, <1>2, <1>3, <1>4
<1>21. Flowing(heap, list, more, TailShape(later))'
  <2>1. Called = IF Len(list) < Len(list') THEN more[list'[Len(list) + 1]] ELSE TailShape(later)'
    BY <1>1, <1>2, <1>3, <1>17
  <2>2. Flowing(heap, list, sh, Called)
    BY <1>7 DEF Shaped
  <2>3. Flowing(heap', list', more, TailShape(later)')
    BY <1>4, <1>14, <1>15, <1>19, <1>20, <2>1, <2>2, AppendedFlows
  <2> QED BY <2>3 DEF Flowing
<1>22. Aimed(more)'
  <2>1. ASSUME NEW k \in 1..Len(functions') PROVE more[functions'[k].ir_list_head] = Called
    <3>1. functions[k].ir_list_head \in 1..n
      BY <1>1, <1>2, <1>4 DEF IInv, FunctionTable
    <3> QED BY <1>4, <1>13, <3>1 DEF Shaped, Aimed
  <2>2. func_return' # NIL => more[func_return'] = Idle
    BY <1>3, <1>13
  <2>3. ASSUME NEW e \in 1..Len(ir_stack'), heap'[ir_stack'[e]] = new_empty
        PROVE  more[ir_stack'[e]] = Idle
    <3>1. CASE e \in 1..Len(ir_stack)
      <4>1. ir_stack'[e] = ir_stack[e] /\ ir_stack[e] \in 1..n
        <5>1. PICK id \in Nat : id = n + 2
          OBVIOUS
        <5>2. ir_stack' = Append(ir_stack, id)
          BY <1>3, <5>1
        <5>3. ir_stack \in Seq(1..n) /\ e \in 1..Len(ir_stack)
          BY <1>4, <3>1
        <5> QED BY ONLY <5>2, <5>3
      <4>2. heap[ir_stack[e]] = new_empty
        BY <1>3, <2>3, <4>1
      <4> QED BY <1>13, <3>1, <4>1, <4>2 DEF Shaped, Aimed
    <3>2. CASE e \notin 1..Len(ir_stack)
      <4>1. ir_stack'[e] = n + 2
        BY <1>3, <1>4, <3>2
      <4>2. mov # new_empty
        BY <1>1, <1>2 DEF new_empty, new_binary, instruction
      <4> QED BY <1>3, <2>3, <4>1, <4>2
    <3> QED BY <3>1, <3>2
  <2> QED BY <1>4, <1>14, <1>15, <1>19, <1>20, <2>1, <2>2, <2>3, AppendedAims DEF Shaped
<1>23. Housed(more)'
  <2>1. PICK start \in 1..(Len(list') + 1) : Begun(start)'
    <3>1. PICK old \in 1..(Len(list) + 1) : CodeFrom(old)
      BY DEF RegionInv
    <3>2. \E start \in 1..(Len(list') + 1) : CodeFrom(start)'
      BY <3>1, PrologueKeepsPlaces
    <3> QED BY <3>2 DEF CodeFrom
  <2>2. start = m + 1
    <3>1. start + 2 <= Len(list') /\ list'[start] = functions'[next_func' - 1].ir_list_head
      BY <1>5, <2>1 DEF Begun
    <3>2. list'[start] = list'[m + 1]
      BY <1>1, <1>2, <1>3, <1>4, <3>1 DEF control
    <3>3. CodeInv'
      BY PrologueKeepsCode
    <3>4. start \in 1..Len(list') /\ m + 1 \in 1..Len(list')
      BY <1>3, <3>1
    <3> QED BY <3>2, <3>3, <3>4 DEF CodeInv, ListInv
  <2>3. Frameless(more, start)'
    <3>1. ASSUME NEW i \in start..Len(list')
          PROVE  more[list'[i]] # Entered /\ (SetsRbp(At(i)') => i = start + 2)
      <4>1. i \in (Len(list) + 1)..Len(list') /\ start + 2 = m + 3
        BY <1>1, <1>2, <2>2
      <4> QED BY <1>19, <4>1
    <3> QED BY <3>1 DEF Frameless
  <2>4. start - 1 = Len(list)
    BY <1>1, <1>2, <2>2
  <2>5. \A i \in 1..Len(list) : more[list'[i]].place # "entry" =>
          \E last \in i..Len(list) : \E first \in 1..i : Home(more, first, last)'
    BY <1>4, <1>5, <1>14, <1>15, <1>20, AppendedHomes DEF Shaped
  <2> QED BY <2>1, <2>3, <2>4, <2>5 DEF Housed
<1>24. Neat'
  BY <1>3, <1>5, NeatNext DEF Shaped
<1> QED BY <1>3, <1>6, <1>13, <1>21, <1>22, <1>23, <1>24 DEF Shaped

\* Before a tree is entered, and when it has just been, nothing is on the stack.
LEMMA BetweenHeights ==
  ASSUME IInv', ~ InFunction',
         walk' = <<>> \/ \E node : walk' = << [node |-> node, stage |-> COMPILING_LEFT] >>
  PROVE  \E later \in Seq(Nat) :
           /\ Under(later)'
           /\ TailShape(later)' =
                IF phase' = "declarations" \/ (walk' # <<>> /\ walk'[1].node.type = "NVAR")
                  THEN Entry ELSE Called
<1>1. CASE walk' = <<>>
  <2>1. PICK later : later = <<>>
    OBVIOUS
  <2>2. later \in Seq(Nat) /\ Len(later) = 0 /\ Len(walk') = 0
    BY <1>1, <2>1
  <2>3. /\ \A i \in 1..(Len(walk') - 1) : FALSE
        /\ \A i \in 1..Len(walk') : FALSE
    BY <2>2
  <2>4. Under(later)'
    BY <1>1, <2>2, <2>3 DEF Under
  <2>5. TailShape(later)' = IF phase' = "declarations" THEN Entry ELSE Called
    BY <1>1 DEF TailShape
  <2> QED BY <1>1, <2>2, <2>4, <2>5
<1>2. CASE walk' # <<>>
  <2>1. PICK node : walk' = << [node |-> node, stage |-> COMPILING_LEFT] >>
    BY <1>2
  <2>2. /\ Len(walk') = 1 /\ walk'[1] = [node |-> node, stage |-> COMPILING_LEFT]
        /\ walk'[1].stage = COMPILING_LEFT
    BY <2>1
  <2>3. PICK later : later = << 0 >>
    OBVIOUS
  <2>4. later \in Seq(Nat) /\ Len(later) = 1 /\ later[1] = 0
    BY <2>3
  <2>5. \A i \in 1..Len(walk') : i = 1
    BY <2>2
  <2>6. \A i \in 1..(Len(walk') - 1) : FALSE
    BY <2>2
  <2>7. Under(later)'
    BY <2>2, <2>4, <2>5, <2>6 DEF Under
  <2>8. Top' = walk'[1]
    BY <2>2 DEF Top
  <2>9. Held(Top') = 0 /\ Brought(Top') = 0
    <3>1. PICK frame : frame = Top'
      OBVIOUS
    <3>2. frame.stage = COMPILING_LEFT
      BY <2>2, <2>8, <3>1
    <3>3. frame.stage = 0
      BY <3>2 DEF COMPILING_LEFT
    <3>4. ~ Holds(frame)
      <4>1. walk'[1].node.type # "BRANCH"
        BY <1>2 DEF IInv, WalkShape
      <4>2. frame.node.type # "BRANCH"
        BY <2>2, <2>8, <3>1, <4>1
      <4> QED BY <3>3, <4>2 DEF Holds, COMPILING_RIGHT, COMPILED_RIGHT
    <3>5. Brought(frame) = 0
      BY <3>3 DEF Brought, COMPILED_LEFT, COMPILED_RIGHT
    <3> QED BY <3>1, <3>4, <3>5 DEF Held
  <2>10. TailShape(later)' =
           IF walk'[1].node.type = "NVAR" THEN Entry
           ELSE IF phase' = "declarations" THEN Entry ELSE Called
    <3>1. later[Len(walk')] + (Held(Top') + Brought(Top')) = 0
      BY <2>2, <2>4, <2>9
    <3>2. Place' = "entry"
      BY DEF Place
    <3> QED BY <1>2, <3>1, <3>2 DEF TailShape, Entry
  <2> QED BY <1>2, <2>4, <2>7, <2>10
<1> QED BY <1>1, <1>2

\* What the driver adds is added at its end.
LEMMA DriverAppends ==
  ASSUME IInv, IInv', Driver
  PROVE  /\ AppendsCode
         /\ walk = <<>> /\ ~ InFunction /\ ~ InFunction'
         /\ UNCHANGED <<ir_stack, func_return>>
         /\ list \in Seq(1..Len(heap)) /\ Len(list) \in Nat \ {0} /\ Len(list') \in Nat
         /\ Len(heap) \in Nat /\ Len(heap') \in Nat
         /\ walk' = <<>> \/ \E node : walk' = << [node |-> node, stage |-> COMPILING_LEFT] >>
<1>1. /\ walk = <<>> /\ UNCHANGED <<ir_stack, func_return>>
      /\ \/ walk' = <<>> 
         \/ \E node : walk' = Enter(walk, node)
  BY DEF Driver, extract_variable, extract_function, emit_entry, compile_next_function,
         all_compiled, Extracting, returns
<1>2. /\ list \in Seq(1..Len(heap)) /\ Len(list) \in Nat \ {0} /\ Len(list') \in Nat
      /\ Len(heap) \in Nat /\ Len(heap') \in Nat /\ functions \in Seq(Function)
      /\ heap \in Seq(IrNode)
  <2>1. functions \in Seq(Function) /\ list' \in Seq(1..Len(heap')) /\ heap' \in Seq(IrNode)
    BY DEF IInv, TypeOK
  <2> QED BY <2>1, HandlerState
<1>3. walk' = <<>> \/ \E node : walk' = << [node |-> node, stage |-> COMPILING_LEFT] >>
  <2>1. ASSUME NEW node, walk' = Enter(walk, node)
        PROVE  walk' = <<>> \/ walk' = << [node |-> node, stage |-> COMPILING_LEFT] >>
    <3>1. Append(<<>>, [node |-> node, stage |-> COMPILING_LEFT])
            = << [node |-> node, stage |-> COMPILING_LEFT] >>
      OBVIOUS
    <3> QED BY <1>1, <2>1, <3>1 DEF Enter
  <2> QED BY <1>1, <2>1
<1>4. ~ InFunction /\ ~ InFunction'
  <2>1. ASSUME NEW node, walk' = << [node |-> node, stage |-> COMPILING_LEFT] >>
        PROVE  ~ (walk'[1].stage > COMPILING_LEFT)
    BY <2>1 DEF COMPILING_LEFT
  <2> QED BY <1>1, <1>3, <2>1 DEF InFunction
<1>5. AppendsCode
  <2>1. CASE extract_variable \/ compile_next_function \/ all_compiled
    <3>1. UNCHANGED <<heap, list, functions>>
      BY <2>1 DEF extract_variable, compile_next_function, all_compiled, code
    <3> QED BY <1>2, <3>1 DEF AppendsCode
  <2>2. CASE extract_function
    <3>1. PICK new : new = function(cursor.left, Len(heap) + 1, cursor.left.value,
                                    ChainOf(cursor.left.left))
      OBVIOUS
    <3>2. heap' = Append(heap, new_empty) /\ functions' = Append(functions, new) /\ list' = list
      BY <2>2, <3>1 DEF extract_function
    <3>3. /\ \A id \in 1..Len(heap) : heap'[id] = heap[id]
          /\ Len(heap) <= Len(heap')
          /\ \A k \in 1..Len(functions) : functions'[k] = functions[k] /\ k \in 1..Len(functions')
      BY <1>2, <3>2
    <3> QED BY <1>2, <3>2, <3>3 DEF AppendsCode
  <2>3. CASE emit_entry
    <3>1. /\ AppendsFresh /\ functions' = functions
          /\ \A id \in 1..Len(heap) : heap'[id] = heap[id]
      BY <2>3, EntryCode DEF emit_entry
    <3>2. /\ Len(list) <= Len(list')
          /\ \A i \in 1..Len(list) : list'[i] = list[i]
      BY <3>1, ListGrown
    <3>3. Len(heap) <= Len(heap')
      <4>1. PICK a, b, c, d : heap' = heap \o << a, b, c, d >>
        BY <2>3 DEF emit_entry, Emit, EmitTo
      <4>2. << a, b, c, d >> \in Seq({a, b, c, d}) /\ Len(<< a, b, c, d >>) = 4
        OBVIOUS
      <4>3. PICK nodes \in Seq({a, b, c, d}) : nodes = << a, b, c, d >>
        BY <4>2
      <4>4. Len(heap \o nodes) = Len(heap) + Len(nodes) /\ Len(nodes) = 4
        BY <1>2, <4>2, <4>3
      <4>5. Len(heap') = Len(heap) + 4
        BY <4>1, <4>3, <4>4
      <4> QED BY <1>2, <4>5
    <3> QED BY <3>1, <3>2, <3>3 DEF AppendsCode
  <2> QED BY <2>1, <2>2, <2>3 DEF Driver
<1> QED BY <1>1, <1>2, <1>3, <1>4, <1>5

-----------------------------------------------------------------------------
(* The driver: the entry code, and the declarations.                       *)

\* The entry code pushes nothing of its own.
LEMMA EntryClimbs ==
  ASSUME NEW main \in Nat
  PROVE  \E nodes \in Seq(IrNode) :
           /\ nodes = << new_call(main),
                         new_binary("MOV", operand_reg("RDI"), operand_reg("RAX")),
                         new_binary("MOV", operand_reg("RAX"), operand_imm(60)),
                         new_syscall >>
           /\ Len(nodes) = 4
           /\ nodes[4] = new_syscall
           /\ \A i \in 1..4 : nodes[i].operation \notin {"JMP"}
           /\ Climbs(nodes, "entry", 0, 0)
<1>1. PICK call, result, exit :
        /\ call = new_call(main)
        /\ result = new_binary("MOV", operand_reg("RDI"), operand_reg("RAX"))
        /\ exit = new_binary("MOV", operand_reg("RAX"), operand_imm(60))
  OBVIOUS
<1>2. call \in IrNode /\ result \in IrNode /\ exit \in IrNode /\ new_syscall \in IrNode
  <2>1. "MOV" \in ir_op /\ {"RDI", "RAX"} \subseteq ir_reg
    BY DEF ir_op, ir_reg
  <2>2. operand_imm(60) \in ir_operand
    BY OperandTypes
  <2> QED BY <1>1, <2>1, <2>2, InstructionTypes, OperandTypes
<1>3. /\ Flows(result, Entry, Entry) /\ Flows(exit, Entry, Entry)
      /\ ~ SetsRbp(result) /\ ~ SetsRbp(exit)
  <2>1. "RDI" \in DataRegister /\ "RAX" \in DataRegister
    BY DEF DataRegister
  <2>2. /\ result.operation = "MOV" /\ result.operand1 = operand_reg("RDI")
        /\ exit.operation = "MOV" /\ exit.operand1 = operand_reg("RAX")
    BY <1>1 DEF new_binary, instruction
  <2>3. PICK place \in {"entry", "body"}, h \in Nat : place = "entry" /\ h = 0
    OBVIOUS
  <2>4. /\ Flows(result, shape(place, h), shape(place, h)) /\ ~ SetsRbp(result)
        /\ Flows(exit, shape(place, h), shape(place, h)) /\ ~ SetsRbp(exit)
    BY <2>1, <2>2, RegisterFlows
  <2> QED BY <2>3, <2>4 DEF Entry
<1>4. Flows(call, Entry, Entry) /\ ~ SetsRbp(call)
  <2>1. Entry \in Shape /\ Plain(Entry)
    BY DEF Entry, shape, Shape, Plain
  <2> QED BY <1>1, <2>1, NoOperandFlows
<1>5. Flows(new_syscall, Entry, Entry) /\ ~ SetsRbp(new_syscall)
  <2>1. /\ new_syscall.operation = "SYSCALL" /\ new_syscall.operand1 = operand_none
    BY DEF new_syscall, new_unary, new_binary, instruction
  <2>2. operand_none # operand_top /\ operand_none.flags # {"MEM", "IMM", "REG"}
    <3>1. {} # {"MEM", "REG"} /\ {} # {"MEM", "IMM", "REG"}
      <4>1. "MEM" \in {"MEM", "REG"} /\ "MEM" \in {"MEM", "IMM", "REG"} /\ "MEM" \notin {}
        OBVIOUS
      <4> QED BY <4>1
    <3> QED BY <3>1 DEF operand_none, operand_top
  <2>3. ~ IsLocalAccess(new_syscall)
    BY <2>1, <2>2 DEF IsLocalAccess
  <2>4. PICK node : node = new_syscall
    OBVIOUS
  <2>5. Flows(node, Entry, Entry) /\ ~ SetsRbp(node)
    BY <2>1, <2>2, <2>3, <2>4 DEF Flows, Inert, SetsRbp
  <2> QED BY <2>4, <2>5
<1>6. Climbs(<< call, result >>, "entry", 0, 0) /\ Climbs(<< exit, new_syscall >>, "entry", 0, 0)
  <2>1. PICK place \in {"entry", "body"}, h \in Nat : place = "entry" /\ h = 0
    OBVIOUS
  <2>2. Entry = shape(place, h)
    BY <2>1 DEF Entry
  <2>3. Climbs(<< call, result >>, place, h, h) /\ Climbs(<< exit, new_syscall >>, place, h, h)
    BY <1>3, <1>4, <1>5, <2>2, ClimbTwo
  <2> QED BY <2>1, <2>3
<1>7. << call, result >> \in Seq(IrNode) /\ << exit, new_syscall >> \in Seq(IrNode)
  BY <1>2
<1>8. PICK front \in Seq(IrNode), back \in Seq(IrNode) :
        front = << call, result >> /\ back = << exit, new_syscall >>
  BY <1>7
<1>9. PICK low \in Nat : low = 0
  OBVIOUS
<1>10. Climbs(front \o back, "entry", low, low)
  BY <1>6, <1>8, <1>9, ClimbJoin
<1>11. /\ Len(front) = 2 /\ front[1] = call /\ front[2] = result
       /\ Len(back) = 2 /\ back[1] = exit /\ back[2] = new_syscall
  BY <1>8
<1>12. PICK nodes \in Seq(IrNode) : nodes = << call, result, exit, new_syscall >>
  <2>1. << call, result, exit, new_syscall >> \in Seq(IrNode)
    BY <1>2
  <2> QED BY <2>1
<1>13. /\ Len(nodes) = 4 /\ nodes[1] = call /\ nodes[2] = result /\ nodes[3] = exit
       /\ nodes[4] = new_syscall
  BY <1>12
<1>14. nodes = front \o back
  <2>1. PICK both : both = front \o back
    OBVIOUS
  <2>2. /\ both \in Seq(IrNode) /\ Len(both) = Len(front) + Len(back)
        /\ \A i \in 1..Len(front) : both[i] = front[i]
        /\ \A i \in 1..Len(back) : both[Len(front) + i] = back[i]
    BY <2>1, Behind
  <2>3. /\ 1 \in 1..Len(front) /\ 2 \in 1..Len(front) /\ 1 \in 1..Len(back) /\ 2 \in 1..Len(back)
        /\ Len(front) + 1 = 3 /\ Len(front) + 2 = 4 /\ Len(both) = 4
    BY <1>11, <2>2
  <2>4. both[1] = nodes[1] /\ both[2] = nodes[2] /\ both[3] = nodes[3] /\ both[4] = nodes[4]
    BY <1>11, <1>13, <2>2, <2>3
  <2>5. \A i \in 1..4 : i = 1 \/ i = 2 \/ i = 3 \/ i = 4
    OBVIOUS
  <2>6. \A i \in 1..4 : both[i] = nodes[i]
    BY <2>4, <2>5
  <2> QED BY <1>13, <2>1, <2>2, <2>3, <2>6
<1>15. \A i \in 1..4 : nodes[i].operation \notin {"JMP"}
  <2>1. \A i \in 1..4 : i = 1 \/ i = 2 \/ i = 3 \/ i = 4
    OBVIOUS
  <2>2. /\ call.operation # "JMP" /\ result.operation # "JMP" /\ exit.operation # "JMP"
        /\ new_syscall.operation # "JMP"
    BY <1>1 DEF new_call, new_binary, new_unary, new_syscall, instruction
  <2> QED BY <1>13, <2>1, <2>2
<1> QED BY <1>1, <1>9, <1>10, <1>12, <1>13, <1>14, <1>15

\* The entry code starts with an empty stack, calls main and exits: its shapes.
LEMMA EntryShapes ==
  ASSUME IInv, IInv', emit_entry, NEW sh \in Seq(Shape), Len(sh) = Len(heap), NEW tail
  PROVE  \E more :
           /\ Extends(sh, more)
           /\ Len(list) < Len(list') /\ more[list'[Len(list) + 1]] = Entry
           /\ \A i \in (Len(list) + 1)..Len(list') :
                /\ Flows(At(i)', more[list'[i]], IF i < Len(list') THEN more[list'[i + 1]] ELSE tail)
                /\ At(i)'.operation # "JMP"
                /\ more[list'[i]].place = "entry"
<1>1. PICK main : main = func_array_find_func("main").ir_list_head
  OBVIOUS
<1>2. main \in Nat
  <2>1. Defined("main") /\ functions \in Seq(Function)
    BY DEF emit_entry, IInv, TypeOK
  <2>2. PICK k \in 1..Len(functions) : main = functions[k].ir_list_head
    BY <1>1, <2>1, FunctionFound
  <2>3. functions[k].ir_list_head \in 1..Len(heap)
    BY DEF IInv, FunctionTable
  <2> QED BY <2>2, <2>3
<1>3. PICK nodes \in Seq(IrNode) :
           /\ nodes = << new_call(main),
                         new_binary("MOV", operand_reg("RDI"), operand_reg("RAX")),
                         new_binary("MOV", operand_reg("RAX"), operand_imm(60)),
                         new_syscall >>
           /\ Len(nodes) = 4
           /\ nodes[4] = new_syscall
           /\ \A i \in 1..4 : nodes[i].operation \notin {"JMP"}
           /\ Climbs(nodes, "entry", 0, 0)
  BY <1>2, EntryClimbs
<1>4. EmitTo(heap, nodes) /\ heap \in Seq(IrNode)
  BY <1>1, <1>3, HandlerState DEF emit_entry, Emit
<1>5. Place = "entry"
  <2>1. walk = <<>>
    BY DEF emit_entry, Extracting
  <2> QED BY <2>1 DEF Place, InFunction
<1>6. PICK more : Extends(sh, more) /\ FreshFlows(more, 0, 0)
  <2>1. PICK low \in Nat : low = 0
    OBVIOUS
  <2>2. Climbs(nodes, Place, low, low) /\ Place \in {"entry", "body"}
    BY <1>3, <1>5, <2>1
  <2>3. \E more : Extends(sh, more) /\ FreshFlows(more, low, low)
    BY <1>4, <2>2, ShapesFor
  <2> QED BY <2>1, <2>3
<1>7. /\ Len(list') = Len(list) + 4 /\ Len(list) \in Nat
      /\ \A i \in 1..4 : heap'[list'[Len(list) + i]] = nodes[i]
  <2>1. /\ Len(list') = Len(list) + Len(nodes)
        /\ \A i \in 1..Len(nodes) : list'[Len(list) + i] = Len(heap) + i
    BY <1>4, HandlerState, EmitTyped
  <2>2. \A i \in 1..Len(nodes) : heap'[Len(heap) + i] = nodes[i]
    BY <1>4, EmitsFresh
  <2>3. Len(list) \in Nat
    BY HandlerState
  <2>4. Len(list') = Len(list) + 4
    BY <1>3, <2>1
  <2>5. ASSUME NEW i \in 1..4
        PROVE  heap'[list'[Len(list) + i]] = nodes[i]
    <3>1. i \in 1..Len(nodes)
      BY <1>3
    <3> QED BY <2>1, <2>2, <3>1
  <2> QED BY <2>3, <2>4, <2>5
<1>8. Len(list) < Len(list') /\ more[list'[Len(list) + 1]] = Entry
  <2>1. Len(list) < Len(list')
    BY <1>7
  <2> QED BY <1>5, <1>6, <2>1 DEF FreshFlows, Entry
<1>9. ASSUME NEW i \in (Len(list) + 1)..Len(list')
      PROVE  /\ Flows(At(i)', more[list'[i]], IF i < Len(list') THEN more[list'[i + 1]] ELSE tail)
             /\ At(i)'.operation # "JMP"
             /\ more[list'[i]].place = "entry"
  <2>1. /\ Flows(At(i)', more[list'[i]],
                 IF i < Len(list') THEN more[list'[i + 1]] ELSE shape(Place, 0))
        /\ more[list'[i]].place = "entry"
    BY <1>5, <1>6 DEF FreshFlows
  <2>2. PICK j \in 1..4 : i = Len(list) + j /\ (i = Len(list') => j = 4)
    <3>1. PICK m \in Nat, n \in Nat : m = Len(list) /\ n = Len(list')
      BY <1>7
    <3>2. i \in (m + 1)..n /\ n = m + 4
      BY <1>7, <3>1
    <3>3. \E j \in 1..4 : i = m + j /\ (i = n => j = 4)
      <4>1. i - m \in 1..4 /\ i = m + (i - m) /\ (i = n => i - m = 4)
        BY ONLY <3>1, <3>2, SMT
      <4> QED BY <4>1
    <3> QED BY <3>1, <3>3
  <2>3. At(i)' = nodes[j]
    BY <1>7, <2>2 DEF At
  <2>4. At(i)'.operation # "JMP"
    BY <1>3, <2>3
  <2>5. CASE i < Len(list')
    BY <2>1, <2>4, <2>5
  <2>6. CASE ~ (i < Len(list'))
    <3>1. i = Len(list')
      BY <1>7, <2>6
    <3>2. At(i)' = new_syscall
      BY <1>3, <2>2, <2>3, <3>1
    <3>3. Flows(new_syscall, more[list'[i]], shape(Place, 0))
      BY <2>1, <2>6, <3>2
    <3>4. PICK node, s, t : node = new_syscall /\ s = more[list'[i]] /\ t = shape(Place, 0)
      OBVIOUS
    <3>5. node.operation = "SYSCALL"
      BY <3>4 DEF new_syscall, new_unary, new_binary, instruction
    <3>6. Flows(node, s, t)
      BY <3>3, <3>4
    <3>7. Flows(node, s, tail)
      BY ONLY <3>5, <3>6 DEF Flows, Inert
    <3> QED BY <2>1, <2>4, <2>6, <3>2, <3>4, <3>7
  <2> QED BY <2>5, <2>6
<1> QED BY <1>6, <1>8, <1>9

\* A step of the driver keeps the shapes when those of the nodes it adds, and
\* of the place behind them, fit.
LEMMA DriverKeepsShapes ==
  ASSUME IInv, IInv', RegionInv', Driver, NEW sh, NEW under, Shaped(sh, under), Neat',
         NEW more, Extends(sh, more), NEW tail,
         tail = IF phase' = "declarations" \/ (walk' # <<>> /\ walk'[1].node.type = "NVAR")
                  THEN Entry ELSE Called,
         \A i \in (Len(list) + 1)..Len(list') :
           /\ Flows(At(i)', more[list'[i]], IF i < Len(list') THEN more[list'[i + 1]] ELSE tail)
           /\ At(i)'.operation # "JMP"
           /\ more[list'[i]].place = "entry",
         (IF phase = "declarations" THEN Entry ELSE Called)
           = IF Len(list) < Len(list') THEN more[list'[Len(list) + 1]] ELSE tail,
         \A k \in 1..Len(functions') : more[functions'[k].ir_list_head] = Called
  PROVE  \E later \in Seq(Nat) : Shaped(more, later)'
<1>1. /\ AppendsCode
      /\ walk = <<>> /\ ~ InFunction /\ ~ InFunction'
      /\ UNCHANGED <<ir_stack, func_return>>
      /\ list \in Seq(1..Len(heap)) /\ Len(list) \in Nat \ {0} /\ Len(list') \in Nat
      /\ Len(heap) \in Nat /\ Len(heap') \in Nat
      /\ walk' = <<>> \/ \E node : walk' = << [node |-> node, stage |-> COMPILING_LEFT] >>
  BY DriverAppends
<1>2. PICK later \in Seq(Nat) : Under(later)' /\ TailShape(later)' = tail
  BY <1>1, BetweenHeights
<1>3. TailShape(under) = IF phase = "declarations" THEN Entry ELSE Called
  BY <1>1 DEF TailShape
<1>4. Flowing(heap, list, more, TailShape(later))'
  <2>1. Flowing(heap, list, sh, TailShape(under))
    BY DEF Shaped
  <2>2. Flowing(heap', list', more, tail)
    BY <1>1, <1>3, <2>1, AppendedFlows
  <2> QED BY <1>2, <2>2 DEF Flowing
<1>5. Aimed(more)'
  <2>1. Aimed(sh)
    BY DEF Shaped
  <2>2. \A id \in 1..Len(heap) : more[id] = sh[id] /\ heap'[id] = heap[id]
    BY <1>1 DEF Extends, AppendsCode
  <2>3. func_return' # NIL => more[func_return'] = Idle
    <3>1. func_return # NIL => func_return \in 1..Len(heap)
      BY <1>1, HandlerState DEF NIL
    <3> QED BY <1>1, <2>1, <2>2, <3>1 DEF Aimed
  <2>4. ASSUME NEW e \in 1..Len(ir_stack'), heap'[ir_stack'[e]] = new_empty
        PROVE  more[ir_stack'[e]] = Idle
    <3>1. ir_stack \in Seq(1..Len(heap))
      BY DEF IInv, TypeOK
    <3>2. ir_stack'[e] = ir_stack[e] /\ e \in 1..Len(ir_stack) /\ ir_stack[e] \in 1..Len(heap)
      BY <1>1, <3>1
    <3>3. heap[ir_stack[e]] = new_empty
      BY <2>2, <2>4, <3>2
    <3> QED BY <2>1, <2>2, <3>2, <3>3 DEF Aimed
  <2> QED BY <1>1, <2>1, <2>3, <2>4, AppendedAims
<1>6. Housed(more)'
  <2>1. Housed(sh)
    BY DEF Shaped
  <2>2. \A i \in 1..Len(list) : more[list'[i]].place # "entry" =>
           \E last \in i..Len(list) : \E first \in 1..i : Home(more, first, last)'
    BY <1>1, <2>1, AppendedHomes
  <2>3. ASSUME NEW i \in 1..Len(list'), more[list'[i]].place # "entry"
        PROVE  \E last \in i..Len(list') : \E first \in 1..i : Home(more, first, last)'
    <3>1. i \in 1..Len(list)
      BY <1>1, <2>3
    <3>2. PICK last \in i..Len(list) : \E first \in 1..i : Home(more, first, last)'
      BY <2>2, <2>3, <3>1
    <3>3. last \in i..Len(list')
      BY <1>1 DEF AppendsCode
    <3> QED BY <3>2, <3>3
  <2> QED BY <1>1, <2>3, OutsideHoused
<1>7. more \in Seq(Shape) /\ Len(more) = Len(heap')
  BY DEF Extends
<1> QED BY <1>2, <1>4, <1>5, <1>6, <1>7 DEF Shaped

\* Declaring, entering a tree and finishing keep the shapes.
LEMMA DriverShaped ==
  ASSUME IInv, IInv', RegionInv', Driver, Tidy', NEW sh, NEW under, Shaped(sh, under)
  PROVE  \E more \in Seq(Shape), later \in Seq(Nat) : Shaped(more, later)'
<1> DEFINE tail == IF phase' = "declarations" \/ (walk' # <<>> /\ walk'[1].node.type = "NVAR")
                     THEN Entry ELSE Called
<1>1. /\ sh \in Seq(Shape) /\ Len(sh) = Len(heap) /\ Aimed(sh)
      /\ Len(list) \in Nat \ {0} /\ Len(heap) \in Nat
      /\ heap \in Seq(IrNode) /\ functions \in Seq(Function)
      /\ walk = <<>> /\ ~ InFunction /\ ~ InFunction'
  <2>1. functions \in Seq(Function)
    BY DEF IInv, TypeOK
  <2> QED BY <2>1, DriverAppends, HandlerState DEF Shaped
<1>2. \A k \in 1..Len(functions) :
        functions[k].ir_list_head \in 1..Len(heap) /\ sh[functions[k].ir_list_head] = Called
  BY <1>1 DEF IInv, FunctionTable, Aimed
<1>3. ASSUME UNCHANGED <<heap, list, functions>>, Neat',
             tail = IF phase = "declarations" THEN Entry ELSE Called
      PROVE  \E more \in Seq(Shape), later \in Seq(Nat) : Shaped(more, later)'
  <2>1. Extends(sh, sh)
    BY <1>1, <1>3 DEF Extends
  <2>2. \A i \in (Len(list) + 1)..Len(list') : FALSE
    BY <1>1, <1>3
  <2>3. ~ (Len(list) < Len(list'))
    BY <1>1, <1>3
  <2>4. \A k \in 1..Len(functions') : sh[functions'[k].ir_list_head] = Called
    BY <1>2, <1>3
  <2>5. \E later \in Seq(Nat) : Shaped(sh, later)'
    BY <1>3, <2>1, <2>2, <2>3, <2>4, DriverKeepsShapes
  <2> QED BY <1>1, <2>5
<1>4. CASE extract_variable
  <2>1. phase = "declarations" /\ phase' = "declarations" /\ UNCHANGED <<heap, list, functions>>
        /\ cursor.left.type = "NVAR" /\ walk' = Enter(walk, cursor.left)
    BY <1>4 DEF extract_variable, Extracting, code
  <2>2. walk' # <<>> => walk'[1].node.type = "NVAR"
    <3>1. ASSUME cursor.left # NULL
          PROVE  walk'[1].node = cursor.left
      <4>1. walk' = Append(<<>>, [node |-> cursor.left, stage |-> COMPILING_LEFT])
        BY <1>1, <2>1, <3>1 DEF Enter
      <4> QED BY <4>1
    <3>2. cursor.left = NULL => walk' = <<>>
      BY <1>1, <2>1 DEF Enter
    <3> QED BY <2>1, <3>1, <3>2
  <2>3. Neat'
    BY <2>2 DEF Neat
  <2>4. tail = IF phase = "declarations" THEN Entry ELSE Called
    BY <2>1
  <2> QED BY <1>3, <2>1, <2>3, <2>4
<1>5. CASE compile_next_function
  <2>1. /\ phase = "functions" /\ phase' = "functions" /\ UNCHANGED <<heap, list, functions>>
        /\ next_func <= Len(functions) /\ walk' = Enter(walk, functions[next_func].node)
    BY <1>5 DEF compile_next_function, code
  <2>2. next_func \in 1..Len(functions)
    <3>1. next_func \in Nat \ {0}
      BY DEF IInv, TypeOK
    <3> QED BY <1>1, <2>1, <3>1
  <2>3. PICK node : node = functions[next_func].node
    OBVIOUS
  <2>4. CASE node = NULL
    <3>1. walk' = <<>>
      BY <1>1, <2>1, <2>3, <2>4 DEF Enter
    <3>2. Neat' /\ tail = IF phase = "declarations" THEN Entry ELSE Called
      BY <2>1, <3>1 DEF Neat
    <3> QED BY <1>3, <2>1, <3>2
  <2>5. CASE node # NULL
    <3>1. walk' = << [node |-> node, stage |-> COMPILING_LEFT] >>
      <4>1. walk' = Append(<<>>, [node |-> node, stage |-> COMPILING_LEFT])
        BY <1>1, <2>1, <2>3, <2>5 DEF Enter
      <4> QED BY <4>1
    <3>2. Len(walk') = 1 /\ walk'[1].node = node
      BY <3>1
    <3>3. node.type = "NFUN" /\ node \notin LooseTrees
      BY <2>1, <2>2, <2>3, <2>5 DEF IInv, FunctionTable, Tidy
    <3>4. \A i \in 1..Len(walk') : i = 1
      BY <3>2
    <3>5. Neat'
      BY <3>2, <3>3, <3>4 DEF Neat
    <3>6. tail = IF phase = "declarations" THEN Entry ELSE Called
      BY <2>1, <3>2, <3>3
    <3> QED BY <1>3, <2>1, <3>5, <3>6
  <2> QED BY <2>4, <2>5
<1>6. CASE all_compiled
  <2>1. /\ phase = "functions" /\ phase' = "done" /\ UNCHANGED <<heap, list, functions>>
        /\ walk' = <<>>
    BY <1>6 DEF all_compiled, code
  <2>2. Neat' /\ tail = IF phase = "declarations" THEN Entry ELSE Called
    BY <2>1 DEF Neat
  <2> QED BY <1>3, <2>1, <2>2
<1>7. CASE extract_function
  <2>1. PICK new : new = function(cursor.left, Len(heap) + 1, cursor.left.value,
                                  ChainOf(cursor.left.left))
    OBVIOUS
  <2>2. /\ heap' = Append(heap, new_empty) /\ functions' = Append(functions, new)
        /\ list' = list /\ new.ir_list_head = Len(heap) + 1 /\ walk' = <<>>
        /\ phase = "declarations" /\ phase' = "declarations"
    BY <1>1, <1>7, <2>1 DEF extract_function, Extracting, function
  <2>3. PICK set : set = Shape
    OBVIOUS
  <2>4. PICK called \in set : called = Called
    BY <2>3 DEF Called, shape, Shape
  <2>5. PICK more : more = Append(sh, called)
    OBVIOUS
  <2>6. /\ more \in Seq(Shape) /\ Len(more) = Len(heap) + 1
        /\ \A id \in 1..Len(heap) : more[id] = sh[id]
        /\ more[Len(heap) + 1] = Called
    BY <1>1, <2>3, <2>4, <2>5
  <2>7. Len(heap') = Len(heap) + 1
    BY <1>1, <2>2
  <2>8. Extends(sh, more)
    BY <1>1, <2>6, <2>7 DEF Extends
  <2>9. ASSUME NEW k \in 1..Len(functions')
        PROVE  more[functions'[k].ir_list_head] = Called
    <3>1. CASE k \in 1..Len(functions)
      <4>1. functions'[k] = functions[k]
        BY <1>1, <2>2, <3>1
      <4> QED BY <1>2, <2>6, <3>1, <4>1
    <3>2. CASE k \notin 1..Len(functions)
      <4>1. functions'[k] = new
        BY <1>1, <2>2, <3>2
      <4> QED BY <2>2, <2>6, <4>1
    <3> QED BY <3>1, <3>2
  <2>10. \A i \in (Len(list) + 1)..Len(list') : FALSE
    BY <1>1, <2>2
  <2>11. /\ Neat' /\ tail = Entry /\ ~ (Len(list) < Len(list'))
         /\ (IF phase = "declarations" THEN Entry ELSE Called) = Entry
    BY <1>1, <2>2 DEF Neat
  <2>12. \E later \in Seq(Nat) : Shaped(more, later)'
    BY <2>8, <2>9, <2>10, <2>11, DriverKeepsShapes
  <2> QED BY <2>6, <2>12
<1>8. CASE emit_entry
  <2>1. phase = "declarations" /\ phase' = "functions" /\ walk' = <<>> /\ functions' = functions
    BY <1>1, <1>8 DEF emit_entry, Extracting
  <2>2. Neat' /\ tail = Called
    BY <2>1 DEF Neat
  <2>3. PICK more :
           /\ Extends(sh, more)
           /\ Len(list) < Len(list') /\ more[list'[Len(list) + 1]] = Entry
           /\ \A i \in (Len(list) + 1)..Len(list') :
                /\ Flows(At(i)', more[list'[i]], IF i < Len(list') THEN more[list'[i + 1]] ELSE tail)
                /\ At(i)'.operation # "JMP"
                /\ more[list'[i]].place = "entry"
    <3>1. PICK end : end = tail
      OBVIOUS
    <3>2. \E more :
           /\ Extends(sh, more)
           /\ Len(list) < Len(list') /\ more[list'[Len(list) + 1]] = Entry
           /\ \A i \in (Len(list) + 1)..Len(list') :
                /\ Flows(At(i)', more[list'[i]], IF i < Len(list') THEN more[list'[i + 1]] ELSE end)
                /\ At(i)'.operation # "JMP"
                /\ more[list'[i]].place = "entry"
      BY <1>1, <1>8, EntryShapes
    <3> QED BY <3>1, <3>2
  <2>4. \A k \in 1..Len(functions') : more[functions'[k].ir_list_head] = Called
    BY <1>2, <2>1, <2>3 DEF Extends
  <2>5. (IF phase = "declarations" THEN Entry ELSE Called)
           = IF Len(list) < Len(list') THEN more[list'[Len(list) + 1]] ELSE tail
    BY <2>1, <2>3
  <2>6. \E later \in Seq(Nat) : Shaped(more, later)'
    BY <2>2, <2>3, <2>4, <2>5, DriverKeepsShapes
  <2>7. more \in Seq(Shape)
    BY <2>3 DEF Extends
  <2> QED BY <2>6, <2>7
<1> QED BY <1>4, <1>5, <1>6, <1>7, <1>8 DEF Driver

-----------------------------------------------------------------------------
(* The end of a function: the frame is made and dropped.                   *)

\* What the instructions around a frame need and leave.
LEMMA FrameFlows ==
  ASSUME NEW frame \in Nat
  PROVE  /\ Flows(Create(frame), Entered, Idle) /\ ~ SetsRbp(Create(frame))
         /\ Flows(Destroy(frame), Idle, Entered) /\ ~ SetsRbp(Destroy(frame))
         /\ Flows(new_pop_reg("RBP"), Entered, Called)
         /\ Flows(new_pop_reg("RBP"), Idle, Called)
         /\ \A t : Flows(new_ret, Called, t)
         /\ ~ SetsRbp(new_ret)
         /\ \A mov : mov.operation = "MOV" /\ mov.operand1 = operand_reg("RBP") =>
              Flows(mov, Pushed, Entered) /\ SetsRbp(mov)
<1>1. {"REG"} # {"MEM", "IMM", "REG"} /\ {"REG"} # {"MEM", "REG"} /\ {} # {"MEM", "REG"}
      /\ {} # {"MEM", "IMM", "REG"} /\ {} # {"REG"}
  <2>1. /\ "MEM" \notin {"REG"} /\ "MEM" \in {"MEM", "IMM", "REG"} /\ "MEM" \in {"MEM", "REG"}
        /\ "MEM" \notin {} /\ "REG" \in {"REG"} /\ "REG" \notin {}
    OBVIOUS
  <2> QED BY <2>1
<1>2. PICK create, destroy, pop, ret :
        /\ create = Create(frame) /\ destroy = Destroy(frame)
        /\ pop = new_pop_reg("RBP") /\ ret = new_ret
  OBVIOUS
<1>3. /\ create.operation = "SUB" /\ create.operand1 = operand_reg("RSP")
      /\ destroy.operation = "ADD" /\ destroy.operand1 = operand_reg("RSP")
      /\ pop.operation = "POP" /\ pop.operand1 = operand_reg("RBP")
      /\ ret.operation = "RET" /\ ret.operand1 = operand_none
  BY <1>2 DEF Create, Destroy, new_pop_reg, new_ret, new_unary, new_binary, instruction
<1>4. /\ operand_reg("RSP").flags = {"REG"} /\ operand_reg("RBP").flags = {"REG"}
      /\ operand_none.flags = {} /\ operand_top.flags = {"MEM", "REG"}
      /\ operand_reg("RSP") # operand_reg("RBP")
  BY DEF operand_reg, operand_none, operand_top
<1>5. /\ operand_reg("RSP") # operand_top /\ operand_reg("RBP") # operand_top
      /\ operand_none # operand_top
      /\ operand_none # operand_reg("RSP") /\ operand_none # operand_reg("RBP")
  BY <1>1, <1>4
<1>6. ASSUME NEW node, node.operand1.flags # {"MEM", "IMM", "REG"}
      PROVE  ~ IsLocalAccess(node)
  BY <1>6 DEF IsLocalAccess
<1>7. /\ ~ IsLocalAccess(create) /\ ~ IsLocalAccess(destroy) /\ ~ IsLocalAccess(pop)
      /\ ~ IsLocalAccess(ret)
  BY <1>1, <1>3, <1>4, <1>6
<1>8. /\ Flows(create, Entered, Idle) /\ ~ SetsRbp(create)
      /\ Flows(destroy, Idle, Entered) /\ ~ SetsRbp(destroy)
  BY <1>3, <1>4, <1>5, <1>7 DEF Flows, Takes, SetsRbp, Inert
<1>9. Flows(pop, Entered, Called) /\ Flows(pop, Idle, Called)
  BY <1>3, <1>4, <1>5, <1>7 DEF Flows, Takes, SetsRbp, Inert
<1>10. (\A t : Flows(ret, Called, t)) /\ ~ SetsRbp(ret)
  BY <1>3, <1>4, <1>5, <1>7 DEF Flows, Takes, SetsRbp, Inert
<1>11. ASSUME NEW mov, mov.operation = "MOV", mov.operand1 = operand_reg("RBP")
       PROVE  Flows(mov, Pushed, Entered) /\ SetsRbp(mov)
  <2>1. ~ IsLocalAccess(mov)
    BY <1>1, <1>4, <1>6, <1>11
  <2> QED BY <1>4, <1>5, <1>11, <2>1 DEF Flows, Takes, SetsRbp, Inert
<1> QED BY <1>2, <1>8, <1>9, <1>10, <1>11

\* The shapes around the nodes the epilogue adds.
LEMMA EpilogueShapes ==
  ASSUME IInv, CodeInv, compile_NFUN_end, NEW sh, NEW under, Shaped(sh, under),
         NEW start \in 1..(Len(list) + 1), Begun(start), Frameless(sh, start),
         NEW frame \in Nat, frame = stack_frame_size - SLOT
  PROVE  \E more :
           /\ Extends(sh, more) /\ list'[1] = list[1]
           /\ \A i \in 1..Len(list') :
                /\ Flows(At(i)', more[list'[i]],
                         IF i < Len(list') THEN more[list'[i + 1]] ELSE Called)
                /\ \/ \E j \in 1..Len(list) : list'[i] = list[j] /\ At(i)' = At(j)
                   \/ At(i)'.operation # "JMP"
                /\ i >= start /\ i < Len(list') =>
                     Framing(At(i)', more[list'[i]], more[list'[i + 1]], frame)
<1>1. PICK n \in Nat, l \in Nat : n = Len(heap) /\ l = Len(list)
  BY HandlerState
<1>2. PICK pos \in 1..l, by \in {0, 1} :
        /\ list[pos] = LastPending
        /\ by = (IF frame > 0 THEN 1 ELSE 0)
        /\ Len(heap') = n + 2 * by + 2
        /\ \A id \in 1..n : heap'[id] = heap[id]
        /\ \A i \in 1..pos : list'[i] = list[i]
        /\ \A i \in (pos + 1)..l : list'[i + by] = list[i]
        /\ list'[l + by + 1] = func_return
        /\ by = 1 => /\ list'[pos + 1] = n + 1 /\ heap'[n + 1] = Create(frame)
                     /\ list'[l + by + 2] = n + 2 /\ heap'[n + 2] = Destroy(frame)
        /\ Len(list') = l + by + by + 3
        /\ list'[l + by + by + 2] = n + 2 * by + 1
        /\ heap'[n + 2 * by + 1] = new_pop_reg("RBP")
        /\ list'[l + by + by + 3] = n + 2 * by + 2
        /\ heap'[n + 2 * by + 2] = new_ret
  <2>1. PICK pos \in 1..Len(list), by \in {0, 1} :
          LET h == Len(heap) + 2 * by
              t == Len(list) + by
          IN  /\ list[pos] = LastPending
              /\ by = (IF stack_frame_size - SLOT > 0 THEN 1 ELSE 0)
              /\ Len(heap') = h + 2
              /\ \A id \in 1..Len(heap) : heap'[id] = heap[id]
              /\ \A i \in 1..pos : list'[i] = list[i]
              /\ \A i \in (pos + 1)..Len(list) : list'[i + by] = list[i]
              /\ list'[t + 1] = func_return
              /\ by = 1 => /\ list'[pos + 1] = Len(heap) + 1
                           /\ heap'[Len(heap) + 1] = Create(stack_frame_size - SLOT)
                           /\ list'[t + 2] = Len(heap) + 2
                           /\ heap'[Len(heap) + 2] = Destroy(stack_frame_size - SLOT)
              /\ Len(list') = t + by + 3
              /\ list'[t + by + 2] = h + 1 /\ heap'[h + 1] = new_pop_reg("RBP")
              /\ list'[t + by + 3] = h + 2 /\ heap'[h + 2] = new_ret
    BY EpilogueCode DEF Create, Destroy
  <2> QED BY ONLY <1>1, <2>1, frame = stack_frame_size - SLOT
<1>3. /\ list \in Seq(1..n) /\ start \in Nat /\ start >= 1 /\ start + 2 <= l
      /\ InFunction /\ list[start + 2] = LastPending
      /\ func_return \in 1..n /\ heap'[func_return] = new_empty
  BY <1>1, EpilogueFrame, HandlerState
<1>4. pos = start + 2
  <2>1. start + 2 \in 1..l
    BY <1>3
  <2>2. \A i, j \in 1..l : list[i] = list[j] => i = j
    BY <1>1 DEF CodeInv, ListInv
  <2> QED BY <1>2, <1>3, <2>1, <2>2
<1>5. /\ sh \in Seq(Shape) /\ Len(sh) = n /\ Aimed(sh) /\ sh[func_return] = Idle
      /\ TailShape(under) = Idle /\ Flowing(heap, list, sh, TailShape(under))
  <2>1. /\ walk # <<>> /\ Len(walk) = 1 /\ Top = walk[1] /\ Top.node.type = "NFUN"
        /\ Top.stage = COMPILED_RIGHT /\ walk \in Seq(Frame)
    BY EpilogueState, HandlerState
  <2>2. Top \in Frame
    BY <2>1
  <2>3. Owed(Top) = 0
    BY <2>1, <2>2, Levels DEF Frame, COMPILING_LEFT, COMPILED_RIGHT
  <2>4. under[1] = 0
    BY <2>1 DEF Shaped, Under
  <2>5. under[Len(walk)] + (Held(Top) + Brought(Top)) = 0
    BY <2>1, <2>3, <2>4 DEF Owed
  <2>6. TailShape(under) = Idle
    BY <1>3, <2>1, <2>5 DEF TailShape, Place, Idle
  <2>7. func_return # NIL
    BY <1>3 DEF NIL
  <2> QED BY <1>1, <2>6, <2>7 DEF Shaped, Aimed
<1>6. PICK more \in Seq(Shape) :
        /\ Len(more) = n + 2 * by + 2
        /\ \A id \in 1..n : more[id] = sh[id]
        /\ by = 1 => more[n + 1] = Entered /\ more[n + 2] = Idle
        /\ more[n + 2 * by + 1] = IF by = 1 THEN Entered ELSE Idle
        /\ more[n + 2 * by + 2] = Called
  <2>1. PICK set : set = Shape
    OBVIOUS
  <2>2. PICK called \in set, entered \in set, idle \in set :
          called = Called /\ entered = Entered /\ idle = Idle
    BY <2>1 DEF Called, Entered, Idle, shape, Shape
  <2>3. CASE by = 1
    <3>1. << entered, idle, entered, called >> \in Seq(set)
      OBVIOUS
    <3>2. PICK tail \in Seq(set) : tail = << entered, idle, entered, called >>
      BY <3>1
    <3>3. /\ Len(tail) = 4 /\ tail[1] = entered /\ tail[2] = idle /\ tail[3] = entered
          /\ tail[4] = called
      BY <3>2
    <3>4. /\ sh \o tail \in Seq(set) /\ Len(sh \o tail) = n + 4
          /\ \A i \in 1..n : (sh \o tail)[i] = sh[i]
          /\ \A i \in 1..4 : (sh \o tail)[n + i] = tail[i]
      <4>1. sh \in Seq(set) /\ tail \in Seq(set)
        BY <1>5, <2>1
      <4>2. /\ sh \o tail \in Seq(set) /\ Len(sh \o tail) = Len(sh) + Len(tail)
            /\ \A i \in 1..Len(sh) : (sh \o tail)[i] = sh[i]
            /\ \A i \in 1..Len(tail) : (sh \o tail)[Len(sh) + i] = tail[i]
        BY ONLY <4>1, Behind
      <4> QED BY <1>5, <3>3, <4>2
    <3>5. n + 2 * by + 2 = n + 4 /\ n + 2 * by + 1 = n + 3
      BY <2>3
    <3>6. PICK both \in Seq(Shape) : both = sh \o tail
      BY <2>1, <3>4
    <3>7. 1 \in 1..4 /\ 2 \in 1..4 /\ 3 \in 1..4 /\ 4 \in 1..4
      OBVIOUS
    <3>8. /\ Len(both) = n + 4 /\ \A i \in 1..n : both[i] = sh[i]
          /\ both[n + 1] = Entered /\ both[n + 2] = Idle /\ both[n + 3] = Entered
          /\ both[n + 4] = Called
      BY <2>2, <3>3, <3>4, <3>6, <3>7
    <3> QED BY <2>3, <3>5, <3>8
  <2>4. CASE by = 0
    <3>1. << idle, called >> \in Seq(set)
      OBVIOUS
    <3>2. PICK tail \in Seq(set) : tail = << idle, called >>
      BY <3>1
    <3>3. Len(tail) = 2 /\ tail[1] = idle /\ tail[2] = called
      BY <3>2
    <3>4. /\ sh \o tail \in Seq(set) /\ Len(sh \o tail) = n + 2
          /\ \A i \in 1..n : (sh \o tail)[i] = sh[i]
          /\ \A i \in 1..2 : (sh \o tail)[n + i] = tail[i]
      <4>1. sh \in Seq(set) /\ tail \in Seq(set)
        BY <1>5, <2>1
      <4>2. /\ sh \o tail \in Seq(set) /\ Len(sh \o tail) = Len(sh) + Len(tail)
            /\ \A i \in 1..Len(sh) : (sh \o tail)[i] = sh[i]
            /\ \A i \in 1..Len(tail) : (sh \o tail)[Len(sh) + i] = tail[i]
        BY ONLY <4>1, Behind
      <4> QED BY <1>5, <3>3, <4>2
    <3>5. n + 2 * by + 2 = n + 2 /\ n + 2 * by + 1 = n + 1 /\ by # 1
      BY <2>4
    <3>6. PICK both \in Seq(Shape) : both = sh \o tail
      BY <2>1, <3>4
    <3>7. 1 \in 1..2 /\ 2 \in 1..2
      OBVIOUS
    <3>8. /\ Len(both) = n + 2 /\ \A i \in 1..n : both[i] = sh[i]
          /\ both[n + 1] = Idle /\ both[n + 2] = Called
      BY <2>2, <3>3, <3>4, <3>6, <3>7
    <3> QED BY <3>5, <3>8
  <2> QED BY <2>3, <2>4
<1>7. Extends(sh, more) /\ list'[1] = list[1]
  <2>1. n <= n + 2 * by + 2 /\ 1 \in 1..pos
    BY <1>3, <1>4
  <2> QED BY <1>1, <1>2, <1>6, <2>1 DEF Extends
<1>8. /\ frame > 0 => by = 1
      /\ ~ (frame > 0) => by = 0 /\ frame = 0
  BY <1>2
\* The nodes that were there.
<1>9. ASSUME NEW j \in 1..l
      PROVE  /\ list[j] \in 1..n /\ more[list[j]] = sh[list[j]] /\ heap'[list[j]] = At(j)
             /\ Flows(At(j), sh[list[j]], IF j < l THEN sh[list[j + 1]] ELSE Idle)
             /\ j >= start => sh[list[j]] # Entered /\ (SetsRbp(At(j)) => j = pos)
             /\ j >= start => (IF j < l THEN sh[list[j + 1]] ELSE Idle) # Entered
  <2>1. list[j] \in 1..n
    BY <1>3, <1>1, ElementOfSeq
  <2>2. Flows(At(j), sh[list[j]], IF j < l THEN sh[list[j + 1]] ELSE Idle)
    BY <1>1, <1>5 DEF Flowing, At
  <2>3. \A i \in start..l : sh[list[i]] # Entered /\ (SetsRbp(At(i)) => i = pos)
    BY <1>1, <1>4 DEF Frameless
  <2>4. j >= start => sh[list[j]] # Entered /\ (SetsRbp(At(j)) => j = pos)
    BY <1>3, <2>3
  <2>5. j >= start /\ j < l => sh[list[j + 1]] # Entered
    <3>1. j >= start /\ j < l => j + 1 \in start..l
      BY <1>3
    <3> QED BY <2>3, <3>1
  <2>6. Idle # Entered
    BY DEF Idle, Entered, shape
  <2> QED BY <1>2, <1>6, <2>1, <2>2, <2>4, <2>5, <2>6 DEF At
\* Behind the prologue's mov, what follows an old node still does.
<1>10. ASSUME NEW j \in pos..l
       PROVE  more[list'[j + 1 + by]] = IF j < l THEN sh[list[j + 1]] ELSE Idle
  <2>1. CASE j < l
    <3>1. j + 1 \in (pos + 1)..l /\ j + 1 \in 1..l /\ j + 1 + by = (j + 1) + by
      BY <2>1
    <3>2. list'[j + 1 + by] = list[j + 1]
      BY <1>2, <3>1
    <3> QED BY <1>9, <2>1, <3>1, <3>2
  <2>2. CASE ~ (j < l)
    <3>1. j + 1 + by = l + by + 1
      BY <2>2
    <3> QED BY <1>2, <1>3, <1>5, <1>6, <2>2, <3>1
  <2> QED BY <2>1, <2>2
\* The mov, with nothing behind it that makes a frame.
<1>11. /\ At(pos).operation = "MOV" /\ At(pos).operand1 = operand_reg("RBP")
       /\ sh[list[pos]] = Pushed /\ more[list'[pos + 1 + by]] = Idle
  <2>1. At(pos).operation = "MOV" /\ At(pos).operand1 = operand_reg("RBP")
    <3>1. /\ walk # <<>> /\ Top.node.type = "NFUN" /\ Top.stage = COMPILED_RIGHT
          /\ Len(ir_stack) = 1 /\ LastPending = ir_stack[1] /\ Len(walk) = 1
          /\ walk \in Seq(Frame)
      BY EpilogueState, HandlerState
    <3>2. /\ Base(walk, Len(walk)) \in Nat
          /\ Len(ir_stack) = Base(walk, Len(walk)) + Len(Pending(Top))
          /\ \A k \in 1..Len(Pending(Top)) :
               Awaits(Pending(Top)[k], heap[ir_stack[Base(walk, Len(walk)) + k]])
      BY <3>1, TopEntries DEF CodeInv
    <3>3. Pending(Top) = << "prologue" >>
      <4>1. Top \in Frame
        BY <3>1 DEF Top
      <4> QED BY <3>1, <4>1, PendingCases DEF COMPILED_RIGHT
    <3>4. Len(Pending(Top)) = 1 /\ Pending(Top)[1] = "prologue"
      BY <3>3
    <3>5. Base(walk, Len(walk)) = 0
      BY <3>1, <3>2, <3>4
    <3>6. Awaits("prologue", heap[LastPending])
      <4>1. 1 \in 1..Len(Pending(Top)) /\ Base(walk, Len(walk)) + 1 = 1
        BY <3>4, <3>5
      <4> QED BY <3>1, <3>2, <3>4, <4>1
    <3> QED BY <1>2, <3>6 DEF Awaits, At
  <2>2. sh[list[pos]] = Pushed /\ (IF pos < l THEN sh[list[pos + 1]] ELSE Idle) \in {Entered, Idle}
    <3>1. pos \in 1..l
      OBVIOUS
    <3>2. PICK s, t : s = sh[list[pos]] /\ t = IF pos < l THEN sh[list[pos + 1]] ELSE Idle
      OBVIOUS
    <3>3. Flows(At(pos), s, t)
      BY <1>9, <3>1, <3>2
    <3>4. s = Pushed /\ t \in {Entered, Idle}
      BY <2>1, <3>3 DEF Flows, Takes
    <3> QED BY <3>2, <3>4
  <2>3. (IF pos < l THEN sh[list[pos + 1]] ELSE Idle) # Entered
    <3>1. pos \in 1..l /\ pos >= start
      BY <1>3, <1>4
    <3> QED BY <1>9, <3>1
  <2>4. pos \in pos..l
    OBVIOUS
  <2> QED BY <1>10, <2>1, <2>2, <2>3, <2>4
<1>12. /\ Flows(Create(frame), Entered, Idle) /\ ~ SetsRbp(Create(frame))
       /\ Flows(Destroy(frame), Idle, Entered) /\ ~ SetsRbp(Destroy(frame))
       /\ Flows(new_pop_reg("RBP"), Entered, Called)
       /\ Flows(new_pop_reg("RBP"), Idle, Called)
       /\ Flows(new_ret, Called, Called) /\ ~ SetsRbp(new_ret)
       /\ Flows(At(pos), Pushed, Entered) /\ SetsRbp(At(pos))
       /\ Flows(new_empty, Idle, Idle) /\ ~ SetsRbp(new_empty)
  <2>1. Idle \in Shape
    BY DEF Idle, shape, Shape
  <2> QED BY <1>11, <2>1, FrameFlows, NoOperandFlows
<1>13. /\ Create(frame).operation = "SUB" /\ Destroy(frame).operation = "ADD"
       /\ Create(frame).operand2.immediate = frame /\ Destroy(frame).operand2.immediate = frame
       /\ new_pop_reg("RBP").operation = "POP" /\ new_ret.operation = "RET"
       /\ new_empty.operation = "NOP"
  BY DEF new_empty, new_pop_reg, new_ret, Create, Destroy, new_unary, new_binary, instruction,
         operand_imm
<1>14. Idle # Entered /\ Called # Entered /\ Pushed # Entered /\ Idle # Called /\ Pushed # Idle
  BY DEF Idle, Entered, Called, Pushed, shape

<1> DEFINE after(i) == IF i < Len(list') THEN more[list'[i + 1]] ELSE Called
           Fits(i) ==
             /\ Flows(At(i)', more[list'[i]], after(i))
             /\ \/ \E j \in 1..Len(list) : list'[i] = list[j] /\ At(i)' = At(j)
                \/ At(i)'.operation # "JMP"
             /\ i >= start /\ i < Len(list') =>
                  Framing(At(i)', more[list'[i]], more[list'[i + 1]], frame)
<1>15. PICK last \in Nat : last = Len(list') /\ last = l + by + by + 3
  <2>1. l + by + by + 3 \in Nat
    OBVIOUS
  <2>2. Len(list') = l + by + by + 3
    BY <1>2
  <2> QED BY <2>1, <2>2
\* It is enough to know the node, its shape and the next one.
<1>16. ASSUME NEW i \in 1..last, NEW node, NEW s, NEW t,
              heap'[list'[i]] = node, more[list'[i]] = s,
              i < last => more[list'[i + 1]] = t, i = last => t = Called,
              Flows(node, s, t), i >= start => Framing(node, s, t, frame),
              (\E j \in 1..l : list'[i] = list[j] /\ node = At(j)) \/ node.operation # "JMP"
       PROVE  Fits(i)
  <2>1. At(i)' = node
    BY <1>16 DEF At
  <2>2. after(i) = t
    BY <1>15, <1>16
  <2> QED BY <1>1, <1>15, <1>16, <2>1, <2>2
\* An old node makes and drops no frame.
<1>17. ASSUME NEW j \in start..l, j # pos, NEW s, s = sh[list[j]],
              NEW t, t = IF j < l THEN sh[list[j + 1]] ELSE Idle
       PROVE  Framing(At(j), s, t, frame)
  <2>1. j \in 1..l /\ j >= start
    BY <1>3
  <2>2. s # Entered /\ t # Entered /\ ~ SetsRbp(At(j))
    BY <1>9, <1>17, <2>1
  <2> QED BY <2>2 DEF Framing
<1>18. ASSUME NEW i \in 1..last
       PROVE  \/ i \in 1..(pos - 1)
              \/ i = pos
              \/ by = 1 /\ i = pos + 1
              \/ \E j \in (pos + 1)..l : i = j + by
              \/ i = l + by + 1
              \/ by = 1 /\ i = l + by + 2
              \/ i = l + by + by + 2
              \/ i = last
  <2>1. \/ i \in 1..(pos - 1)
        \/ i = pos
        \/ by = 1 /\ i = pos + 1
        \/ i - by \in (pos + 1)..l /\ i = (i - by) + by
        \/ i = l + by + 1
        \/ by = 1 /\ i = l + by + 2
        \/ i = l + by + by + 2
        \/ i = last
    BY <1>15
  <2> QED BY <2>1
<1> HIDE DEF Fits
<1>19. ASSUME NEW i \in 1..(pos - 1) PROVE Fits(i)
  <2>1. /\ i \in 1..last /\ i < last /\ i \in 1..pos /\ i + 1 \in 1..pos /\ i \in 1..l
        /\ i + 1 \in 1..l /\ i < l /\ i # pos
    BY <1>15
  <2>2. list'[i] = list[i] /\ list'[i + 1] = list[i + 1]
    BY <1>2, <2>1
  <2>3. PICK node, s, t : node = At(i) /\ s = sh[list[i]] /\ t = sh[list[i + 1]]
    OBVIOUS
  <2>4. /\ heap'[list'[i]] = node /\ more[list'[i]] = s /\ more[list'[i + 1]] = t
        /\ Flows(node, s, t)
    BY <1>9, <2>1, <2>2, <2>3
  <2>5. i >= start => Framing(node, s, t, frame)
    <3>1. i >= start => i \in start..l
      BY <1>3, <2>1
    <3> QED BY <1>17, <2>1, <2>3, <3>1
  <2>6. i # last
    BY <2>1
  <2> QED BY <1>16, <2>1, <2>2, <2>3, <2>4, <2>5, <2>6
<1>20. Fits(pos)
  <2>1. pos \in 1..last /\ pos < last /\ pos # last
    BY <1>15
  <2>2. list'[pos] = list[pos]
    <3>1. pos \in 1..pos
      BY <1>3, <1>4
    <3> QED BY <1>2, <3>1
  <2>3. PICK node, s, t : node = At(pos) /\ s = Pushed /\ t = IF by = 1 THEN Entered ELSE Idle
    OBVIOUS
  <2>4. heap'[list'[pos]] = node /\ more[list'[pos]] = s
    BY <1>9, <1>11, <2>2, <2>3
  <2>5. more[list'[pos + 1]] = t
    <3>1. CASE by = 1
      BY <1>2, <1>6, <2>3, <3>1
    <3>2. CASE by = 0
      <4>1. pos + 1 + by = pos + 1
        BY <3>2
      <4> QED BY <1>11, <2>3, <3>2, <4>1
    <3> QED BY <3>1, <3>2
  <2>6. Flows(node, s, t)
    <3>1. CASE by = 1
      BY <1>12, <2>3, <3>1
    <3>2. CASE by = 0
      <4>1. /\ pos \in 1..l /\ pos \in pos..l
        OBVIOUS
      <4>2. Flows(node, s, IF pos < l THEN sh[list[pos + 1]] ELSE Idle)
        BY <1>9, <1>11, <2>3, <4>1
      <4>3. more[list'[pos + 1 + by]] = IF pos < l THEN sh[list[pos + 1]] ELSE Idle
        BY <1>10, <4>1
      <4> QED BY <1>11, <2>3, <3>2, <4>2, <4>3
    <3> QED BY <3>1, <3>2
  <2>7. Framing(node, s, t, frame)
    BY <1>8, <1>11, <1>14, <2>3 DEF Framing
  <2>8. node.operation # "JMP"
    BY <1>11, <2>3
  <2> QED BY <1>16, <2>1, <2>4, <2>5, <2>6, <2>7, <2>8
<1>21. ASSUME by = 1 PROVE Fits(pos + 1)
  <2>1. pos + 1 \in 1..last /\ pos + 1 < last /\ pos + 1 # last /\ pos + 1 + 1 = pos + 1 + by
    BY <1>15, <1>21
  <2>2. PICK i, node : i = pos + 1 /\ node = Create(frame)
    OBVIOUS
  <2>3. heap'[list'[i]] = node /\ more[list'[i]] = Entered /\ more[list'[i + 1]] = Idle
    BY <1>2, <1>6, <1>11, <1>21, <2>1, <2>2
  <2>4. Flows(node, Entered, Idle) /\ Framing(node, Entered, Idle, frame)
        /\ node.operation # "JMP"
    BY <1>12, <1>13, <2>2 DEF Framing
  <2> QED BY <1>16, <2>1, <2>2, <2>3, <2>4
<1>22. ASSUME NEW j \in (pos + 1)..l PROVE Fits(j + by)
  <2>1. /\ j + by \in 1..last /\ j + by < last /\ j + by # last /\ j \in 1..l /\ j \in pos..l
        /\ j \in start..l /\ j # pos /\ (j + by) + 1 = j + 1 + by
    BY <1>3, <1>4, <1>15
  <2>2. list'[j + by] = list[j]
    BY <1>2
  <2>3. PICK i, node, s, t : /\ i = j + by /\ node = At(j) /\ s = sh[list[j]]
                             /\ t = IF j < l THEN sh[list[j + 1]] ELSE Idle
    OBVIOUS
  <2>4. heap'[list'[i]] = node /\ more[list'[i]] = s /\ Flows(node, s, t)
    BY <1>9, <2>1, <2>2, <2>3
  <2>5. more[list'[i + 1]] = t
    BY <1>10, <2>1, <2>3
  <2>6. Framing(node, s, t, frame)
    BY <1>17, <2>1, <2>3
  <2> QED BY <1>16, <2>1, <2>2, <2>3, <2>4, <2>5, <2>6
<1>23. Fits(l + by + 1)
  <2>1. /\ l + by + 1 \in 1..last /\ l + by + 1 < last /\ l + by + 1 # last
        /\ l + by + 1 + 1 = l + by + 2 /\ (by = 0 => l + by + 2 = l + by + by + 2)
    BY <1>15
  <2>2. PICK i, node : i = l + by + 1 /\ node = new_empty
    OBVIOUS
  <2>3. heap'[list'[i]] = node /\ more[list'[i]] = Idle
    BY <1>2, <1>3, <1>5, <1>6, <2>2
  <2>4. more[list'[i + 1]] = Idle
    <3>1. CASE by = 1
      BY <1>2, <1>6, <2>1, <2>2, <3>1
    <3>2. CASE by = 0
      BY <1>2, <1>6, <2>1, <2>2, <3>2
    <3> QED BY <3>1, <3>2
  <2>5. Flows(node, Idle, Idle) /\ Framing(node, Idle, Idle, frame) /\ node.operation # "JMP"
    BY <1>12, <1>13, <2>2 DEF Framing
  <2> QED BY <1>16, <2>1, <2>2, <2>3, <2>4, <2>5
<1>24. ASSUME by = 1 PROVE Fits(l + by + 2)
  <2>1. /\ l + by + 2 \in 1..last /\ l + by + 2 < last /\ l + by + 2 # last
        /\ l + by + 2 + 1 = l + by + by + 2
    BY <1>15, <1>24
  <2>2. PICK i, node : i = l + by + 2 /\ node = Destroy(frame)
    OBVIOUS
  <2>3. heap'[list'[i]] = node /\ more[list'[i]] = Idle /\ more[list'[i + 1]] = Entered
    BY <1>2, <1>6, <1>24, <2>1, <2>2
  <2>4. Flows(node, Idle, Entered) /\ Framing(node, Idle, Entered, frame)
        /\ node.operation # "JMP"
    BY <1>12, <1>13, <2>2 DEF Framing
  <2> QED BY <1>16, <2>1, <2>2, <2>3, <2>4
<1>25. Fits(l + by + by + 2)
  <2>1. /\ l + by + by + 2 \in 1..last /\ l + by + by + 2 < last /\ l + by + by + 2 # last
        /\ l + by + by + 2 + 1 = l + by + by + 3
    BY <1>15
  <2>2. PICK i, node, s : /\ i = l + by + by + 2 /\ node = new_pop_reg("RBP")
                          /\ s = IF by = 1 THEN Entered ELSE Idle
    OBVIOUS
  <2>3. heap'[list'[i]] = node /\ more[list'[i]] = s /\ more[list'[i + 1]] = Called
    BY <1>2, <1>6, <2>1, <2>2
  <2>4. Flows(node, s, Called) /\ node.operation # "JMP"
    BY <1>12, <1>13, <2>2
  <2>5. Framing(node, s, Called, frame)
    BY <1>8, <1>13, <1>14, <2>2 DEF Framing
  <2> QED BY <1>16, <2>1, <2>2, <2>3, <2>4, <2>5
<1>26. Fits(last)
  <2>1. last \in 1..last /\ ~ (last < last)
    BY <1>15
  <2>2. PICK i, node : i = last /\ node = new_ret
    OBVIOUS
  <2>3. heap'[list'[i]] = node /\ more[list'[i]] = Called
    BY <1>2, <1>6, <1>15, <2>2
  <2>4. Flows(node, Called, Called) /\ Framing(node, Called, Called, frame)
        /\ node.operation # "JMP"
    BY <1>12, <1>13, <1>14, <2>2 DEF Framing
  <2> QED BY <1>16, <2>1, <2>2, <2>3, <2>4
<1>27. ASSUME NEW i \in 1..last PROVE Fits(i)
  BY <1>18, <1>19, <1>20, <1>21, <1>22, <1>23, <1>24, <1>25, <1>26
<1> QED BY <1>7, <1>15, <1>27 DEF Fits

\* At its end a function gets its frame, and drops it.
LEMMA EpilogueShaped ==
  ASSUME IInv, IInv', CodeInv, RegionInv', compile_NFUN_end,
         NEW sh, NEW under, Shaped(sh, under)
  PROVE  \E more \in Seq(Shape), later \in Seq(Nat) : Shaped(more, later)'
<1>1. PICK start \in 1..(Len(list) + 1) :
        /\ Begun(start)
        /\ Frameless(sh, start)
        /\ \A i \in 1..(start - 1) : sh[list[i]].place # "entry" =>
             \E last \in i..(start - 1) : \E first \in 1..i : Home(sh, first, last)
  BY DEF Shaped, Housed
<1>2. PICK frame \in Nat : frame = stack_frame_size - SLOT
  BY EpilogueState
<1>3. PICK more :
           /\ Extends(sh, more) /\ list'[1] = list[1]
           /\ \A i \in 1..Len(list') :
                /\ Flows(At(i)', more[list'[i]],
                         IF i < Len(list') THEN more[list'[i + 1]] ELSE Called)
                /\ \/ \E j \in 1..Len(list) : list'[i] = list[j] /\ At(i)' = At(j)
                   \/ At(i)'.operation # "JMP"
                /\ i >= start /\ i < Len(list') =>
                     Framing(At(i)', more[list'[i]], more[list'[i + 1]], frame)
  BY <1>1, <1>2, EpilogueShapes
<1>4. /\ sh \in Seq(Shape) /\ Len(sh) = Len(heap) /\ Aimed(sh)
      /\ Len(heap) \in Nat /\ list \in Seq(1..Len(heap)) /\ Len(list) \in Nat \ {0}
      /\ walk # <<>> /\ walk[1].node.type = "NFUN" /\ walk' = <<>>
      /\ functions' = functions /\ next_func' = next_func /\ phase' = phase
      /\ \A id \in 1..Len(heap) : more[id] = sh[id]
      /\ more \in Seq(Shape) /\ Len(more) = Len(heap') /\ Len(heap') >= Len(heap)
      /\ Len(heap') \in Nat
  <2>1. walk # <<>> /\ walk[1].node.type = "NFUN" /\ walk' = <<>> /\ UNCHANGED control
    BY EpilogueState
  <2>2. Len(heap') \in Nat
    <3>1. heap' \in Seq(IrNode)
      BY DEF IInv, TypeOK
    <3> QED BY <3>1
  <2>3. /\ Len(heap) \in Nat /\ list \in Seq(1..Len(heap)) /\ Len(list) \in Nat \ {0}
    BY HandlerState
  <2>4. Len(heap') >= Len(heap)
    BY <1>3, <2>2, <2>3 DEF Extends
  <2> QED BY <1>3, <2>1, <2>2, <2>3, <2>4 DEF Shaped, Extends, control
<1>5. PICK last \in Nat : last = Len(list')
  <2>1. list' \in Seq(1..Len(heap'))
    BY DEF IInv, TypeOK
  <2> QED BY <2>1
<1>6. PICK k : k = next_func - 1
  OBVIOUS
<1>7. start \in Nat /\ start >= 1 /\ start + 5 <= last /\ KeptBelow(start)
  <2>1. FunctionCode(start, frame, last)
    BY <1>1, <1>2, <1>5, <1>6, EpilogueNodes
  <2> QED BY <1>4, <2>1 DEF FunctionCode
<1>8. Region(k, start, last)' /\ FrameAt(start)' = frame /\ k \in 1..Len(functions)
  <2>1. k \in 1..Len(functions)
    BY <1>4, <1>5, <1>6, FunctionCompiled
  <2> QED BY <1>1, <1>2, <1>5, <1>6, <2>1, EpilogueRegion
<1>9. Home(more, start, last)'
  <2>1. ASSUME NEW i \in start..(last - 1)
        PROVE  Framing(At(i)', more[list'[i]], more[list'[i + 1]], FrameAt(start)')
    <3>1. i \in 1..Len(list') /\ i >= start /\ i < Len(list')
      BY <1>5, <1>6, <1>7
    <3> QED BY <1>3, <1>8, <3>1
  <2> QED BY <1>4, <1>8, <2>1 DEF Home
<1>10. ~ InFunction'
  BY <1>4 DEF InFunction
<1>11. PICK later \in Seq(Nat) : Under(later)' /\ TailShape(later)' = Called
  <2>1. phase' # "declarations"
    <3>1. phase = "declarations" => next_func = 1
      BY DEF CodeInv, FunctionOrder
    <3>2. next_func - 1 \in 1..Len(functions)
      BY <1>5, <1>6, <1>8
    <3> QED BY <1>4, <3>1, <3>2
  <2> QED BY <1>4, <1>10, <2>1, BetweenHeights
<1>12. Flowing(heap, list, more, TailShape(later))'
  <2>1. Flowing(heap', list', more, Called)
    BY <1>3 DEF Flowing, At
  <2> QED BY <1>11, <2>1 DEF Flowing
<1>13. Aimed(more)'
  <2>1. more[list'[1]] = Entry
    <3>1. list[1] \in 1..Len(heap)
      BY <1>4
    <3> QED BY <1>3, <1>4, <3>1 DEF Aimed
  <2>2. ASSUME NEW i \in 1..Len(list'), At(i)'.operation = "JMP", At(i)'.jump_target # NIL
        PROVE  At(i)'.jump_target \in 1..Len(heap') /\ more[At(i)'.jump_target] = Idle
    <3>1. PICK j \in 1..Len(list) : At(i)' = At(j)
      BY <1>3, <2>2
    <3>2. PICK target : target = At(j).jump_target
      OBVIOUS
    <3>3. At(i)'.jump_target = target
      BY ONLY <3>1, <3>2
    <3>4. target \in 1..Len(heap) /\ sh[target] = Idle
      BY <1>4, <2>2, <3>1, <3>2 DEF Aimed
    <3>5. target \in 1..Len(heap') /\ more[target] = Idle
      <4>1. PICK n \in Nat, m \in Nat : n = Len(heap) /\ m = Len(heap') /\ m >= n
        BY ONLY <1>4
      <4>2. target \in 1..n /\ more[target] = sh[target]
        BY ONLY <1>4, <3>4, <4>1
      <4>3. target \in 1..m
        BY ONLY <4>1, <4>2
      <4> QED BY ONLY <3>4, <4>1, <4>2, <4>3
    <3> QED BY ONLY <3>3, <3>5
  <2>3. ASSUME NEW c \in 1..Len(functions') PROVE more[functions'[c].ir_list_head] = Called
    <3>1. functions[c].ir_list_head \in 1..Len(heap)
      BY <1>4 DEF IInv, FunctionTable
    <3> QED BY <1>4, <3>1 DEF Aimed
  <2>4. func_return' = NIL
    BY DEF compile_NFUN_end
  <2>5. Len(ir_stack') = 0
    <3>1. Len(ir_stack) = 1 /\ ir_stack' = SubSeq(ir_stack, 1, Len(ir_stack) - 1)
          /\ ir_stack \in Seq(1..Len(heap))
      BY EpilogueState, HandlerState DEF compile_NFUN_end
    <3> QED BY <3>1
  <2>6. \A e \in 1..Len(ir_stack') : FALSE
    BY <2>5
  <2> QED BY <2>1, <2>2, <2>3, <2>4, <2>6 DEF Aimed
<1>14. Housed(more)'
  <2>1. ASSUME NEW i \in 1..Len(list'), more[list'[i]].place # "entry"
        PROVE  \E end \in i..Len(list') : \E first \in 1..i : Home(more, first, end)'
    <3>1. CASE i < start
      <4>1. i \in 1..(start - 1) /\ i \in 1..Len(list)
        BY <3>1, <1>7
      <4>2. list'[i] = list[i] /\ list[i] \in 1..Len(heap)
        <5>1. list'[i] = list[i]
          BY <1>7, <4>1 DEF KeptBelow
        <5> QED BY <1>4, <4>1, <5>1, ElementOfSeq
      <4>3. PICK end \in i..(start - 1), first \in 1..i : Home(sh, first, end)
        BY <1>1, <1>4, <2>1, <4>1, <4>2
      <4>4. end \in 1..(start - 1) /\ first \in 1..end /\ end \in i..Len(list')
        BY <1>5, <1>6, <1>7, <4>1
      <4>5. \A c \in 1..Len(functions) :
              c \in 1..Len(functions') /\ functions'[c].ir_list_head = functions[c].ir_list_head
        BY <1>4
      <4>6. Home(more, first, end)'
        BY <1>4, <1>7, <4>3, <4>4, <4>5, HomeKept
      <4> QED BY <4>4, <4>6
    <3>2. CASE ~ (i < start)
      <4>1. last \in i..Len(list') /\ start \in 1..i
        BY <1>5, <1>6, <1>7, <3>2
      <4> QED BY <1>9, <4>1
    <3> QED BY <3>1, <3>2
  <2> QED BY <1>5, <1>6, <1>10, <2>1, OutsideHoused
<1>15. Neat'
  BY <1>4 DEF Neat
<1> QED BY <1>4, <1>11, <1>12, <1>13, <1>14, <1>15 DEF Shaped

-----------------------------------------------------------------------------
(* All steps.                                                              *)

\* When nothing happens the shapes stay.
LEMMA ShapesIdle ==
  ASSUME UNCHANGED vars, NEW sh, NEW under, Shaped(sh, under)
  PROVE  Shaped(sh, under)'
<1>1. UNCHANGED <<phase, next_func, functions, walk, name_scope, stack_frame_size, func_return,
                  ir_stack, heap, list>>
  BY DEF vars, control, scoping, code, returns
<1>2. \A k, first, last : Region(k, first, last)' <=> Region(k, first, last)
  BY <1>1 DEF Region, At, FrameAt
<1>3. InFunction' <=> InFunction
  BY <1>1 DEF InFunction
<1>4. \A first, last : Home(sh, first, last)' <=> Home(sh, first, last)
  BY <1>1, <1>2 DEF Home, At, FrameAt
<1>5. ASSUME NEW start, Begun(start) PROVE Begun(start)'
  <2>1. FrameSoFar' = FrameSoFar
    BY <1>1 DEF FrameSoFar
  <2>2. \A i \in start..Len(list) : Unfinished(At(i), list[i], start)'
    BY <1>1, <1>5, <2>1 DEF Begun, Unfinished, At
  <2> QED BY <1>1, <1>3, <1>5, <2>2 DEF Begun, At
<1>6. Housed(sh)'
  <2>1. PICK start \in 1..(Len(list) + 1) :
          /\ Begun(start)
          /\ Frameless(sh, start)
          /\ \A i \in 1..(start - 1) : sh[list[i]].place # "entry" =>
               \E last \in i..(start - 1) : \E first \in 1..i : Home(sh, first, last)
    BY DEF Shaped, Housed
  <2>2. Begun(start)' /\ Frameless(sh, start)'
    BY <1>1, <1>5, <2>1 DEF Frameless, At
  <2> QED BY <1>1, <1>4, <2>1, <2>2 DEF Housed
<1>7. Flowing(heap, list, sh, TailShape(under))'
  BY <1>1, <1>3 DEF Shaped, Flowing, TailShape, Place, Top
<1>8. Aimed(sh)'
  BY <1>1 DEF Shaped, Aimed, At
<1> QED BY <1>1, <1>6, <1>7, <1>8 DEF Shaped, Under, Neat

\* At first there is the empty node the list starts at.
LEMMA InitialShapes ==
  ASSUME Init, RegionInv
  PROVE  ShapeInv
<1>1. /\ phase = "declarations" /\ walk = <<>> /\ func_return = NIL /\ ir_stack = <<>>
      /\ heap = [i \in 1..5 |-> new_empty] /\ list = << 5 >>
      /\ functions = << function(NULL, 2, "print", 1), function(NULL, 3, "read", 0),
                        function(NULL, 4, "sqrt", 1) >>
  BY DEF Init
<1>2. /\ Len(list) = 1 /\ list[1] = 5 /\ Len(heap) = 5 /\ heap[5] = new_empty
      /\ At(1) = new_empty /\ Len(ir_stack) = 0 /\ Len(walk) = 0
  BY <1>1 DEF At
<1>3. PICK set : set = Shape
  OBVIOUS
<1>4. PICK entry \in set, called \in set : entry = Entry /\ called = Called
  BY <1>3 DEF Entry, Called, shape, Shape
<1>5. PICK sh \in Seq(set) : sh = << entry, called, called, called, entry >>
  <2>1. << entry, called, called, called, entry >> \in Seq(set)
    OBVIOUS
  <2> QED BY <2>1
<1>6. /\ sh \in Seq(Shape) /\ Len(sh) = 5 /\ sh[5] = Entry
      /\ sh[2] = Called /\ sh[3] = Called /\ sh[4] = Called
  BY <1>3, <1>4, <1>5
<1>7. PICK under : under = <<>>
  OBVIOUS
<1>8. Under(under)
  <2>1. under \in Seq(Nat) /\ Len(under) = 0
    BY <1>7
  <2>2. (\A i \in 1..(Len(walk) - 1) : FALSE) /\ (\A i \in 1..Len(walk) : FALSE)
    BY <1>2
  <2> QED BY <1>1, <1>2, <2>1, <2>2 DEF Under
<1>9. \A i \in 1..Len(list) : i = 1
  BY <1>2
<1>10. Flowing(heap, list, sh, TailShape(under))
  <2>1. TailShape(under) = Entry
    BY <1>1 DEF TailShape
  <2>2. Flows(new_empty, Entry, Entry)
    BY <1>3, <1>4, NoOperandFlows
  <2>3. ~ (1 < Len(list))
    BY <1>2
  <2> QED BY <1>2, <1>6, <1>9, <2>1, <2>2, <2>3 DEF Flowing
<1>11. Aimed(sh)
  <2>1. \A k \in 1..Len(functions) : sh[functions[k].ir_list_head] = Called
    <3>1. PICK a, b, c : /\ a = function(NULL, 2, "print", 1) /\ b = function(NULL, 3, "read", 0)
                         /\ c = function(NULL, 4, "sqrt", 1)
      OBVIOUS
    <3>2. a.ir_list_head = 2 /\ b.ir_list_head = 3 /\ c.ir_list_head = 4
      BY <3>1 DEF function
    <3>3. functions = << a, b, c >>
      BY <1>1, <3>1
    <3>4. Len(functions) = 3 /\ functions[1] = a /\ functions[2] = b /\ functions[3] = c
      BY <3>3
    <3>5. \A k \in 1..3 : k = 1 \/ k = 2 \/ k = 3
      OBVIOUS
    <3> QED BY <1>6, <3>2, <3>4, <3>5
  <2>2. \A i \in 1..Len(list) : At(i).operation # "JMP"
    BY <1>2, <1>9 DEF new_empty, instruction
  <2>3. \A e \in 1..Len(ir_stack) : FALSE
    BY <1>2
  <2> QED BY <1>1, <1>2, <1>6, <2>1, <2>2, <2>3 DEF Aimed
<1>12. Housed(sh)
  <2>1. PICK start \in 1..(Len(list) + 1) : Begun(start)
    BY DEF RegionInv, CodeFrom
  <2>2. start = 2
    BY <1>1, <1>2, <2>1 DEF Begun, InFunction
  <2>3. Frameless(sh, start)
    <3>1. \A i \in start..Len(list) : FALSE
      BY <1>2, <2>2
    <3> QED BY <3>1 DEF Frameless
  <2>4. \A i \in 1..(start - 1) : sh[list[i]].place = "entry"
    <3>1. \A i \in 1..(start - 1) : i = 1
      BY <2>2
    <3>2. sh[list[1]].place = "entry"
      BY <1>2, <1>6 DEF Entry, shape
    <3> QED BY <3>1, <3>2
  <2> QED BY <2>1, <2>3, <2>4 DEF Housed
<1>13. Neat
  BY <1>1 DEF Neat
<1>14. Shaped(sh, under)
  BY <1>2, <1>6, <1>8, <1>10, <1>11, <1>12, <1>13 DEF Shaped
<1> QED BY <1>6, <1>8, <1>14 DEF ShapeInv, Under

\* What is declared stays declared.
LEMMA FunctionsStay ==
  ASSUME IInv, [Next]_vars, Tidy'
  PROVE  Tidy
<1>1. functions \in Seq(Function)
  BY DEF IInv, TypeOK
<1>2. CASE extract_function
  <2>1. PICK new : functions' = Append(functions, new)
    BY <1>2 DEF extract_function
  <2>2. \A k \in 1..Len(functions) : k \in 1..Len(functions') /\ functions'[k] = functions[k]
    BY <1>1, <2>1
  <2> QED BY <2>2 DEF Tidy
<1>3. CASE ~ extract_function
  <2>1. functions' = functions
    <3>1. CASE HandleNode
      <4>1. BodyHandler \/ compile_NFUN_begin \/ compile_NFUN_end
        BY <3>1 DEF HandleNode, BodyHandler, Straight
      <4>2. CASE BodyHandler
        BY <4>2, BodyUnchanged DEF control
      <4> QED BY <4>1, <4>2 DEF compile_NFUN_begin, compile_NFUN_end, control
    <3>2. CASE Driver
      BY <1>3, <3>2 DEF Driver, extract_variable, emit_entry, compile_next_function, all_compiled
    <3>3. CASE Failure \/ UNCHANGED vars
      BY <3>3 DEF Failure, Fail, UndefinedVariable, UndefinedFunction, WrongArgumentCount,
                  MissingReturn, Redefinition, MissingMain, vars, control
    <3> QED BY <3>1, <3>2, <3>3 DEF Next, CodeGenStep, Returned
  <2> QED BY <2>1 DEF Tidy
<1> QED BY <1>2, <1>3

\* Every step keeps the shapes.
LEMMA ShapeStep ==
  ASSUME IInv, IInv', CodeInv, RegionInv, RegionInv', CodeEnds, ShapeInv, [Next]_vars
  PROVE  ShapeInv'
<1> SUFFICES ASSUME Tidy', phase' # "failed"
             PROVE  \E more \in Seq(Shape), later \in Seq(Nat) : Shaped(more, later)'
  BY DEF ShapeInv
<1>1. Tidy
  BY FunctionsStay
<1>2. phase # "failed"
  <2>1. CASE CodeGenStep
    BY <2>1 DEF CodeGenStep, HandleNode, Driver, Failure, Handling, Extracting,
       compile_NVAR, compile_ASS, compile_VAR, compile_CONST, compile_OP_dividend, compile_OP,
       compile_CALL, compile_RET, compile_SEQ, compile_BLOCK_begin, compile_BLOCK_end,
       compile_WHILE_start, compile_WHILE_test, compile_WHILE_end, compile_BRANCH_test,
       compile_BRANCH_else, compile_BRANCH_end, compile_NFUN_begin, compile_NFUN_body,
       compile_NFUN_end, compile_nothing, extract_variable, extract_function, emit_entry,
       compile_next_function, all_compiled, UndefinedVariable, UndefinedFunction,
       WrongArgumentCount, MissingReturn, Redefinition, MissingMain
  <2>2. CASE UNCHANGED vars
    BY <2>2 DEF vars, control
  <2> QED BY <2>1, <2>2 DEF Next, Returned
<1>3. PICK sh \in Seq(Shape), under \in Seq(Nat) : Shaped(sh, under)
  BY <1>1, <1>2 DEF ShapeInv
<1>4. CASE HandleNode
  <2>1. BodyHandler \/ compile_NFUN_begin \/ compile_NFUN_end
    BY <1>4 DEF HandleNode, BodyHandler, Straight
  <2> QED BY <1>3, <2>1, BodyShaped, PrologueShaped, EpilogueShaped
<1>5. CASE Driver
  BY <1>3, <1>5, DriverShaped
<1>6. CASE Failure
  BY <1>6 DEF Failure, Fail, UndefinedVariable, UndefinedFunction, WrongArgumentCount,
              MissingReturn, Redefinition, MissingMain
<1>7. CASE UNCHANGED vars
  BY <1>3, <1>7, ShapesIdle
<1> QED BY <1>4, <1>5, <1>6, <1>7 DEF Next, CodeGenStep, Returned

\* In every state of every tidy program, what each emitted node finds on the
\* stack is the same whichever way it is reached.
THEOREM ShapeInvariance == BackendSpec => []ShapeInv
<1>1. BackendInit => Init
  BY DEF BackendInit
<1>2. Init /\ RegionInv => ShapeInv
  BY InitialShapes
<1>3. BackendInv => CodeEnds
  BY DEF BackendInv, LinkInv
<1>4. [BackendNext]_backendVars => [Next]_vars
  BY BackendRefines
<1>5. IInv /\ IInv' /\ CodeInv /\ RegionInv /\ RegionInv' /\ CodeEnds /\ ShapeInv /\ [Next]_vars
        => ShapeInv'
  BY ShapeStep
<1> QED BY <1>1, <1>2, <1>3, <1>4, <1>5, GeneratorInvariance, BackendInvariance, PTL DEF BackendSpec
===============================================================================

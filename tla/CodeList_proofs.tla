---------------------------- MODULE CodeList_proofs ----------------------------
(***************************************************************************)
(* What the code generator does to the code it has emitted, for every      *)
(* syntax tree: the invariants CodeInv and RegionInv of module CodeGenInv  *)
(* are inductive on top of IInv, the stack of nodes to patch is that of    *)
(* the recursion, emitted code only changes where it should, the code of   *)
(* each function lies in one piece, jumps stay in it and locals in its     *)
(* frame.                                                                  *)
(***************************************************************************)
EXTENDS CodeGen_proofs

(* The entries of ir_stack, one activation above the other.                *)

\* How many nodes an activation has waiting, by its type and stage.
LEMMA PendingCases ==
  ASSUME NEW frame \in Frame
  PROVE  /\ frame.node.type \notin {"NFUN", "WHILE", "BRANCH"} => Pending(frame) = <<>>
         /\ frame.stage = 0 => Pending(frame) = <<>>
         /\ frame.node.type = "NFUN" /\ frame.stage # 0 => Pending(frame) = << "prologue" >>
         /\ frame.node.type = "WHILE" =>
              /\ frame.stage = 1 => Pending(frame) = << "start" >>
              /\ frame.stage \in {2, 3} => Pending(frame) = << "start", "exit" >>
         /\ frame.node.type = "BRANCH" =>
              /\ frame.stage = 1 => Pending(frame) = << "exit" >>
              /\ frame.stage \in {2, 3} => Pending(frame) = << "skip" >>
         /\ Len(Pending(frame)) \in 0..2
<1> USE DEF COMPILING_LEFT, COMPILED_LEFT, COMPILING_RIGHT, COMPILED_RIGHT
<1>1. frame.stage \in 0..3
  BY DEF Frame
<1>2. /\ frame.node.type \notin {"NFUN", "WHILE", "BRANCH"} => Pending(frame) = <<>>
      /\ frame.stage = 0 => Pending(frame) = <<>>
  BY <1>1 DEF Pending
<1>3. frame.node.type = "NFUN" /\ frame.stage # 0 => Pending(frame) = << "prologue" >>
  BY <1>1 DEF Pending
<1>4. frame.node.type = "WHILE" =>
        /\ frame.stage = 1 => Pending(frame) = << "start" >>
        /\ frame.stage \in {2, 3} => Pending(frame) = << "start", "exit" >>
  BY <1>1 DEF Pending
<1>5. frame.node.type = "BRANCH" =>
        /\ frame.stage = 1 => Pending(frame) = << "exit" >>
        /\ frame.stage \in {2, 3} => Pending(frame) = << "skip" >>
  BY <1>1 DEF Pending
<1>6. Len(Pending(frame)) \in 0..2
  <2>1. \/ Pending(frame) = <<>> \/ Pending(frame) = << "prologue" >>
        \/ Pending(frame) = << "start" >> \/ Pending(frame) = << "start", "exit" >>
        \/ Pending(frame) = << "exit" >> \/ Pending(frame) = << "skip" >>
    BY <1>1, <1>2, <1>3, <1>4, <1>5
  <2> QED BY <2>1
<1> QED BY <1>2, <1>3, <1>4, <1>5, <1>6

\* The entries below an activation are finitely many, and more of them below
\* a higher one.
LEMMA BaseGrows ==
  ASSUME NEW frames, NEW i \in Nat, NEW j \in Nat, i <= j
  PROVE  Base(frames, i) \in Nat /\ Base(frames, j) \in Nat /\ Base(frames, i) <= Base(frames, j)
<1>1. ASSUME NEW k \in Nat PROVE IsFiniteSet(PendingBelow(frames, k))
  <2>1. IsFiniteSet(1..(k - 1)) /\ IsFiniteSet(1..2)
    <3>1. 1 \in Int /\ 2 \in Int /\ k - 1 \in Int
      OBVIOUS
    <3> QED BY <3>1, FS_Interval
  <2>2. IsFiniteSet((1..(k - 1)) \X (1..2))
    BY <2>1, FS_Product
  <2>3. PendingBelow(frames, k) \subseteq (1..(k - 1)) \X (1..2)
    BY DEF PendingBelow
  <2> QED BY <2>2, <2>3, FS_Subset
<1>2. PendingBelow(frames, i) \subseteq PendingBelow(frames, j)
  BY DEF PendingBelow
<1>3. IsFiniteSet(PendingBelow(frames, i)) /\ IsFiniteSet(PendingBelow(frames, j))
  BY <1>1
<1> QED BY <1>2, <1>3, FS_Subset, FS_CardinalityType DEF Base

\* An activation's own entries are what lies between it and the next.
LEMMA BaseAbove ==
  ASSUME NEW frames \in Seq(Frame), NEW i \in 1..Len(frames)
  PROVE  /\ Base(frames, i) \in Nat
         /\ Len(Pending(frames[i])) \in 0..2
         /\ Base(frames, i + 1) = Base(frames, i) + Len(Pending(frames[i]))
<1> DEFINE n == Len(Pending(frames[i]))
           S == PendingBelow(frames, i)
<1>1. n \in 0..2 /\ i \in Nat
  BY PendingCases
<1>2. IsFiniteSet(S) /\ Base(frames, i) \in Nat
  <2>1. IsFiniteSet(1..(i - 1)) /\ IsFiniteSet(1..2)
    <3>1. 1 \in Int /\ 2 \in Int /\ i - 1 \in Int
      BY <1>1
    <3> QED BY <3>1, FS_Interval
  <2>2. IsFiniteSet((1..(i - 1)) \X (1..2))
    BY <2>1, FS_Product
  <2>3. S \subseteq (1..(i - 1)) \X (1..2)
    BY DEF PendingBelow
  <2>4. IsFiniteSet(S)
    BY <2>2, <2>3, FS_Subset
  <2> QED BY <2>4, FS_CardinalityType DEF Base
<1>3. \A entry : entry \in PendingBelow(frames, i + 1) <=>
        entry \in S \/ \E k \in 1..2 : k <= n /\ entry = << i, k >>
  <2> SUFFICES ASSUME NEW a \in Nat, NEW b \in 1..2
               PROVE  << a, b >> \in PendingBelow(frames, i + 1) <=>
                        << a, b >> \in S \/ (a = i /\ b <= n)
    BY <1>1 DEF PendingBelow
  <2>1. a \in 1..((i + 1) - 1) <=> a \in 1..(i - 1) \/ a = i
    BY <1>1
  <2> QED BY <2>1 DEF PendingBelow
<1>4. \A k \in 1..2 : << i, k >> \notin S
  BY <1>1 DEF PendingBelow
<1> HIDE DEF S, n
<1>5. CASE n = 0
  <2>1. \A entry : entry \in PendingBelow(frames, i + 1) <=> entry \in S
    BY <1>3, <1>5
  <2>2. PendingBelow(frames, i + 1) = S
    BY <2>1
  <2> QED BY <1>2, <1>5, <2>2 DEF Base, S, n
<1>6. CASE n = 1
  <2>1. PendingBelow(frames, i + 1) = S \cup {<< i, 1 >>}
    BY <1>3, <1>6
  <2>2. << i, 1 >> \notin S
    BY <1>4
  <2>3. Cardinality(S \cup {<< i, 1 >>}) = Cardinality(S) + 1
    BY <1>2, <2>2, FS_AddElement
  <2>4. Base(frames, i + 1) = Base(frames, i) + 1
    BY <2>1, <2>3, Zenon DEF Base, S
  <2> QED BY <1>2, <1>6, <2>4 DEF n
<1>7. CASE n = 2
  <2>1. PendingBelow(frames, i + 1) = (S \cup {<< i, 1 >>}) \cup {<< i, 2 >>}
    BY <1>3, <1>7
  <2>2. /\ IsFiniteSet(S \cup {<< i, 1 >>})
        /\ Cardinality(S \cup {<< i, 1 >>}) = Cardinality(S) + 1
    <3>1. << i, 1 >> \notin S
      BY <1>4
    <3> QED BY <1>2, <3>1, FS_AddElement, Zenon
  <2>3. << i, 2 >> \notin S \cup {<< i, 1 >>}
    BY <1>4
  <2>4. Cardinality((S \cup {<< i, 1 >>}) \cup {<< i, 2 >>}) = (Cardinality(S) + 1) + 1
    BY <2>2, <2>3, FS_AddElement
  <2>5. Base(frames, i + 1) = (Base(frames, i) + 1) + 1
    BY <2>1, <2>4 DEF Base, S
  <2> QED BY <1>2, <1>7, <2>5 DEF n
<1>8. n = 0 \/ n = 1 \/ n = 2
  BY <1>1
<1> QED BY <1>5, <1>6, <1>7, <1>8

\* Where the activations below are the same, so are their entries.
LEMMA BaseKept ==
  ASSUME NEW frames, NEW others, NEW m \in Nat, \A i \in 1..(m - 1) : frames[i] = others[i]
  PROVE  Base(frames, m) = Base(others, m)
<1>1. \A e \in (1..(m - 1)) \X (1..2) : frames[e[1]] = others[e[1]]
  OBVIOUS
<1>2. PendingBelow(frames, m) = PendingBelow(others, m)
  BY <1>1 DEF PendingBelow
<1> QED BY <1>2 DEF Base

\* The last activation's entries are on top of the stack, in the roles its
\* type and stage give them.
LEMMA TopEntries ==
  ASSUME IInv, PatchStackMatchesWalk, walk # <<>>
  PROVE  /\ Base(walk, Len(walk)) \in Nat
         /\ Len(ir_stack) = Base(walk, Len(walk)) + Len(Pending(Top))
         /\ \A k \in 1..Len(Pending(Top)) :
              Awaits(Pending(Top)[k], heap[ir_stack[Base(walk, Len(walk)) + k]])
<1>1. walk \in Seq(Frame) /\ Len(walk) \in Nat \ {0}
  BY HandlerState
<1>2. /\ Base(walk, Len(walk)) \in Nat
      /\ Base(walk, Len(walk) + 1) = Base(walk, Len(walk)) + Len(Pending(walk[Len(walk)]))
  BY <1>1, BaseAbove
<1> QED BY <1>1, <1>2 DEF PatchStackMatchesWalk, Top

\* The entries of the other activations are below them.
LEMMA LowerEntries ==
  ASSUME IInv, PatchStackMatchesWalk, NEW i \in 1..(Len(walk) - 1)
  PROVE  /\ Base(walk, i) \in Nat
         /\ Len(Pending(walk[i])) \in 0..2
         /\ Base(walk, i) + Len(Pending(walk[i])) <= Base(walk, Len(walk))
<1>1. walk \in Seq(Frame) /\ Len(walk) \in Nat
  BY HandlerState
<1>2. /\ Base(walk, i) \in Nat /\ Len(Pending(walk[i])) \in 0..2
      /\ Base(walk, i + 1) = Base(walk, i) + Len(Pending(walk[i]))
  BY <1>1, BaseAbove
<1>3. Base(walk, i + 1) <= Base(walk, Len(walk))
  <2>1. i + 1 \in Nat /\ Len(walk) \in Nat /\ i + 1 <= Len(walk)
    BY <1>1
  <2> QED BY <2>1, BaseGrows
<1> QED BY <1>2, <1>3

\* A handler that leaves the entries below its own alone, and leaves for its
\* next stage what that stage needs, keeps the stack that of the recursion.
LEMMA EntriesKept ==
  ASSUME IInv, IInv', PatchStackMatchesWalk, walk # <<>>, Proceed,
         NEW after, after = [node |-> Top.node, stage |-> Top.stage + 1],
         \A i \in 1..Base(walk, Len(walk)) :
           /\ ir_stack'[i] = ir_stack[i]
           /\ heap'[ir_stack[i]] = heap[ir_stack[i]],
         Top.stage = COMPILED_RIGHT => Len(ir_stack') = Base(walk, Len(walk)),
         Top.stage # COMPILED_RIGHT =>
           /\ Len(ir_stack') = Base(walk, Len(walk)) + Len(Pending(after))
           /\ \A k \in 1..Len(Pending(after)) :
                Awaits(Pending(after)[k], heap'[ir_stack'[Base(walk, Len(walk)) + k]]),
         \A i \in 1..Len(ir_stack') : \A j \in 1..(i - 1) : ir_stack'[j] # ir_stack'[i]
  PROVE  PatchStackMatchesWalk'
<1> USE DEF COMPILING_LEFT, COMPILED_LEFT, COMPILING_RIGHT, COMPILED_RIGHT
<1> DEFINE n == Len(walk)
           b == Base(walk, n)
<1>1. /\ walk \in Seq(Frame) /\ n \in Nat \ {0} /\ walk' \in Seq(Frame) /\ Len(walk') \in Nat
  BY HandlerState, ProceedWalk
<1>2. Top.stage \in 0..3 /\ Top = walk[n]
  BY <1>1, TopTyped DEF Top
<1>3. /\ \A i \in 1..(n - 1) : walk'[i] = walk[i]
      /\ Top.stage = 3 => Len(walk') = n - 1
      /\ Top.stage # 3 => /\ Len(walk') \in {n, n + 1}
                          /\ walk'[n] = after
      /\ Len(walk') = n + 1 => Len(Pending(walk'[n + 1])) = 0
  <2>1. /\ \A i \in 1..(n - 1) : walk'[i] = walk[i]
        /\ Top.stage = 3 => Len(walk') = n - 1
        /\ Top.stage # 3 => /\ Len(walk') \in {n, n + 1}
                            /\ walk'[n].node = Top.node
                            /\ walk'[n].stage = Top.stage + 1
        /\ Len(walk') = n + 1 => walk'[n + 1].stage = 0
    BY <1>1, ProceedWalk
  <2>2. Top.stage # 3 => walk'[n] = after
    <3>1. Top.stage # 3 => walk'[n] \in Frame
      BY <1>1, <2>1
    <3> QED BY <2>1, <3>1 DEF Frame
  <2>3. Len(walk') = n + 1 => Len(Pending(walk'[n + 1])) = 0
    <3>1. Len(walk') = n + 1 => walk'[n + 1] \in Frame
      BY <1>1
    <3> QED BY <2>1, <3>1, PendingCases
  <2> QED BY <2>1, <2>2, <2>3
<1>4. b \in Nat /\ \A m \in 1..n : Base(walk', m) = Base(walk, m)
  <2>1. ASSUME NEW m \in 1..n PROVE Base(walk', m) = Base(walk, m)
    <3>1. m \in Nat /\ \A i \in 1..(m - 1) : walk'[i] = walk[i]
      BY <1>1, <1>3
    <3> QED BY <3>1, BaseKept
  <2> QED BY <2>1, TopEntries
<1>5. ASSUME NEW i \in 1..(n - 1), NEW k \in 1..Len(Pending(walk[i]))
      PROVE  /\ Pending(walk[i])' = Pending(walk[i])
             /\ Awaits(Pending(walk[i])[k], heap[ir_stack[Base(walk, i) + k]])'
  <2>1. walk'[i] = walk[i] /\ Base(walk', i) = Base(walk, i) /\ i \in 1..n
    <3>1. i \in 1..n
      BY <1>1
    <3> QED BY <1>3, <1>4, <3>1
  <2>2. Pending(walk[i])' = Pending(walk[i])
    BY <2>1 DEF Pending
  <2>3. Base(walk, i) \in Nat /\ Base(walk, i) + Len(Pending(walk[i])) <= b /\ Len(Pending(walk[i])) \in 0..2
    BY LowerEntries
  <2>4. Base(walk, i) + k \in 1..b
    BY <1>4, <2>3
  <2>5. Awaits(Pending(walk[i])[k], heap[ir_stack[Base(walk, i) + k]])
    BY <2>1 DEF PatchStackMatchesWalk
  <2>6. heap'[ir_stack'[Base(walk, i) + k]] = heap[ir_stack[Base(walk, i) + k]]
    BY <2>4
  <2>7. Awaits(Pending(walk[i])[k], heap'[ir_stack'[Base(walk, i) + k]])
    BY <2>5, <2>6
  <2>8. Awaits(Pending(walk[i])[k], heap[ir_stack[Base(walk, i) + k]])'
    BY <2>1, <2>2, <2>7
  <2> QED BY <2>2, <2>8
<1>6. \A i \in 1..Len(ir_stack') : Listed(ir_stack[i])'
  BY DEF IInv, PatchStack, Listed
<1>7. CASE Top.stage = 3
  <2>1. Len(walk') + 1 = n
    BY <1>1, <1>3, <1>7
  <2>2. Base(walk', Len(walk') + 1) = b
    BY <1>1, <1>4, <2>1
  <2>3. Len(ir_stack)' = Base(walk', Len(walk') + 1)
    BY <1>7, <2>2
  <2>4. \A i \in 1..Len(walk') : \A k \in 1..Len(Pending(walk[i])') :
          Awaits(Pending(walk[i])[k], heap[ir_stack[Base(walk, i) + k]])'
    BY <1>1, <1>3, <1>5, <1>7
  <2> QED BY <1>6, <2>3, <2>4 DEF PatchStackMatchesWalk
<1>8. CASE Top.stage # 3
  <2>1. /\ Base(walk', n + 1) = b + Len(Pending(after))
        /\ Len(Pending(after)) \in 0..2
    <3>1. n \in 1..Len(walk') /\ walk'[n] = after
      BY <1>1, <1>3, <1>8
    <3>2. Base(walk', n + 1) = Base(walk', n) + Len(Pending(walk'[n]))
          /\ Len(Pending(walk'[n])) \in 0..2
      BY <1>1, <3>1, BaseAbove
    <3>3. Base(walk', n) = b
      BY <1>1, <1>4
    <3> QED BY <3>1, <3>2, <3>3
  <2>2. Base(walk', Len(walk') + 1) = b + Len(Pending(after))
    <3>1. CASE Len(walk') = n
      BY <2>1, <3>1
    <3>2. CASE Len(walk') = n + 1
      <4>1. n + 1 \in 1..Len(walk')
        BY <1>1, <3>2
      <4>2. Base(walk', (n + 1) + 1) = Base(walk', n + 1) + Len(Pending(walk'[n + 1]))
            /\ Base(walk', n + 1) \in Nat
        BY <1>1, <4>1, BaseAbove
      <4> QED BY <1>3, <2>1, <3>2, <4>2
    <3> QED BY <1>3, <1>8, <3>1, <3>2
  <2>3. ASSUME NEW i \in 1..Len(walk'), NEW k \in 1..Len(Pending(walk'[i]))
        PROVE  Awaits(Pending(walk[i])[k], heap[ir_stack[Base(walk, i) + k]])'
    <3>1. CASE i < n
      <4>1. i \in 1..(n - 1) /\ walk'[i] = walk[i]
        BY <1>1, <1>3, <3>1
      <4> QED BY <1>5, <4>1
    <3>2. CASE i = n
      <4>1. walk'[i] = after /\ Base(walk', i) = b
        BY <1>1, <1>3, <1>4, <1>8, <3>2
      <4>2. Awaits(Pending(after)[k], heap'[ir_stack'[b + k]])
        BY <1>8, <4>1
      <4> QED BY <4>1, <4>2
    <3>3. CASE i = n + 1
      <4>1. Len(walk') = n + 1
        BY <1>1, <1>3, <1>8, <3>3
      <4>2. Len(Pending(walk'[n + 1])) = 0
        BY <1>3, <4>1
      <4> QED BY <3>3, <4>2
    <3> QED BY <1>1, <1>3, <1>8, <3>1, <3>2, <3>3
  <2>4. Len(ir_stack') = Base(walk', Len(walk') + 1)
    BY <1>8, <2>2
  <2> QED BY <1>6, <2>3, <2>4 DEF PatchStackMatchesWalk
<1> QED BY <1>7, <1>8

-----------------------------------------------------------------------------
(* The recursion again.                                                    *)

\* Activations are entered from their parents.
LEMMA LinkedKept ==
  ASSUME walk \in Seq(Frame), walk # <<>>, WalkLinked, Proceed
  PROVE  WalkLinked'
<1> USE DEF COMPILING_LEFT, COMPILED_LEFT, COMPILING_RIGHT, COMPILED_RIGHT
<1> DEFINE n == Len(walk)
<1>1. /\ n \in Nat \ {0} /\ walk' \in Seq(Frame) /\ Len(walk') \in Nat
      /\ Top = walk[n] /\ Top.stage \in 0..3
  BY ProceedWalk, TopTyped DEF Top
<1>2. /\ \A i \in 1..(n - 1) : walk'[i] = walk[i]
      /\ Top.stage = 3 => Len(walk') = n - 1
      /\ Top.stage # 3 =>
           /\ Len(walk') \in {n, n + 1}
           /\ walk'[n].node = Top.node
           /\ walk'[n].stage = Top.stage + 1
      /\ Len(walk') = n + 1 =>
           \/ Top.stage = 0 /\ walk'[n + 1].node = Top.node.left
           \/ Top.stage = 2 /\ walk'[n + 1].node = Top.node.right
  BY ProceedWalk
<1>3. SUFFICES ASSUME NEW i \in 1..(Len(walk') - 1)
               PROVE  \/ walk'[i].stage = 1 /\ walk'[i + 1].node = walk'[i].node.left
                      \/ walk'[i].stage = 3 /\ walk'[i + 1].node = walk'[i].node.right
  BY DEF WalkLinked
<1>4. CASE i + 1 < n
  <2>1. i \in 1..(n - 1) /\ i + 1 \in 1..(n - 1)
    BY <1>1, <1>4
  <2> QED BY <1>2, <2>1 DEF WalkLinked
<1>5. CASE i + 1 = n
  <2>1. i \in 1..(n - 1) /\ Top.stage # 3
    BY <1>1, <1>2, <1>5
  <2>2. walk'[i] = walk[i] /\ walk'[i + 1].node = walk[i + 1].node
    BY <1>1, <1>2, <1>5, <2>1
  <2> QED BY <2>1, <2>2 DEF WalkLinked
<1>6. CASE i = n
  BY <1>1, <1>2, <1>6
<1> QED BY <1>1, <1>2, <1>4, <1>5, <1>6

\* An activation that finds its child compiled to a call resumes behind the
\* last stage of that call.
LEMMA CallReturns ==
  ASSUME walk \in Seq(Frame), walk # <<>>, WalkLinked, Proceed, CallCompiled'
  PROVE  Top.node.type = "CALL" /\ Top.stage = COMPILED_RIGHT
<1> USE DEF COMPILING_LEFT, COMPILED_LEFT, COMPILING_RIGHT, COMPILED_RIGHT
<1> DEFINE n == Len(walk)
           m == Len(walk')
           last == walk'[m]
<1>1. /\ n \in Nat \ {0} /\ walk' \in Seq(Frame) /\ m \in Nat
      /\ Top = walk[n] /\ Top.stage \in 0..3 /\ Top.node \in Node
  BY ProceedWalk, TopTyped DEF Top
<1>2. /\ \A i \in 1..(n - 1) : walk'[i] = walk[i]
      /\ Top.stage = 3 => m = n - 1
      /\ Top.stage # 3 =>
           /\ m \in {n, n + 1}
           /\ walk'[n].node = Top.node
           /\ walk'[n].stage = Top.stage + 1
      /\ m = n + 1 => last.stage = 0
      /\ Top.stage = 2 /\ Top.node.right # NULL => m = n + 1
      /\ Top.stage = 0 /\ Top.node.left # NULL => m = n + 1
  BY ProceedWalk
<1>3. /\ m # 0
      /\ \/ last.stage = 1 /\ TypeOf(last.node.left) = "CALL"
         \/ last.stage = 3 /\ TypeOf(last.node.right) = "CALL"
  <2>1. walk' # <<>>
    BY DEF CallCompiled
  <2> QED BY <1>1, <2>1 DEF CallCompiled, Top, TypeOf
<1>4. TypeOf(NULL) # "CALL"
  BY DEF TypeOf
<1>5. Top.stage = 3
  <2>1. CASE m = n + 1
    BY <1>2, <1>3, <2>1
  <2>2. CASE m = n /\ Top.stage # 3
    BY <1>1, <1>2, <1>3, <1>4, <2>2
  <2> QED BY <1>2, <2>1, <2>2
<1>6. m = n - 1 /\ m \in 1..(n - 1) /\ last = walk[m]
  BY <1>1, <1>2, <1>3, <1>5
<1>7. TypeOf(Top.node) = "CALL"
  <2>1. m + 1 = n
    BY <1>1, <1>6
  <2>2. \/ last.stage = 1 /\ Top.node = last.node.left
        \/ last.stage = 3 /\ Top.node = last.node.right
    BY <1>1, <1>6, <2>1 DEF WalkLinked
  <2> QED BY <1>3, <2>2
<1> QED BY <1>1, <1>5, <1>7, NodeFields DEF TypeOf

\* Handlers change neither the functions nor which of them is compiled.
LEMMA OrderKept ==
  ASSUME walk \in Seq(Frame), walk # <<>>, FunctionOrder, Proceed, UNCHANGED control
  PROVE  /\ FunctionOrder'
         /\ \A k \in 1..Len(functions) : next_func \in Nat /\ Waiting(k)' => Waiting(k)
<1> USE DEF COMPILING_LEFT, COMPILED_LEFT, COMPILING_RIGHT, COMPILED_RIGHT
<1>1. /\ Len(walk) \in Nat \ {0} /\ walk' \in Seq(Frame) /\ Len(walk') \in Nat
      /\ Top = walk[Len(walk)] /\ Top.stage \in 0..3
  BY ProceedWalk, TopTyped DEF Top
<1>2. walk' # <<>> => /\ walk'[1].node = walk[1].node
                      /\ walk'[1].stage = 0 => walk[1].stage = 0
  <2>1. CASE Len(walk) = 1
    <3>1. Top.stage # 3 => walk'[1].node = Top.node /\ walk'[1].stage = Top.stage + 1
      BY <2>1, ProceedWalk
    <3>2. Top.stage = 3 => walk' = <<>>
      BY <1>1, <2>1, ProceedWalk
    <3> QED BY <1>1, <2>1, <3>1, <3>2
  <2>2. CASE Len(walk) # 1
    <3>1. 1 \in 1..(Len(walk) - 1)
      <4> DEFINE n == Len(walk)
      <4>1. n \in Nat /\ n # 0 /\ n # 1
        BY <1>1, <2>2
      <4> HIDE DEF n
      <4>2. 1 \in 1..(n - 1)
        BY <4>1
      <4> QED BY <4>2 DEF n
    <3> QED BY <3>1, ProceedWalk
  <2> QED BY <2>1, <2>2
<1>3. UNCHANGED <<phase, next_func, functions>>
  BY DEF control
<1> QED BY <1>2, <1>3 DEF FunctionOrder, Waiting

-----------------------------------------------------------------------------
(* What a handler emits.                                                   *)

\* The nodes allocated by the step.
Fresh == (Len(heap) + 1)..Len(heap')

\* They are linked behind the others.
AppendsFresh ==
  \E links \in Seq(Fresh) :
    /\ list' = list \o links
    /\ \A i, j \in 1..Len(links) : links[i] = links[j] => i = j
    /\ \A id \in Fresh : \E i \in 1..Len(links) : links[i] = id

\* The handlers that patch the node on top of the stack.
Patching ==
  \/ Top.node.type = "WHILE" /\ Top.stage = COMPILED_RIGHT
  \/ Top.node.type = "BRANCH" /\ Top.stage \in {COMPILED_LEFT, COMPILED_RIGHT}

\* What may happen to a node emitted before.
HeapStep ==
  \A id \in 1..Len(heap) :
    \/ heap'[id] = heap[id]
    \/ /\ CallCompiled /\ Top.node.type \in {"SEQ", "WHILE", "BRANCH"}
       /\ id = ir_tail /\ heap'[id] = new_empty
    \/ /\ Patching /\ id = LastPending
       /\ \E target \in Fresh : heap'[id] = [heap[id] EXCEPT !.jump_target = target]

\* What may happen to the stack of nodes to patch: a node is taken off it only
\* when it is patched or a loop's start, and what is put on it is new.
StackStep ==
  /\ \A i \in 1..Len(ir_stack) : heap[ir_stack[i]].operation # "NOP" =>
       \/ Patching /\ ir_stack[i] = LastPending
       \/ \E j \in 1..Len(ir_stack') : ir_stack'[j] = ir_stack[i]
  /\ \A j \in 1..Len(ir_stack') :
       \/ ir_stack'[j] \in Fresh
       \/ \E i \in 1..Len(ir_stack) : ir_stack'[j] = ir_stack[i]

\* A node that neither ends a function nor makes its frame; a call leads to a
\* function, an access to memory to a variable in scope.
Ordinary(node) ==
  /\ node.operation \notin {"RET", "SYSCALL"}
  /\ node.operation = "SUB" => node.operand1 # operand_reg("RSP")
  /\ node.operation = "ADD" /\ node.operand1 = operand_reg("RSP") =>
       node.operand2.immediate \in Nat
  /\ node.operation = "CALL" =>
       \E k \in 1..Len(functions) : node.jump_target = functions[k].ir_list_head
  /\ IsLocalAccess(node) =>
       \E t \in 1..Len(name_scope') : \E i \in 1..Len(name_scope'[t].vars) :
         /\ ~ name_scope'[t].is_global
         /\ SlotOf(node) = name_scope'[t].offset + SLOT * (i - 1)
  /\ IsGlobalAccess(node) =>
       \E t \in 1..Len(name_scope') : \E i \in 1..Len(name_scope'[t].vars) :
         /\ name_scope'[t].is_global
         /\ node.operand1.immediate = name_scope'[t].offset + SLOT * (i - 1)

\* Where a jump that was just emitted leads.
NewJump(node, id) ==
  \/ node.jump_target = func_return /\ Top.node.type = "RET"
  \/ /\ Top.node.type \in {"WHILE", "BRANCH"}
     /\ node.jump_target = NIL
     /\ \E i \in 1..Len(ir_stack') : ir_stack'[i] = id
  \/ /\ Top.node.type = "WHILE"
     /\ \E i \in 1..Len(ir_stack) : ir_stack[i] = node.jump_target

NewNodes ==
  \A id \in Fresh :
    /\ Ordinary(heap'[id])
    /\ heap'[id].operation = "JMP" => NewJump(heap'[id], id)

\* What every handler does but those at the beginning and the end of a function.
Emission == AppendsFresh /\ HeapStep /\ StackStep /\ NewNodes

\* Nodes that only work on registers are ordinary, and no jumps.
LEMMA DataIsOrdinary ==
  ASSUME NEW node \in DataNode
  PROVE  Ordinary(node) /\ node.operation # "JMP"
<1>1. /\ "IMM" \notin node.operand1.flags
      /\ node.operation \notin {"JMP", "CALL", "RET", "SYSCALL"}
      /\ node.operation = "SUB" => node.operand1 # operand_reg("RSP")
      /\ node.operation = "ADD" /\ node.operand1 = operand_reg("RSP") =>
           node.operand2.immediate \in Nat
  BY DEF DataNode
<1>2. ~ IsLocalAccess(node)
  <2>1. "IMM" \in {"MEM", "IMM", "REG"}
    OBVIOUS
  <2> QED BY <1>1, <2>1 DEF IsLocalAccess
<1>3. ~ IsGlobalAccess(node)
  <2>1. "IMM" \in {"MEM", "IMM"}
    OBVIOUS
  <2> QED BY <1>1, <2>1 DEF IsGlobalAccess
<1>4. node.operation \notin {"RET", "SYSCALL"} /\ node.operation # "CALL" /\ node.operation # "JMP"
  BY <1>1
<1>5. Ordinary(node)
  BY <1>1, <1>2, <1>3, <1>4 DEF Ordinary
<1> QED BY <1>4, <1>5

\* So are accesses to a visible variable.
LEMMA AccessIsOrdinary ==
  ASSUME name_scope' \in Seq(VarTable), NEW name, Visible(name_scope', name),
         NEW op \in {"PUSH", "POP"}
  PROVE  LET node == new_unary(op, variable_operand(name_scope', name))
         IN  node \in IrNode /\ Ordinary(node) /\ node.operation # "JMP"
<1> DEFINE operand == variable_operand(name_scope', name)
           node == new_unary(op, operand)
           var == find_var(name_scope', name)
<1>1. operand \in ir_operand
  BY VariableOperand
<1>2. node \in IrNode
  BY <1>1, InstructionTypes DEF ir_op
<1>3. node.operation = op /\ node.operand1 = operand
  BY DEF new_unary, new_binary, instruction
<1>4. PICK t \in 1..Len(name_scope') : \E i \in 1..Len(name_scope'[t].vars) :
        /\ var.is_global = name_scope'[t].is_global
        /\ var.addr = name_scope'[t].offset + SLOT * (i - 1)
  BY VariableFound
<1>5. PICK i \in 1..Len(name_scope'[t].vars) :
        /\ var.is_global = name_scope'[t].is_global
        /\ var.addr = name_scope'[t].offset + SLOT * (i - 1)
  BY <1>4
<1>6. name_scope'[t].offset \in Int /\ name_scope'[t].is_global \in BOOLEAN
  <2>1. name_scope'[t] \in VarTable
    OBVIOUS
  <2> QED BY <2>1 DEF VarTable
<1>7. var.addr \in Int /\ - (- var.addr) = var.addr
  <2>1. SLOT * (i - 1) \in Int
    BY DEF SLOT
  <2> QED BY <1>5, <1>6, <2>1
<1>8. CASE var.is_global
  <2>1. operand = operand_abs(var.addr)
    BY <1>8 DEF variable_operand
  <2>2. operand.flags = {"MEM", "IMM"} /\ operand.immediate = var.addr
    BY <2>1 DEF operand_abs
  <2>3. ~ IsLocalAccess(node)
    <3>1. node.operand1.flags = {"MEM", "IMM"}
      BY <1>3, <2>2
    <3>2. {"MEM", "IMM"} # {"MEM", "IMM", "REG"}
      OBVIOUS
    <3> HIDE DEF node
    <3> QED BY <3>1, <3>2 DEF IsLocalAccess
  <2>4. node.operation \notin {"RET", "SYSCALL", "SUB", "ADD", "CALL", "JMP"}
    BY <1>3
  <2>5. node.operand1.immediate = var.addr
    BY <1>3, <2>2
  <2>6. Ordinary(node)
    <3> HIDE DEF node, operand, var
    <3> QED BY <1>5, <1>8, <2>3, <2>4, <2>5 DEF Ordinary
  <2> QED BY <1>2, <2>4, <2>6
<1>9. CASE ~ var.is_global
  <2>1. operand = operand_rbp(- var.addr)
    BY <1>9 DEF variable_operand
  <2>2. operand.flags = {"MEM", "IMM", "REG"} /\ operand.immediate = - var.addr
    BY <2>1 DEF operand_rbp
  <2>3. ~ IsGlobalAccess(node)
    <3>1. node.operand1.flags = {"MEM", "IMM", "REG"}
      BY <1>3, <2>2
    <3>2. {"MEM", "IMM", "REG"} # {"MEM", "IMM"}
      OBVIOUS
    <3> HIDE DEF node
    <3> QED BY <3>1, <3>2 DEF IsGlobalAccess
  <2>4. SlotOf(node) = var.addr
    BY <1>3, <1>7, <2>2 DEF SlotOf
  <2> QED BY <1>2, <1>3, <1>5, <1>9, <2>3, <2>4 DEF Ordinary
<1> QED BY <1>8, <1>9

\* Every entry of ir_stack belongs to an activation, so none of them is the
\* pushed result of a call.
LEMMA EntryAwaits ==
  ASSUME IInv, PatchStackMatchesWalk, NEW i \in 1..Len(ir_stack)
  PROVE  heap[ir_stack[i]].operation \in {"MOV", "NOP", "JMP"}
<1> DEFINE n == Len(walk)
           T == {j \in 1..n : Base(walk, j) < i}
<1>1. walk \in Seq(Frame) /\ n \in Nat /\ Len(ir_stack) \in Nat /\ Len(ir_stack) = Base(walk, n + 1)
  BY HandlerState DEF PatchStackMatchesWalk
<1>2. i \in Nat /\ 1 <= i /\ i <= Base(walk, n + 1)
  BY <1>1
<1>3. Base(walk, 1) = 0
  <2>1. PendingBelow(walk, 1) = {}
    BY DEF PendingBelow
  <2> QED BY <2>1, FS_EmptySet DEF Base
<1>4. n # 0
  BY <1>2, <1>3
<1>5. T \in SUBSET (1..n) /\ T # {}
  <2>1. 1 \in T
    BY <1>1, <1>2, <1>3, <1>4
  <2> QED BY <2>1
<1>6. PICK j \in T : \A m \in (j + 1)..n : m \notin T
  BY <1>1, <1>5, LastIndex
<1>7. /\ Base(walk, j) \in Nat /\ Len(Pending(walk[j])) \in 0..2
      /\ Base(walk, j + 1) = Base(walk, j) + Len(Pending(walk[j]))
  BY <1>1, <1>5, BaseAbove
<1>8. i <= Base(walk, j + 1)
  <2>1. CASE j = n
    BY <1>2, <2>1
  <2>2. CASE j # n
    <3>1. j + 1 \in (j + 1)..n /\ j + 1 \in 1..n
      BY <1>1, <1>5, <2>2
    <3>2. ~ (Base(walk, j + 1) < i)
      BY <1>6, <3>1
    <3> QED BY <1>2, <1>7, <3>2
  <2> QED BY <2>1, <2>2
<1> DEFINE k == i - Base(walk, j)
           role == Pending(walk[j])[k]
<1>9. k \in 1..Len(Pending(walk[j])) /\ Base(walk, j) + k = i
  <2>1. Base(walk, j) < i /\ k = i - Base(walk, j)
    BY <1>6
  <2> HIDE DEF k
  <2> QED BY <1>2, <1>7, <1>8, <2>1
<1>10. Awaits(role, heap[ir_stack[i]])
  <2>1. Awaits(Pending(walk[j])[k], heap[ir_stack[Base(walk, j) + k]])
    BY <1>5, <1>9 DEF PatchStackMatchesWalk
  <2> QED BY <1>9, <2>1
<1>11. role \in {"prologue", "start", "exit", "skip"}
  <2>1. walk[j] \in Frame
    BY <1>1, <1>5
  <2>2. walk[j].stage \in 0..3
    BY <2>1 DEF Frame, COMPILING_LEFT, COMPILED_RIGHT
  <2>3. \/ Pending(walk[j]) = << "prologue" >> \/ Pending(walk[j]) = << "start" >>
        \/ Pending(walk[j]) = << "start", "exit" >> \/ Pending(walk[j]) = << "exit" >>
        \/ Pending(walk[j]) = << "skip" >>
    <3>1. Pending(walk[j]) # <<>>
      BY <1>9
    <3> QED BY <2>1, <2>2, <3>1, PendingCases
  <2> QED BY <1>9, <2>3
<1> DEFINE node == heap[ir_stack[i]]
<1> HIDE DEF role, node
<1>12. Awaits(role, node)
  BY <1>10 DEF node
<1>13. /\ new_empty.operation = "NOP"
       /\ new_jmp("EQUAL", NIL).operation = "JMP" /\ new_jmp("NONE", NIL).operation = "JMP"
  BY DEF new_empty, new_jmp, instruction
<1>14. node.operation \in {"MOV", "NOP", "JMP"}
  <2>1. CASE role = "prologue"
    BY <1>12, <2>1 DEF Awaits
  <2>2. CASE role = "start"
    BY <1>12, <1>13, <2>2 DEF Awaits
  <2>3. CASE role = "exit"
    BY <1>12, <1>13, <2>3 DEF Awaits
  <2>4. CASE role = "skip"
    BY <1>12, <1>13, <2>4 DEF Awaits
  <2> QED BY <1>11, <2>1, <2>2, <2>3, <2>4
<1> QED BY <1>14 DEF node

\* None of them is the pushed result of a call, then.
LEMMA EntryIsNoCall ==
  ASSUME IInv, PatchStackMatchesWalk, CallAtTail, CallCompiled, NEW i \in 1..Len(ir_stack)
  PROVE  ir_stack[i] # ir_tail
<1>1. heap[ir_tail].operation = "PUSH"
  BY DEF CallAtTail, ErasedCall, new_push_reg, new_unary, new_binary, instruction
<1> QED BY <1>1, EntryAwaits

\* What emitting nodes does to the heap and to the list.
LEMMA EmitsFresh ==
  ASSUME IInv, NEW h \in Seq(IrNode), Len(h) = Len(heap),
         NEW nodes \in Seq(IrNode), EmitTo(h, nodes)
  PROVE  /\ AppendsFresh
         /\ Len(heap') = Len(heap) + Len(nodes)
         /\ \A id \in 1..Len(heap) : heap'[id] = h[id]
         /\ \A i \in 1..Len(nodes) : heap'[Len(heap) + i] = nodes[i]
         /\ \A id \in Fresh : \E i \in 1..Len(nodes) : id = Len(heap) + i
<1> DEFINE n == Len(heap)
           m == Len(nodes)
           links == [i \in 1..m |-> n + i]
<1>1. n \in Nat /\ m \in Nat /\ heap' = h \o nodes /\ list' = list \o links
  BY HandlerState DEF EmitTo
<1>2. /\ Len(heap') = n + m
      /\ \A id \in 1..n : heap'[id] = h[id]
      /\ \A i \in 1..m : heap'[n + i] = nodes[i]
  <2>1. /\ Len(h \o nodes) = Len(h) + Len(nodes)
        /\ \A i \in 1..Len(h) : (h \o nodes)[i] = h[i]
        /\ \A i \in 1..Len(nodes) : (h \o nodes)[Len(h) + i] = nodes[i]
    BY ConcatProperties
  <2> QED BY <1>1, <2>1
<1>3. ASSUME NEW id \in Fresh PROVE id - n \in 1..m /\ id = n + (id - n)
  <2>1. id \in (n + 1)..(n + m)
    BY <1>2 DEF Fresh
  <2> HIDE DEF n, m
  <2> QED BY <1>1, <2>1
<1>4. \A i \in 1..m : n + i \in Fresh
  BY <1>1, <1>2 DEF Fresh
<1>5. links \in Seq(Fresh) /\ Len(links) = m
  BY <1>1, <1>4
<1>6. AppendsFresh
  <2>1. \A i, j \in 1..Len(links) : links[i] = links[j] => i = j
    BY <1>1, <1>5
  <2>2. \A id \in Fresh : \E i \in 1..Len(links) : links[i] = id
    BY <1>3, <1>5
  <2> HIDE DEF links
  <2> QED BY <1>1, <1>5, <2>1, <2>2 DEF AppendsFresh
<1> QED BY <1>2, <1>3, <1>6

\* Emitting ordinary nodes, none of them a jump.
LEMMA OrdinaryEmitted ==
  ASSUME IInv, UNCHANGED ir_stack, NEW nodes \in Seq(IrNode), Emit(nodes),
         \A i \in 1..Len(nodes) : Ordinary(nodes[i]) /\ nodes[i].operation # "JMP"
  PROVE  Emission
<1>1. heap \in Seq(IrNode)
  BY HandlerState
<1>2. EmitTo(heap, nodes)
  BY DEF Emit
<1>3. /\ AppendsFresh
      /\ \A id \in 1..Len(heap) : heap'[id] = heap[id]
      /\ \A i \in 1..Len(nodes) : heap'[Len(heap) + i] = nodes[i]
      /\ \A id \in Fresh : \E i \in 1..Len(nodes) : id = Len(heap) + i
  BY <1>1, <1>2, EmitsFresh
<1>4. HeapStep
  BY <1>3 DEF HeapStep
<1>5. StackStep
  BY DEF StackStep
<1>6. NewNodes
  <2>1. ASSUME NEW id \in Fresh PROVE \E i \in 1..Len(nodes) : heap'[id] = nodes[i]
    BY <1>3
  <2> QED BY <2>1 DEF NewNodes
<1> QED BY <1>3, <1>4, <1>5, <1>6 DEF Emission

\* Emitting nodes that only work on registers.
LEMMA DataEmitted ==
  ASSUME IInv, UNCHANGED ir_stack, NEW nodes \in Seq(DataNode), Emit(nodes)
  PROVE  Emission
<1>1. \A i \in 1..Len(nodes) : Ordinary(nodes[i]) /\ nodes[i].operation # "JMP"
  BY DataIsOrdinary
<1>2. nodes \in Seq(IrNode)
  BY DEF DataNode
<1> QED BY <1>1, <1>2, OrdinaryEmitted

\* Emitting nothing.
LEMMA NothingEmitted ==
  ASSUME IInv, UNCHANGED <<ir_stack, heap, list>>
  PROVE  Emission
<1>1. Fresh = {}
  BY HandlerState DEF Fresh
<1>2. AppendsFresh
  <2>1. <<>> \in Seq(Fresh) /\ Len(<<>>) = 0
    OBVIOUS
  <2>2. list \o <<>> = list
    BY HandlerState, ConcatEmptySeq
  <2>3. /\ list' = list \o <<>>
        /\ \A i, j \in 1..Len(<<>>) : <<>>[i] = <<>>[j] => i = j
        /\ \A id \in Fresh : \E i \in 1..Len(<<>>) : <<>>[i] = id
    BY <1>1, <2>1, <2>2
  <2> QED BY <2>1, <2>3 DEF AppendsFresh
<1> QED BY <1>1, <1>2 DEF Emission, HeapStep, StackStep, NewNodes

\* Where the stack is not touched, and nothing of it is patched, it stays that
\* of the recursion.
LEMMA EntriesStay ==
  ASSUME IInv, IInv', CodeInv, walk # <<>>, Proceed, HeapStep, UNCHANGED ir_stack,
         Top.node.type \in {"WHILE", "BRANCH"} => Top.stage = COMPILING_RIGHT,
         Top.node.type = "NFUN" => Top.stage \in {COMPILED_LEFT, COMPILING_RIGHT}
  PROVE  PatchStackMatchesWalk'
<1> USE DEF COMPILING_LEFT, COMPILED_LEFT, COMPILING_RIGHT, COMPILED_RIGHT
<1>1. walk \in Seq(Frame) /\ Top \in Frame /\ Top.node \in Node /\ Top.stage \in 0..3
  <2>1. walk \in Seq(Frame)
    BY HandlerState
  <2>2. Top \in Frame
    BY <2>1 DEF Top
  <2> QED BY <2>1, <2>2, TopTyped
<1>2. PatchStackMatchesWalk /\ CallAtTail
  BY DEF CodeInv
<1>3. /\ Base(walk, Len(walk)) \in Nat
      /\ Len(ir_stack) = Base(walk, Len(walk)) + Len(Pending(Top))
      /\ \A k \in 1..Len(Pending(Top)) :
           Awaits(Pending(Top)[k], heap[ir_stack[Base(walk, Len(walk)) + k]])
  BY <1>2, TopEntries
<1>4. ASSUME NEW i \in 1..Len(ir_stack) PROVE heap'[ir_stack[i]] = heap[ir_stack[i]]
  <2>1. ir_stack[i] \in 1..Len(heap)
    BY HandlerState
  <2>2. ~ Patching
    BY DEF Patching
  <2>3. ~ (CallCompiled /\ ir_stack[i] = ir_tail)
    BY <1>2, EntryIsNoCall
  <2> QED BY <2>1, <2>2, <2>3 DEF HeapStep
<1> DEFINE after == [node |-> Top.node, stage |-> Top.stage + 1]
<1>5. Top.stage # 3 => Pending(after) = Pending(Top) /\ Len(Pending(Top)) \in 0..2
  <2>1. Top.stage # 3 => after \in Frame
    BY <1>1 DEF Frame
  <2>2. after.node.type = Top.node.type /\ after.stage = Top.stage + 1
    OBVIOUS
  <2>3. CASE Top.node.type \notin {"NFUN", "WHILE", "BRANCH"}
    BY <1>1, <2>1, <2>2, <2>3, PendingCases
  <2>4. CASE Top.node.type \in {"NFUN", "WHILE", "BRANCH"}
    <3>1. Top.stage # 3
      BY <2>4
    <3>2. Top.stage = 2 \/ (Top.stage = 1 /\ Top.node.type = "NFUN")
      BY <2>4
    <3>3. after \in Frame /\ after.stage # 0
          /\ (Top.node.type = "NFUN" \/ after.stage = 3)
      BY <2>1, <2>2, <3>1, <3>2
    <3> HIDE DEF after
    <3>4. Top.stage # 0
      BY <3>2
    <3>5. Pending(after) = Pending(Top)
      BY <1>1, <2>2, <2>4, <3>2, <3>3, <3>4, PendingCases
    <3> QED BY <1>1, <3>5, PendingCases
  <2> QED BY <2>3, <2>4
<1>6. Top.stage = 3 => Pending(Top) = <<>>
  <2>1. Top.stage = 3 => Top.node.type \notin {"NFUN", "WHILE", "BRANCH"}
    OBVIOUS
  <2> QED BY <1>1, <2>1, PendingCases
<1>7. \A i \in 1..Base(walk, Len(walk)) : i \in 1..Len(ir_stack)
  <2>1. Len(Pending(Top)) \in 0..2
    BY <1>1, PendingCases
  <2> QED BY <1>3, <2>1
<1>8. \A i \in 1..Len(ir_stack') : \A j \in 1..(i - 1) : ir_stack'[j] # ir_stack'[i]
  BY <1>2 DEF PatchStackMatchesWalk
<1>9. Top.stage = 3 => Len(ir_stack') = Base(walk, Len(walk))
  BY <1>3, <1>6
<1>10. Top.stage # 3 =>
         /\ Len(ir_stack') = Base(walk, Len(walk)) + Len(Pending(after))
         /\ \A k \in 1..Len(Pending(after)) :
              Awaits(Pending(after)[k], heap'[ir_stack'[Base(walk, Len(walk)) + k]])
  <2> SUFFICES ASSUME Top.stage # 3
               PROVE  /\ Len(ir_stack') = Base(walk, Len(walk)) + Len(Pending(after))
                      /\ \A k \in 1..Len(Pending(after)) :
                           Awaits(Pending(after)[k], heap'[ir_stack'[Base(walk, Len(walk)) + k]])
    OBVIOUS
  <2>1. Pending(after) = Pending(Top) /\ Len(Pending(Top)) \in 0..2
    BY <1>5
  <2> HIDE DEF after
  <2>2. ASSUME NEW k \in 1..Len(Pending(Top))
        PROVE  Awaits(Pending(Top)[k], heap'[ir_stack[Base(walk, Len(walk)) + k]])
    <3>1. Base(walk, Len(walk)) + k \in 1..Len(ir_stack)
      BY <1>3, <2>1
    <3>2. heap'[ir_stack[Base(walk, Len(walk)) + k]] = heap[ir_stack[Base(walk, Len(walk)) + k]]
      BY <1>4, <3>1
    <3> QED BY <1>3, <3>2
  <2> QED BY <1>3, <2>1, <2>2
<1> HIDE DEF after
<1> QED BY <1>2, <1>4, <1>7, <1>8, <1>9, <1>10, EntriesKept DEF after

\* The handlers that emit no jump, patch nothing and erase nothing.
Straight ==
  \/ compile_NVAR \/ compile_ASS \/ compile_VAR \/ compile_CONST
  \/ compile_OP_dividend \/ compile_OP \/ compile_CALL
  \/ compile_BLOCK_begin \/ compile_BLOCK_end \/ compile_NFUN_body \/ compile_nothing

\* Single nodes behind one another.
LEMMA Singles ==
  ASSUME NEW S, NEW a \in S, NEW b \in S, NEW c \in S
  PROVE  /\ << a >> \o <<>> \o << b >> = << a, b >>
         /\ << a >> \o << b >> \o << c >> = << a, b, c >>
<1>1. << a >> \in Seq(S) /\ << b >> \in Seq(S) /\ << c >> \in Seq(S) /\ <<>> \in Seq(S)
      /\ << a, b >> \in Seq(S) /\ << a, b, c >> \in Seq(S)
  OBVIOUS
<1>2. << a >> \o <<>> = << a >>
  BY <1>1, ConcatEmptySeq
<1>3. << a >> \o << b >> = << a, b >>
  <2> DEFINE s == << a >> \o << b >>
  <2>1. s \in Seq(S) /\ Len(s) = 2 /\ s[1] = a /\ s[2] = b
    BY <1>1, ConcatProperties
  <2> HIDE DEF s
  <2>2. \A i \in 1..Len(s) : s[i] = << a, b >>[i]
    BY <2>1
  <2>3. s = << a, b >>
    BY <1>1, <2>1, <2>2, SeqEqual
  <2> QED BY <2>3 DEF s
<1>4. << a, b >> \o << c >> = << a, b, c >>
  <2> DEFINE s == << a, b >> \o << c >>
  <2>1. s \in Seq(S) /\ Len(s) = 3 /\ s[1] = a /\ s[2] = b /\ s[3] = c
    BY <1>1, ConcatProperties
  <2> HIDE DEF s
  <2>2. \A i \in 1..Len(s) : s[i] = << a, b, c >>[i]
    BY <2>1
  <2>3. s = << a, b, c >>
    BY <1>1, <2>1, <2>2, SeqEqual
  <2> QED BY <2>3 DEF s
<1> QED BY <1>2, <1>3, <1>4

\* What a call emits ends with the node it may lose again.
LEMMA CallEmits ==
  ASSUME IInv, compile_CALL
  PROVE  /\ Emission
         /\ Len(list') >= 2
         /\ ErasedCall(heap'[list'[Len(list')]], heap'[list'[Len(list') - 1]], new_empty)
<1> DEFINE func  == func_array_find_func(Top.node.value)
           args  == ChainOf(Top.node.right)
           call  == new_call(func.ir_list_head)
           free  == new_binary("ADD", operand_reg("RSP"), operand_imm(SLOT * args))
           frees == IF args > 0 THEN <<free>> ELSE <<>>
           push  == new_push_reg("RAX")
           nodes == << call >> \o frees \o << push >>
<1>1. walk # <<>> /\ Top.node \in Node /\ heap \in Seq(IrNode) /\ list \in Seq(1..Len(heap))
      /\ list # <<>>
  <2>1. walk # <<>>
    BY DEF compile_CALL, Handling
  <2> QED BY <2>1, HandlerState, TopTyped
<1>2. Emit(nodes) /\ UNCHANGED <<ir_stack>>
  BY DEF compile_CALL, free_arguments
<1>3. args \in Nat
  BY <1>1, NodeFields
<1>4. PICK k \in 1..Len(functions) : func = functions[k]
  <2>1. functions \in Seq(Function)
    BY DEF IInv, TypeOK
  <2> QED BY <2>1, FunctionFound DEF compile_CALL
<1> HIDE DEF func, args
<1>5. func.ir_list_head \in Nat
  <2>1. functions \in Seq(Function)
    BY DEF IInv, TypeOK
  <2>2. functions[k] \in Function
    BY <2>1
  <2> QED BY <1>4, <2>2 DEF Function
<1>6. call \in IrNode /\ Ordinary(call) /\ call.operation = "CALL"
  <2>1. call \in IrNode
    BY <1>5, InstructionTypes
  <2>2. /\ call.operation = "CALL" /\ call.jump_target = func.ir_list_head
        /\ call.operand1.flags = {}
    BY DEF new_call, instruction, operand_none
  <2>3. ~ IsLocalAccess(call) /\ ~ IsGlobalAccess(call)
    BY <2>2 DEF IsLocalAccess, IsGlobalAccess
  <2> HIDE DEF call
  <2> QED BY <1>4, <2>1, <2>2, <2>3 DEF Ordinary
<1>7. free \in DataNode /\ free.operation = "ADD" /\ free.operand1 = operand_reg("RSP")
  <2>1. SLOT * args \in Int
    BY <1>3 DEF SLOT
  <2>2. operand_imm(SLOT * args) \in ir_operand /\ operand_reg("RSP") \in ir_operand
    BY <2>1, OperandTypes DEF ir_reg
  <2>3. free \in IrNode
    BY <2>2, InstructionTypes DEF ir_op
  <2>4. free.operation = "ADD" /\ free.operand1 = operand_reg("RSP")
    BY DEF new_binary, instruction
  <2>5. "IMM" \notin operand_reg("RSP").flags
    BY DEF operand_reg
  <2>6. free.operand2.immediate \in Nat
    <3>1. free.operand2 = operand_imm(SLOT * args)
      BY DEF new_binary, instruction
    <3>2. SLOT * args \in Nat
      BY <1>3 DEF SLOT
    <3> HIDE DEF free
    <3> QED BY <3>1, <3>2 DEF operand_imm
  <2> HIDE DEF free
  <2> QED BY <2>3, <2>4, <2>5, <2>6 DEF DataNode
<1>8. push \in DataNode /\ push \in IrNode
  BY DataNodes DEF ir_reg, DataNode
<1> HIDE DEF call, free, push
<1>9. free \in IrNode /\ Ordinary(free) /\ Ordinary(push) /\ push.operation # "JMP"
      /\ free.operation # "JMP" /\ call.operation # "JMP"
  BY <1>6, <1>7, <1>8, DataIsOrdinary DEF DataNode
<1>10. \/ nodes = << call, push >>
       \/ nodes = << call, free, push >>
  <2>1. frees = <<>> \/ frees = << free >>
    OBVIOUS
  <2>2. free \in IrNode
    BY <1>7 DEF DataNode
  <2>3. << call >> \o <<>> \o << push >> = << call, push >>
    BY <1>6, <1>8, Singles
  <2>4. << call >> \o << free >> \o << push >> = << call, free, push >>
    BY <1>6, <1>8, <2>2, Singles
  <2> HIDE DEF frees
  <2> QED BY <2>1, <2>3, <2>4
<1> HIDE DEF nodes
<1>11. nodes \in Seq(IrNode)
       /\ \A i \in 1..Len(nodes) : Ordinary(nodes[i]) /\ nodes[i].operation # "JMP"
  <2>1. CASE nodes = << call, push >>
    BY <1>6, <1>8, <1>9, <2>1
  <2>2. CASE nodes = << call, free, push >>
    BY <1>6, <1>8, <1>9, <2>2
  <2> QED BY <1>10, <2>1, <2>2
<1>12. Emission
  BY <1>2, <1>11, OrdinaryEmitted
<1>13. /\ Len(nodes) \in Nat /\ Len(nodes) >= 2 /\ nodes[Len(nodes)] = push
       /\ \/ nodes[Len(nodes) - 1].operation = "CALL"
          \/ nodes[Len(nodes) - 1].operand1 = operand_reg("RSP")
  <2>1. CASE nodes = << call, push >>
    <3>1. Len(nodes) = 2 /\ nodes[1] = call /\ nodes[2] = push
      BY <2>1
    <3>2. Len(nodes) - 1 = 1
      BY <3>1
    <3> QED BY <1>6, <3>1, <3>2
  <2>2. CASE nodes = << call, free, push >>
    <3>1. Len(nodes) = 3 /\ nodes[2] = free /\ nodes[3] = push
      BY <2>2
    <3>2. Len(nodes) - 1 = 2
      BY <3>1
    <3> QED BY <1>7, <3>1, <3>2
  <2> QED BY <1>10, <2>1, <2>2
<1> DEFINE m == Len(nodes)
           n == Len(list)
<1>14. EmitTo(heap, nodes)
  BY <1>2 DEF Emit
<1>15. /\ n \in Nat
       /\ Len(list') = n + m
       /\ \A i \in 1..m : list'[n + i] = Len(heap) + i
       /\ \A i \in 1..m : heap'[Len(heap) + i] = nodes[i]
  <2>1. list \in Seq(1..Len(heap)) /\ list # <<>> /\ heap \in Seq(IrNode)
    BY HandlerState
  <2>2. nodes \in Seq(IrNode)
    BY <1>11
  <2>3. /\ Len(list') = Len(list) + Len(nodes)
        /\ \A i \in 1..Len(nodes) : list'[Len(list) + i] = Len(heap) + i
    BY ONLY <2>1, <2>2, <1>14, EmitTyped
  <2>4. \A i \in 1..Len(nodes) : heap'[Len(heap) + i] = nodes[i]
    BY <2>1, <2>2, <1>14, EmitsFresh, Zenon
  <2>5. Len(list) \in Nat
    BY <2>1
  <2> QED BY <2>3, <2>4, <2>5, Zenon
<1>16. m \in 1..m /\ m - 1 \in 1..m /\ n + (m - 1) = (n + m) - 1
  BY <1>13, <1>15
<1>17. heap'[list'[Len(list')]] = push /\ heap'[list'[Len(list') - 1]] = nodes[m - 1]
  <2>1. list'[n + m] = Len(heap) + m /\ list'[n + (m - 1)] = Len(heap) + (m - 1)
    BY <1>15, <1>16, Zenon
  <2>2. heap'[Len(heap) + m] = push /\ heap'[Len(heap) + (m - 1)] = nodes[m - 1]
    BY <1>13, <1>15, <1>16, Zenon
  <2>3. Len(list') = n + m /\ Len(list') - 1 = n + (m - 1)
    BY <1>15, <1>16, Zenon
  <2> HIDE DEF m, n
  <2> QED BY <2>1, <2>2, <2>3, Zenon
<1>18. Len(list') >= 2
  BY <1>13, <1>15
<1> QED BY <1>12, <1>13, <1>17, <1>18 DEF ErasedCall, push

\* Straight handlers emit ordinary nodes behind the others.
LEMMA StraightEmits ==
  ASSUME IInv, IInv', Straight
  PROVE  Emission
<1> USE DEF COMPILING_LEFT, COMPILED_LEFT, COMPILING_RIGHT, COMPILED_RIGHT
<1>1. walk # <<>> /\ Proceed /\ UNCHANGED control
  BY HandlerProceeds DEF Straight, HandleNode
<1>2. /\ heap \in Seq(IrNode) /\ name_scope \in Seq(VarTable) /\ name_scope # <<>>
      /\ name_scope' \in Seq(VarTable)
      /\ Top.node \in Node /\ Top.stage \in 0..3
  <2>1. name_scope' \in Seq(VarTable)
    BY DEF IInv, TypeOK
  <2> QED BY <1>1, <2>1, HandlerState, TopTyped
<1>3. /\ "MOV" \in ir_op /\ "MUL" \in ir_op /\ "RAX" \in ir_reg /\ "RAX" \in DataRegister
      /\ operand_reg("RAX") \in ir_operand
  BY OperandTypes DEF ir_op, ir_reg, DataRegister
<1>4. new_push_reg("RAX") \in DataNode /\ new_pop_reg("RAX") \in DataNode
  BY <1>3, DataNodes
<1>5. ASSUME NEW op \in {"PUSH", "POP"}, Visible(name_scope', Top.node.value),
             Emit(<< new_unary(op, variable_operand(name_scope', Top.node.value)) >>),
             UNCHANGED ir_stack
      PROVE  Emission
  <2> DEFINE node == new_unary(op, variable_operand(name_scope', Top.node.value))
  <2>1. node \in IrNode /\ Ordinary(node) /\ node.operation # "JMP"
    BY <1>2, <1>5, AccessIsOrdinary
  <2>2. Emit(<< node >>)
    BY <1>5
  <2> HIDE DEF node
  <2>3. << node >> \in Seq(IrNode) /\ Len(<< node >>) = 1
    BY <2>1
  <2>4. \A i \in 1..Len(<< node >>) : Ordinary(<< node >>[i]) /\ << node >>[i].operation # "JMP"
    BY <2>1, <2>3
  <2> QED BY <1>5, <2>2, <2>3, <2>4, OrdinaryEmitted
<1>6. CASE compile_NVAR
  <2>1. Top.node.value \in Name
    BY <1>2, <1>6, NodeFields DEF compile_NVAR, Handling, Named
  <2>2. Visible(name_scope', Top.node.value)
    BY <1>2, <1>6, <2>1, AddVar DEF compile_NVAR
  <2>3. UNCHANGED ir_stack
        /\ Emit(<< new_unary("POP", variable_operand(name_scope', Top.node.value)) >>)
    BY <1>6 DEF compile_NVAR
  <2> QED BY <1>5, <2>2, <2>3
<1>7. CASE compile_ASS
  <2>1. UNCHANGED <<ir_stack, name_scope>> /\ Visible(name_scope, Top.node.value)
        /\ Emit(<< new_unary("POP", variable_operand(name_scope, Top.node.value)) >>)
    BY <1>7 DEF compile_ASS, scoping
  <2>2. name_scope' = name_scope
    BY <2>1
  <2> QED BY <1>5, <2>1, <2>2
<1>8. CASE compile_VAR
  <2>1. UNCHANGED <<ir_stack, name_scope>> /\ Visible(name_scope, Top.node.value)
        /\ Emit(<< new_unary("PUSH", variable_operand(name_scope, Top.node.value)) >>)
    BY <1>8 DEF compile_VAR, scoping
  <2>2. name_scope' = name_scope
    BY <2>1
  <2> QED BY <1>5, <2>1, <2>2
<1>9. CASE compile_CONST
  <2> DEFINE load  == new_binary("MOV", operand_reg("RAX"), operand_imm(to_fixed(Top.node.num)))
  <2>1. to_fixed(Top.node.num) \in Int
    <3>1. Top.node.num \in Number
      BY <1>2, <1>9, NodeFields DEF compile_CONST, Handling
    <3> QED BY <3>1 DEF to_fixed, Number
  <2>2. operand_imm(to_fixed(Top.node.num)) \in ir_operand
    BY <2>1, OperandTypes
  <2>3. load \in DataNode
    BY <1>3, <2>2, DataNodes
  <2>4. Emit(<< load, new_push_reg("RAX") >>) /\ UNCHANGED ir_stack
    BY <1>9 DEF compile_CONST
  <2> HIDE DEF load
  <2>5. << load, new_push_reg("RAX") >> \in Seq(DataNode)
    BY <1>4, <2>3
  <2> QED BY <2>4, <2>5, DataEmitted
<1>10. CASE compile_OP_dividend
  <2> DEFINE scale == new_binary("MUL", operand_reg("RAX"), operand_imm(1000))
             nodes == << new_pop_reg("RAX"), scale, new_push_reg("RAX") >>
  <2>1. operand_imm(1000) \in ir_operand
    BY OperandTypes
  <2>2. scale \in DataNode
    BY <1>3, <2>1, DataNodes
  <2>3. Emit(nodes) /\ UNCHANGED ir_stack
    BY <1>10 DEF compile_OP_dividend
  <2> HIDE DEF scale
  <2>4. nodes \in Seq(DataNode)
    BY <1>4, <2>2
  <2> HIDE DEF nodes
  <2> QED BY <2>3, <2>4, DataEmitted
<1>11. CASE compile_OP
  <2> DEFINE nodes == IF Top.node.value \in {"NOT", "NEG"}
                        THEN unary_code(Top.node.value) ELSE binary_code(Top.node.value)
  <2>1. Top.node.value \in op_type
    BY <1>2, <1>11, NodeFields DEF compile_OP, Handling
  <2>2. Emit(nodes) /\ UNCHANGED ir_stack
    BY <1>11 DEF compile_OP
  <2>3. nodes \in Seq(DataNode)
    BY <2>1, DataCode
  <2> HIDE DEF nodes
  <2> QED BY <2>2, <2>3, DataEmitted
<1>12. CASE compile_CALL
  BY <1>12, CallEmits
<1>13. CASE compile_BLOCK_begin \/ compile_BLOCK_end \/ compile_NFUN_body \/ compile_nothing
  <2>1. UNCHANGED <<ir_stack, heap, list>>
    BY <1>13 DEF compile_BLOCK_begin, compile_BLOCK_end, compile_NFUN_body, compile_nothing, code
  <2> QED BY <2>1, NothingEmitted
<1> QED BY <1>6, <1>7, <1>8, <1>9, <1>10, <1>11, <1>12, <1>13 DEF Straight

\* Every node that waits stays as it is, but the one that is patched.
LEMMA WaitingStay ==
  ASSUME IInv, CodeInv, HeapStep, NEW i \in 1..Len(ir_stack),
         Patching => i # Len(ir_stack)
  PROVE  heap'[ir_stack[i]] = heap[ir_stack[i]]
<1>1. ir_stack[i] \in 1..Len(heap) /\ Len(ir_stack) \in Nat
  BY HandlerState
<1>2. PatchStackMatchesWalk /\ CallAtTail
  BY DEF CodeInv
<1>3. ~ (CallCompiled /\ ir_stack[i] = ir_tail)
  BY <1>2, EntryIsNoCall
<1>4. Patching => ir_stack[i] # LastPending
  <2>1. Patching => i \in 1..(Len(ir_stack) - 1) /\ Len(ir_stack) \in 1..Len(ir_stack)
    BY <1>1
  <2> QED BY <1>2, <2>1 DEF PatchStackMatchesWalk, LastPending
<1> QED BY <1>1, <1>3, <1>4 DEF HeapStep

\* What is known of the activation on top and its entries.
LEMMA TopState ==
  ASSUME IInv, CodeInv, walk # <<>>
  PROVE  /\ walk \in Seq(Frame) /\ Top \in Frame /\ Top.node \in Node /\ Top.stage \in 0..3
         /\ Base(walk, Len(walk)) \in Nat
         /\ Len(Pending(Top)) \in 0..2
         /\ Len(ir_stack) = Base(walk, Len(walk)) + Len(Pending(Top))
         /\ \A k \in 1..Len(Pending(Top)) :
              Awaits(Pending(Top)[k], heap[ir_stack[Base(walk, Len(walk)) + k]])
<1>1. walk \in Seq(Frame) /\ PatchStackMatchesWalk
  BY HandlerState DEF CodeInv
<1>2. Top \in Frame
  BY <1>1 DEF Top
<1>3. Len(Pending(Top)) \in 0..2
  BY <1>2, PendingCases
<1> QED BY <1>1, <1>2, <1>3, TopTyped, TopEntries

\* A handler that pushes a new node for its next stage.
LEMMA EntryPushed ==
  ASSUME IInv, IInv', CodeInv, walk # <<>>, Proceed, HeapStep, ~ Patching,
         Top.stage # COMPILED_RIGHT, NEW id \in Fresh, ir_stack' = Append(ir_stack, id),
         NEW role,
         Pending([node |-> Top.node, stage |-> Top.stage + 1]) = Append(Pending(Top), role),
         Awaits(role, heap'[id])
  PROVE  PatchStackMatchesWalk' /\ StackStep
<1> DEFINE after == [node |-> Top.node, stage |-> Top.stage + 1]
           b == Base(walk, Len(walk))
           p == Pending(Top)
           n == Len(ir_stack)
<1>1. /\ ir_stack \in Seq(1..Len(heap)) /\ n \in Nat /\ Len(heap) \in Nat
      /\ b \in Nat /\ Len(p) \in 0..2 /\ n = b + Len(p)
      /\ \A k \in 1..Len(p) : Awaits(p[k], heap[ir_stack[b + k]])
  BY HandlerState, TopState
<1>2. /\ Len(ir_stack') = n + 1
      /\ \A i \in 1..n : ir_stack'[i] = ir_stack[i]
      /\ ir_stack'[n + 1] = id
  BY <1>1
<1>3. id \notin 1..Len(heap)
  BY <1>1 DEF Fresh
<1>4. \A i \in 1..n : ir_stack[i] \in 1..Len(heap) /\ heap'[ir_stack[i]] = heap[ir_stack[i]]
  BY <1>1, WaitingStay
<1>5. p \in Seq({"prologue", "start", "exit", "skip"})
  <2>1. Top \in Frame /\ Top.stage \in 0..3
    BY TopState
  <2>2. \/ p = <<>> \/ p = << "prologue" >> \/ p = << "start" >>
        \/ p = << "start", "exit" >> \/ p = << "exit" >> \/ p = << "skip" >>
    BY <2>1, PendingCases DEF COMPILING_LEFT, COMPILED_LEFT, COMPILING_RIGHT, COMPILED_RIGHT
  <2>3. /\ "prologue" \in {"prologue", "start", "exit", "skip"}
        /\ "start" \in {"prologue", "start", "exit", "skip"}
        /\ "exit" \in {"prologue", "start", "exit", "skip"}
        /\ "skip" \in {"prologue", "start", "exit", "skip"}
    OBVIOUS
  <2> DEFINE Role == {"prologue", "start", "exit", "skip"}
  <2> HIDE DEF p, Role
  <2>4. /\ <<>> \in Seq(Role) /\ << "prologue" >> \in Seq(Role) /\ << "start" >> \in Seq(Role)
        /\ << "start", "exit" >> \in Seq(Role) /\ << "exit" >> \in Seq(Role)
        /\ << "skip" >> \in Seq(Role)
    BY <2>3 DEF Role
  <2> QED BY <2>2, <2>4 DEF Role
<1> HIDE DEF p
<1>6. /\ Len(Pending(after)) = Len(p) + 1
      /\ \A k \in 1..Len(p) : Pending(after)[k] = p[k]
      /\ Pending(after)[Len(p) + 1] = role
  <2>1. Pending(after) = Append(p, role)
    BY DEF p
  <2> HIDE DEF after
  <2> QED BY <1>5, <2>1
<1> HIDE DEF after, b, n
<1>7. Len(ir_stack') = b + Len(Pending(after))
  BY <1>1, <1>2, <1>6
<1>8. ASSUME NEW k \in 1..Len(Pending(after))
      PROVE  Awaits(Pending(after)[k], heap'[ir_stack'[b + k]])
  <2>1. CASE k \in 1..Len(p)
    <3>1. b + k \in 1..n
      BY <1>1, <2>1
    <3>2. heap'[ir_stack'[b + k]] = heap[ir_stack[b + k]]
      BY <1>2, <1>4, <3>1
    <3> QED BY <1>1, <1>6, <2>1, <3>2
  <2>2. CASE k = Len(p) + 1
    BY <1>1, <1>2, <1>6, <2>2
  <2>3. k \in 1..Len(p) \/ k = Len(p) + 1
    BY <1>1, <1>6
  <2> QED BY <2>1, <2>2, <2>3
<1>9. \A i \in 1..b : ir_stack'[i] = ir_stack[i] /\ heap'[ir_stack[i]] = heap[ir_stack[i]]
  <2>1. \A i \in 1..b : i \in 1..n
    BY <1>1
  <2> QED BY <1>2, <1>4, <2>1
<1>10. PatchStackMatchesWalk
  BY DEF CodeInv
<1>11. ASSUME NEW i \in 1..Len(ir_stack'), NEW j \in 1..(i - 1) PROVE ir_stack'[j] # ir_stack'[i]
  <2>1. CASE i \in 1..n
    <3>1. j \in 1..n /\ i \in 1..Len(ir_stack)
      BY <1>1, <2>1 DEF n
    <3> QED BY <1>2, <1>10, <2>1, <3>1 DEF PatchStackMatchesWalk
  <2>2. CASE i = n + 1
    <3>1. j \in 1..n
      BY <1>1, <2>2
    <3> QED BY <1>2, <1>3, <1>4, <2>2, <3>1
  <2> QED BY <1>1, <1>2, <2>1, <2>2
<1>12. PatchStackMatchesWalk'
  BY <1>7, <1>8, <1>9, <1>10, <1>11, EntriesKept DEF after, b
<1>13. StackStep
  <2>1. \A i \in 1..Len(ir_stack) : \E j \in 1..Len(ir_stack') : ir_stack'[j] = ir_stack[i]
    <3>1. \A i \in 1..n : i \in 1..Len(ir_stack')
      BY <1>1, <1>2
    <3> QED BY <1>2, <3>1 DEF n
  <2>2. ASSUME NEW j \in 1..Len(ir_stack')
        PROVE  ir_stack'[j] \in Fresh \/ \E i \in 1..Len(ir_stack) : ir_stack'[j] = ir_stack[i]
    <3>1. j \in 1..n \/ j = n + 1
      BY <1>1, <1>2
    <3> QED BY <1>2, <3>1 DEF n
  <2> QED BY <2>1, <2>2 DEF StackStep
<1> QED BY <1>12, <1>13

\* A handler that has done its last stage pops its entries, one of which it
\* has patched if it is a jump.
LEMMA EntriesPopped ==
  ASSUME IInv, IInv', CodeInv, walk # <<>>, Proceed, HeapStep,
         Top.stage = COMPILED_RIGHT, Len(Pending(Top)) >= 1,
         ir_stack' = SubSeq(ir_stack, 1, Len(ir_stack) - Len(Pending(Top)))
  PROVE  PatchStackMatchesWalk'
<1> DEFINE b == Base(walk, Len(walk))
           n == Len(ir_stack)
<1>1. /\ ir_stack \in Seq(1..Len(heap)) /\ n \in Nat
      /\ b \in Nat /\ Len(Pending(Top)) \in 0..2 /\ n = b + Len(Pending(Top))
  BY HandlerState, TopState
<1>2. b \in 0..Len(ir_stack) /\ n - Len(Pending(Top)) = b
  BY <1>1
<1>3. Len(ir_stack') = b /\ \A i \in 1..b : ir_stack'[i] = ir_stack[i]
  <2>1. ir_stack' = SubSeq(ir_stack, 1, b)
    BY <1>2
  <2> HIDE DEF b
  <2> QED BY <1>1, <1>2, <2>1, FrontOf
<1>4. \A i \in 1..b : i \in 1..Len(ir_stack) /\ i # Len(ir_stack)
  BY <1>1
<1>5. \A i \in 1..b : heap'[ir_stack[i]] = heap[ir_stack[i]]
  BY <1>4, WaitingStay
<1>6. PatchStackMatchesWalk
  BY DEF CodeInv
<1>7. ASSUME NEW i \in 1..Len(ir_stack'), NEW j \in 1..(i - 1) PROVE ir_stack'[j] # ir_stack'[i]
  <2>1. i \in 1..b /\ j \in 1..b
    <3>1. Len(ir_stack') = b /\ b \in Nat
      BY <1>1, <1>3
    <3> HIDE DEF b
    <3> QED BY ONLY <3>1, i \in 1..Len(ir_stack'), j \in 1..(i - 1)
  <2> QED BY <1>3, <1>4, <1>6, <2>1 DEF PatchStackMatchesWalk
<1> HIDE DEF b, n
<1> QED BY <1>3, <1>5, <1>6, <1>7, EntriesKept DEF b

\* What erasing the result of a call does to the nodes.
LEMMA DiscardStep ==
  ASSUME IInv, CodeInv, NEW child, TypeOf(child) = "CALL" => CallCompiled
  PROVE  /\ Discarding(child) \in Seq(IrNode) /\ Len(Discarding(child)) = Len(heap)
         /\ \A id \in 1..Len(heap) :
              \/ Discarding(child)[id] = heap[id]
              \/ CallCompiled /\ id = ir_tail /\ Discarding(child)[id] = new_empty
         /\ \A i \in 1..Len(ir_stack) : Discarding(child)[ir_stack[i]] = heap[ir_stack[i]]
<1>1. heap \in Seq(IrNode) /\ list \in Seq(1..Len(heap)) /\ list # <<>>
  BY HandlerState
<1>2. Discarding(child) \in Seq(IrNode) /\ Len(Discarding(child)) = Len(heap)
  BY <1>1, DiscardTyped
<1>3. \A id \in 1..Len(heap) :
        \/ Discarding(child)[id] = heap[id]
        \/ CallCompiled /\ id = ir_tail /\ Discarding(child)[id] = new_empty
  BY <1>1 DEF Discarding
<1>4. PatchStackMatchesWalk /\ CallAtTail
  BY DEF CodeInv
<1>5. \A i \in 1..Len(ir_stack) : ir_stack[i] \in 1..Len(heap)
  BY HandlerState
<1>6. \A i \in 1..Len(ir_stack) : ~ (CallCompiled /\ ir_stack[i] = ir_tail)
  BY <1>4, EntryIsNoCall
<1> QED BY <1>2, <1>3, <1>5, <1>6

\* What patching a node does to the others.
LEMMA PatchValues ==
  ASSUME NEW h \in Seq(IrNode), NEW jump \in 1..Len(h), NEW target \in Nat
  PROVE  \A id \in 1..Len(h) :
           Patch(h, jump, target)[id]
             = IF id = jump THEN [h[id] EXCEPT !.jump_target = target] ELSE h[id]
BY DEF Patch

\* The elements of two sequences of nodes behind one another.
LEMMA NodesBehind ==
  ASSUME NEW h \in Seq(IrNode), NEW nodes \in Seq(IrNode)
  PROVE  /\ Len(h \o nodes) = Len(h) + Len(nodes)
         /\ \A i \in 1..(Len(h) + Len(nodes)) :
              (h \o nodes)[i] = IF i <= Len(h) THEN h[i] ELSE nodes[i - Len(h)]
BY ConcatProperties

\* Two nodes linked in reverse are linked, too.
LEMMA SwappedFresh ==
  ASSUME IInv, NEW h \in Seq(IrNode), Len(h) = Len(heap),
         NEW nodes \in Seq(IrNode), Len(nodes) = 2,
         heap' = h \o nodes,
         list' = list \o << Len(heap) + 2, Len(heap) + 1 >>
  PROVE  /\ AppendsFresh
         /\ Len(heap') = Len(heap) + 2
         /\ \A id \in 1..Len(heap) : heap'[id] = h[id]
         /\ heap'[Len(heap) + 1] = nodes[1] /\ heap'[Len(heap) + 2] = nodes[2]
         /\ \A id : id \in Fresh <=> id = Len(heap) + 1 \/ id = Len(heap) + 2
<1> DEFINE n == Len(heap)
           links == << n + 2, n + 1 >>
<1>1. n \in Nat
  BY HandlerState
<1>2. list' = list \o links
  OBVIOUS
<1>3. /\ Len(heap') = n + 2
      /\ \A id \in 1..n : heap'[id] = h[id]
      /\ heap'[n + 1] = nodes[1] /\ heap'[n + 2] = nodes[2]
  <2> DEFINE all == h \o nodes
  <2>1. /\ Len(all) = Len(h) + Len(nodes)
        /\ \A i \in 1..(Len(h) + Len(nodes)) :
             all[i] = IF i <= Len(h) THEN h[i] ELSE nodes[i - Len(h)]
    BY NodesBehind, Zenon
  <2>2. heap' = all
    OBVIOUS
  <2> HIDE DEF all
  <2>3. Len(heap') = n + 2 /\ \A id \in 1..n : heap'[id] = h[id]
    BY <1>1, <2>1, <2>2
  <2>4. (n + 1) - n = 1 /\ (n + 2) - n = 2
    BY <1>1
  <2>5. heap'[n + 1] = nodes[1] /\ heap'[n + 2] = nodes[2]
    BY <1>1, <2>1, <2>2, <2>4
  <2> QED BY <2>3, <2>5
<1>4. \A id : id \in Fresh <=> id = n + 1 \/ id = n + 2
  <2> DEFINE m == Len(heap')
  <2>1. Fresh = (n + 1)..m /\ m = n + 2
    BY <1>3 DEF Fresh
  <2> HIDE DEF n, m
  <2>2. \A id \in (n + 1)..(n + 2) : id = n + 1 \/ id = n + 2
    BY <1>1
  <2>3. n + 1 \in (n + 1)..(n + 2) /\ n + 2 \in (n + 1)..(n + 2)
    BY <1>1
  <2> QED BY <2>1, <2>2, <2>3
<1>5. /\ links \in Seq(Fresh) /\ Len(links) = 2 /\ links[1] = n + 2 /\ links[2] = n + 1
  BY <1>4
<1>6. AppendsFresh
  <2> HIDE DEF links
  <2>1. \A i, j \in 1..Len(links) : links[i] = links[j] => i = j
    <3> HIDE DEF n
    <3> QED BY <1>1, <1>5
  <2>2. \A id \in Fresh : \E i \in 1..Len(links) : links[i] = id
    BY <1>4, <1>5
  <2> QED BY <1>2, <1>5, <2>1, <2>2 DEF AppendsFresh
<1> QED BY <1>3, <1>4, <1>6

\* The code of a test.
LEMMA TestCode ==
  /\ test_code \in Seq(IrNode) /\ Len(test_code) = 3
  /\ test_code[1] \in DataNode /\ test_code[2] \in DataNode
  /\ test_code[3] = new_jmp("EQUAL", NIL)
<1>1. test_code \in Seq(IrNode) /\ Len(test_code) = 3
  BY FixedCodeTypes
<1>2. /\ test_code[1] = new_pop_reg("RAX")
      /\ test_code[2] = new_binary("TEST", operand_reg("RAX"), operand_reg("RAX"))
      /\ test_code[3] = new_jmp("EQUAL", NIL)
  BY DEF test_code
<1>3. operand_reg("RAX") \in ir_operand /\ "TEST" \in ir_op /\ "RAX" \in ir_reg
      /\ "RAX" \in DataRegister
  BY OperandTypes DEF ir_reg, ir_op, DataRegister
<1>4. new_pop_reg("RAX") \in DataNode
      /\ new_binary("TEST", operand_reg("RAX"), operand_reg("RAX")) \in DataNode
  BY <1>3, DataNodes
<1> QED BY <1>1, <1>2, <1>4

\* A jump is an ordinary node.
LEMMA JumpIsOrdinary ==
  ASSUME NEW cond \in ir_cond_flags, NEW target \in Nat
  PROVE  /\ new_jmp(cond, target) \in IrNode
         /\ Ordinary(new_jmp(cond, target))
         /\ new_jmp(cond, target).jump_target = target
         /\ new_jmp(cond, target).operation = "JMP"
<1> DEFINE node == new_jmp(cond, target)
<1>1. node \in IrNode
  BY InstructionTypes
<1>2. node.operation = "JMP" /\ node.operand1.flags = {} /\ node.jump_target = target
  BY DEF new_jmp, instruction, operand_none
<1>3. ~ IsLocalAccess(node) /\ ~ IsGlobalAccess(node)
  BY <1>2 DEF IsLocalAccess, IsGlobalAccess
<1> HIDE DEF node
<1>4. Ordinary(node)
  BY <1>2, <1>3 DEF Ordinary
<1> QED BY <1>1, <1>2, <1>4 DEF node

\* A return jumps to the node at the end of its function.
LEMMA ReturnEmits ==
  ASSUME IInv, compile_RET
  PROVE  Emission
<1> DEFINE jump == new_jmp("NONE", func_return)
           pop == new_pop_reg("RAX")
           nodes == << pop, jump >>
<1>1. Emit(nodes) /\ UNCHANGED ir_stack /\ Top.node.type = "RET" /\ heap \in Seq(IrNode)
  BY HandlerState DEF compile_RET, Handling
<1>2. jump \in IrNode /\ Ordinary(jump) /\ jump.jump_target = func_return
  <2>1. func_return \in Nat /\ "NONE" \in ir_cond_flags
    BY HandlerState DEF ir_cond_flags
  <2> QED BY <2>1, JumpIsOrdinary
<1>3. pop \in IrNode /\ Ordinary(pop) /\ pop.operation # "JMP"
  <2>1. pop \in DataNode
    BY DataNodes DEF ir_reg
  <2> QED BY <2>1, DataIsOrdinary DEF DataNode
<1> HIDE DEF jump, pop
<1>4. nodes \in Seq(IrNode) /\ Len(nodes) = 2 /\ nodes[1] = pop /\ nodes[2] = jump
  BY <1>2, <1>3
<1> HIDE DEF nodes
<1>5. EmitTo(heap, nodes)
  BY <1>1 DEF Emit
<1>6. /\ AppendsFresh
      /\ \A id \in 1..Len(heap) : heap'[id] = heap[id]
      /\ \A i \in 1..Len(nodes) : heap'[Len(heap) + i] = nodes[i]
      /\ \A id \in Fresh : \E i \in 1..Len(nodes) : id = Len(heap) + i
  BY <1>1, <1>4, <1>5, EmitsFresh
<1>7. NewNodes
  <2> SUFFICES ASSUME NEW id \in Fresh
               PROVE  /\ Ordinary(heap'[id])
                      /\ heap'[id].operation = "JMP" => NewJump(heap'[id], id)
    BY DEF NewNodes
  <2>1. heap'[id] = pop \/ heap'[id] = jump
    BY <1>4, <1>6
  <2>2. NewJump(jump, id)
    BY <1>1, <1>2 DEF NewJump
  <2> QED BY <1>2, <1>3, <2>1, <2>2
<1> QED BY <1>1, <1>6, <1>7 DEF Emission, HeapStep, StackStep

\* Between two statements the value of a call is dropped.
LEMMA SequenceEmits ==
  ASSUME IInv, CodeInv, compile_SEQ
  PROVE  Emission
<1> DEFINE h == Discarding(Top.node.left)
<1>1. /\ EmitTo(h, <<>>) /\ UNCHANGED ir_stack
      /\ walk # <<>> /\ Top.node.type = "SEQ" /\ Top.stage = COMPILED_LEFT
  BY DEF compile_SEQ, Handling
<1>2. TypeOf(Top.node.left) = "CALL" => CallCompiled
  BY <1>1 DEF CallCompiled
<1>3. /\ h \in Seq(IrNode) /\ Len(h) = Len(heap)
      /\ \A id \in 1..Len(heap) :
           h[id] = heap[id] \/ (CallCompiled /\ id = ir_tail /\ h[id] = new_empty)
  BY <1>2, DiscardStep
<1> HIDE DEF h
<1> DEFINE nodes == <<>>
<1>4. nodes \in Seq(IrNode) /\ Len(nodes) = 0 /\ EmitTo(h, nodes)
  BY <1>1
<1> HIDE DEF nodes
<1>5. /\ AppendsFresh
      /\ \A id \in 1..Len(heap) : heap'[id] = h[id]
      /\ \A id \in Fresh : \E i \in 1..Len(nodes) : id = Len(heap) + i
  BY <1>3, <1>4, EmitsFresh
<1>6. Fresh = {}
  BY <1>4, <1>5
<1> QED BY <1>1, <1>3, <1>5, <1>6 DEF Emission, HeapStep, StackStep, NewNodes

\* A test emits a jump and pushes it, for a later stage to patch.
LEMMA TestEmits ==
  ASSUME IInv, IInv', CodeInv, walk # <<>>, Proceed,
         Top.node.type \in {"WHILE", "BRANCH"}, ~ Patching, Top.stage # COMPILED_RIGHT,
         NEW h \in Seq(IrNode), Len(h) = Len(heap),
         \A id \in 1..Len(heap) :
           h[id] = heap[id] \/ (CallCompiled /\ id = ir_tail /\ h[id] = new_empty),
         EmitTo(h, test_code), ir_stack' = Append(ir_stack, Len(heap) + 3),
         Pending([node |-> Top.node, stage |-> Top.stage + 1]) = Append(Pending(Top), "exit")
  PROVE  Emission /\ PatchStackMatchesWalk'
<1> DEFINE jump == new_jmp("EQUAL", NIL)
           n == Len(heap)
           code3 == test_code
<1>1. /\ code3 \in Seq(IrNode) /\ Len(code3) = 3
      /\ Ordinary(code3[1]) /\ Ordinary(code3[2])
      /\ code3[1].operation # "JMP" /\ code3[2].operation # "JMP"
      /\ code3[3] = jump
  BY TestCode, DataIsOrdinary
<1>2. Ordinary(jump) /\ jump.jump_target = NIL
  BY JumpIsOrdinary DEF ir_cond_flags, NIL
<1>3. n \in Nat /\ ir_stack \in Seq(1..n)
  BY HandlerState
<1>4. EmitTo(h, code3)
  OBVIOUS
<1> HIDE DEF code3, jump
<1>5. /\ AppendsFresh
      /\ Len(heap') = n + 3
      /\ \A id \in 1..n : heap'[id] = h[id]
      /\ heap'[n + 1] = code3[1] /\ heap'[n + 2] = code3[2] /\ heap'[n + 3] = jump
      /\ \A id \in Fresh : id = n + 1 \/ id = n + 2 \/ id = n + 3
  <2>1. /\ AppendsFresh
        /\ Len(heap') = n + 3
        /\ \A id \in 1..n : heap'[id] = h[id]
        /\ \A i \in 1..3 : heap'[n + i] = code3[i]
        /\ \A id \in Fresh : \E i \in 1..3 : id = n + i
    <3>1. /\ AppendsFresh
          /\ Len(heap') = n + Len(code3)
          /\ \A id \in 1..n : heap'[id] = h[id]
          /\ \A i \in 1..Len(code3) : heap'[n + i] = code3[i]
          /\ \A id \in Fresh : \E i \in 1..Len(code3) : id = n + i
      BY <1>1, <1>4, EmitsFresh, Zenon
    <3> QED BY <1>1, <3>1
  <2> HIDE DEF n
  <2> QED BY <1>1, <2>1
<1>6. n + 3 \in Fresh
  <2>1. n + 3 \in (n + 1)..(n + 3)
    BY <1>3
  <2> QED BY <1>5, <2>1 DEF Fresh
<1>7. HeapStep
  BY <1>5 DEF HeapStep
<1>8. PatchStackMatchesWalk' /\ StackStep
  <2>1. Awaits("exit", heap'[n + 3])
    BY <1>5 DEF Awaits, jump
  <2> QED BY <1>6, <1>7, <2>1, EntryPushed
<1>9. NewNodes
  <2>1. \E i \in 1..Len(ir_stack') : ir_stack'[i] = n + 3
    <3>1. Len(ir_stack') = Len(ir_stack) + 1 /\ ir_stack'[Len(ir_stack) + 1] = n + 3
      BY <1>3
    <3>2. Len(ir_stack) + 1 \in 1..Len(ir_stack')
      BY <1>3, <3>1
    <3> QED BY <3>1, <3>2
  <2>2. NewJump(jump, n + 3)
    BY <1>2, <2>1 DEF NewJump
  <2> QED BY <1>1, <1>2, <1>5, <2>2 DEF NewNodes
<1> QED BY <1>5, <1>7, <1>8, <1>9 DEF Emission

\* A handler that has compiled a child patches no jump yet.
LEMMA LoopBeginEmits ==
  ASSUME IInv, IInv', CodeInv, compile_WHILE_start \/ compile_WHILE_test
  PROVE  Emission /\ PatchStackMatchesWalk'
<1> USE DEF COMPILING_LEFT, COMPILED_LEFT, COMPILING_RIGHT, COMPILED_RIGHT
<1>1. /\ walk # <<>> /\ Proceed /\ Top.node.type = "WHILE" /\ Top.stage \in {0, 1}
  BY DEF compile_WHILE_start, compile_WHILE_test, Handling
<1>2. /\ Top \in Frame /\ Top.node \in Node /\ heap \in Seq(IrNode) /\ Len(heap) \in Nat
  BY <1>1, TopState, HandlerState
<1>3. ~ Patching
  BY <1>1 DEF Patching
<1> DEFINE after == [node |-> Top.node, stage |-> Top.stage + 1]
<1>4. after \in Frame /\ after.node.type = "WHILE" /\ after.stage = Top.stage + 1
  BY <1>1, <1>2 DEF Frame
<1>5. CASE compile_WHILE_start
  <2>1. /\ Top.stage = 0 /\ Emit(<< new_empty >>) /\ ir_stack' = Append(ir_stack, Len(heap) + 1)
    BY <1>5 DEF compile_WHILE_start, Handling
  <2>2. Pending(Top) = <<>> /\ Pending(after) = << "start" >>
    <3> HIDE DEF after
    <3> QED BY <1>1, <1>2, <1>4, <2>1, PendingCases
  <2> DEFINE nodes == << new_empty >>
  <2>3. new_empty \in DataNode
    BY DataNodes
  <2>4. nodes \in Seq(IrNode) /\ Len(nodes) = 1 /\ nodes[1] = new_empty /\ EmitTo(heap, nodes)
    BY <2>1, <2>3 DEF DataNode, Emit
  <2> HIDE DEF nodes
  <2>5. /\ AppendsFresh /\ Len(heap') = Len(heap) + 1
        /\ \A id \in 1..Len(heap) : heap'[id] = heap[id]
        /\ \A i \in 1..1 : heap'[Len(heap) + i] = new_empty
        /\ \A id \in Fresh : \E i \in 1..1 : id = Len(heap) + i
    <3>1. /\ AppendsFresh
          /\ Len(heap') = Len(heap) + Len(nodes)
          /\ \A id \in 1..Len(heap) : heap'[id] = heap[id]
          /\ \A i \in 1..Len(nodes) : heap'[Len(heap) + i] = nodes[i]
          /\ \A id \in Fresh : \E i \in 1..Len(nodes) : id = Len(heap) + i
      BY <1>2, <2>4, EmitsFresh, Zenon
    <3> QED BY <2>4, <3>1
  <2>6. heap'[Len(heap) + 1] = new_empty /\ \A id \in Fresh : id = Len(heap) + 1
    BY <2>5
  <2>7. Len(heap) + 1 \in Fresh
    BY <1>2, <2>5 DEF Fresh
  <2>8. HeapStep
    BY <2>5 DEF HeapStep
  <2>9. Awaits("start", heap'[Len(heap) + 1])
    BY <2>6 DEF Awaits
  <2>10. Pending(after) = Append(Pending(Top), "start")
    BY <2>2
  <2>11. PatchStackMatchesWalk' /\ StackStep
    BY <1>1, <1>3, <2>1, <2>7, <2>8, <2>9, <2>10, EntryPushed
  <2>12. NewNodes
    BY <2>3, <2>6, DataIsOrdinary DEF NewNodes
  <2> QED BY <2>5, <2>8, <2>11, <2>12 DEF Emission
<1>6. CASE compile_WHILE_test
  <2> DEFINE h == Discarding(Top.node.left)
  <2>1. /\ Top.stage = 1 /\ EmitTo(h, test_code) /\ ir_stack' = Append(ir_stack, Len(heap) + 3)
    BY <1>6 DEF compile_WHILE_test, Handling
  <2>2. Pending(Top) = << "start" >> /\ Pending(after) = << "start", "exit" >>
    <3> HIDE DEF after
    <3> QED BY <1>1, <1>2, <1>4, <2>1, PendingCases
  <2>3. TypeOf(Top.node.left) = "CALL" => CallCompiled
    BY <1>1, <2>1 DEF CallCompiled
  <2>4. /\ h \in Seq(IrNode) /\ Len(h) = Len(heap)
        /\ \A id \in 1..Len(heap) :
             h[id] = heap[id] \/ (CallCompiled /\ id = ir_tail /\ h[id] = new_empty)
    BY <2>3, DiscardStep
  <2>5. Pending(after) = Append(Pending(Top), "exit")
    BY <2>2
  <2> HIDE DEF h
  <2> QED BY <1>1, <1>3, <2>1, <2>4, <2>5, TestEmits
<1> QED BY <1>5, <1>6

\* So does the test of a branch.
LEMMA BranchTestEmits ==
  ASSUME IInv, IInv', CodeInv, compile_BRANCH_test
  PROVE  Emission /\ PatchStackMatchesWalk'
<1> USE DEF COMPILING_LEFT, COMPILED_LEFT, COMPILING_RIGHT, COMPILED_RIGHT
<1>1. /\ walk # <<>> /\ Proceed /\ Top.node.type = "BRANCH" /\ Top.stage = 0
      /\ Emit(test_code) /\ ir_stack' = Append(ir_stack, Len(heap) + 3)
  BY DEF compile_BRANCH_test, Handling
<1>2. /\ Top \in Frame /\ Top.node \in Node /\ heap \in Seq(IrNode) /\ Len(heap) \in Nat
  BY <1>1, TopState, HandlerState
<1>3. ~ Patching
  BY <1>1 DEF Patching
<1> DEFINE after == [node |-> Top.node, stage |-> Top.stage + 1]
<1>4. after \in Frame /\ after.node.type = "BRANCH" /\ after.stage = 1
  BY <1>1, <1>2 DEF Frame
<1>5. Pending(Top) = <<>> /\ Pending(after) = << "exit" >>
  <2> HIDE DEF after
  <2> QED BY <1>1, <1>2, <1>4, PendingCases
<1>6. Pending(after) = Append(Pending(Top), "exit")
  BY <1>5
<1>7. EmitTo(heap, test_code)
  BY <1>1 DEF Emit
<1> QED BY <1>1, <1>2, <1>3, <1>6, <1>7, TestEmits

\* What patching the node on top of the stack does to the nodes, after the
\* result of a call may have been erased.
LEMMA PatchStep ==
  ASSUME IInv, CodeInv, ir_stack # <<>>, NEW child, TypeOf(child) = "CALL" => CallCompiled,
         NEW target \in Nat, NEW h, h = Patch(Discarding(child), LastPending, target)
  PROVE  /\ h \in Seq(IrNode) /\ Len(h) = Len(heap)
         /\ \A id \in 1..Len(heap) :
              \/ h[id] = heap[id]
              \/ CallCompiled /\ id = ir_tail /\ h[id] = new_empty
              \/ id = LastPending /\ h[id] = [heap[id] EXCEPT !.jump_target = target]
<1> DEFINE d == Discarding(child)
<1>1. /\ d \in Seq(IrNode) /\ Len(d) = Len(heap)
      /\ \A id \in 1..Len(heap) :
           d[id] = heap[id] \/ (CallCompiled /\ id = ir_tail /\ d[id] = new_empty)
      /\ \A i \in 1..Len(ir_stack) : d[ir_stack[i]] = heap[ir_stack[i]]
  BY DiscardStep
<1>2. Len(ir_stack) \in 1..Len(ir_stack) /\ LastPending \in 1..Len(heap)
  <2>1. ir_stack \in Seq(1..Len(heap))
    BY HandlerState
  <2> QED BY <2>1 DEF LastPending
<1>3. d[LastPending] = heap[LastPending]
  BY <1>1, <1>2 DEF LastPending
<1>4. h = Patch(d, LastPending, target)
  OBVIOUS
<1> HIDE DEF d
<1>5. h \in Seq(IrNode) /\ Len(h) = Len(heap)
  BY <1>1, <1>2, <1>4, PatchTyped
<1>6. \A id \in 1..Len(heap) :
        h[id] = IF id = LastPending THEN [d[id] EXCEPT !.jump_target = target] ELSE d[id]
  <2>1. LastPending \in 1..Len(d)
    BY <1>1, <1>2
  <2> DEFINE jump == LastPending
  <2> HIDE DEF jump
  <2>2. \A id \in 1..Len(d) :
          Patch(d, jump, target)[id]
            = IF id = jump THEN [d[id] EXCEPT !.jump_target = target] ELSE d[id]
    BY <1>1, <2>1, PatchValues DEF jump
  <2> QED BY <1>1, <1>4, <2>2 DEF jump
<1>7. ASSUME NEW id \in 1..Len(heap)
      PROVE  \/ h[id] = heap[id]
             \/ CallCompiled /\ id = ir_tail /\ h[id] = new_empty
             \/ id = LastPending /\ h[id] = [heap[id] EXCEPT !.jump_target = target]
  <2>1. CASE id = LastPending
    BY <1>3, <1>6, <2>1, Zenon
  <2>2. CASE id # LastPending
    BY <1>1, <1>6, <2>2, Zenon
  <2> QED BY <2>1, <2>2
<1> QED BY <1>5, <1>7

\* The end of a loop jumps back to its start, and its test jumps behind it.
LEMMA LoopEndEmits ==
  ASSUME IInv, IInv', CodeInv, compile_WHILE_end
  PROVE  Emission /\ PatchStackMatchesWalk'
<1> USE DEF COMPILING_LEFT, COMPILED_LEFT, COMPILING_RIGHT, COMPILED_RIGHT
<1> DEFINE n     == Len(heap)
           e     == Len(ir_stack)
           start == ir_stack[e - 1]
           h     == Patch(Discarding(NULL), LastPending, n + 1)
           back  == new_jmp("NONE", start)
           nodes == << new_empty, back >>
<1>1. /\ walk # <<>> /\ Proceed /\ Top.node.type = "WHILE" /\ Top.stage = 3
      /\ heap' = Patch(heap, LastPending, n + 1) \o nodes
      /\ list' = list \o << (n + 1) + 1, n + 1 >>
      /\ ir_stack' = SubSeq(ir_stack, 1, e - 2)
  BY DEF compile_WHILE_end, Handling
<1>2. Top \in Frame /\ n \in Nat /\ ir_stack \in Seq(1..n) /\ e \in Nat
  BY <1>1, TopState, HandlerState
<1>3. Pending(Top) = << "start", "exit" >>
  BY <1>1, <1>2, PendingCases
<1>4. /\ Base(walk, Len(walk)) \in Nat /\ e = Base(walk, Len(walk)) + 2
      /\ Awaits("start", heap[ir_stack[Base(walk, Len(walk)) + 1]])
      /\ Awaits("exit", heap[ir_stack[Base(walk, Len(walk)) + 2]])
  <2>1. Len(Pending(Top)) = 2 /\ Pending(Top)[1] = "start" /\ Pending(Top)[2] = "exit"
    BY <1>3
  <2>2. 1 \in 1..Len(Pending(Top)) /\ 2 \in 1..Len(Pending(Top))
    BY <2>1
  <2> QED BY <1>1, <2>1, <2>2, TopState
<1>5. /\ e >= 2 /\ e - 1 \in 1..e /\ ir_stack # <<>>
      /\ heap[start].operation = "NOP" /\ start \in 1..n
  <2>1. e >= 2 /\ e - 1 \in 1..e /\ e - 1 = Base(walk, Len(walk)) + 1
    BY <1>2, <1>4
  <2>2. heap[start] = new_empty
    BY <1>4, <2>1 DEF Awaits
  <2>3. start \in 1..n
    BY <1>2, <2>1
  <2> QED BY <1>2, <2>1, <2>2, <2>3 DEF new_empty, instruction
<1>6. Discarding(NULL) = heap /\ TypeOf(NULL) # "CALL"
  BY DEF Discarding, TypeOf
<1>7. /\ h \in Seq(IrNode) /\ Len(h) = n
      /\ \A id \in 1..n :
           \/ h[id] = heap[id]
           \/ CallCompiled /\ id = ir_tail /\ h[id] = new_empty
           \/ id = LastPending /\ h[id] = [heap[id] EXCEPT !.jump_target = n + 1]
  <2>1. n + 1 \in Nat
    BY <1>2
  <2>2. h = Patch(Discarding(NULL), LastPending, n + 1)
    OBVIOUS
  <2>3. ir_stack # <<>>
    BY <1>5
  <2>4. TypeOf(NULL) = "CALL" => CallCompiled
    BY <1>6
  <2>5. PICK target \in Nat : target = n + 1
    BY <2>1
  <2> HIDE DEF h
  <2>6. h = Patch(Discarding(NULL), LastPending, target)
    BY <2>2, <2>5
  <2>7. /\ h \in Seq(IrNode) /\ Len(h) = Len(heap)
        /\ \A id \in 1..Len(heap) :
             \/ h[id] = heap[id]
             \/ CallCompiled /\ id = ir_tail /\ h[id] = new_empty
             \/ id = LastPending /\ h[id] = [heap[id] EXCEPT !.jump_target = target]
    BY <2>3, <2>4, <2>6, PatchStep
  <2> QED BY <2>5, <2>7
<1>8. /\ back \in IrNode /\ Ordinary(back) /\ back.jump_target = start
      /\ new_empty \in IrNode /\ Ordinary(new_empty) /\ new_empty.operation # "JMP"
  <2>1. start \in Nat /\ "NONE" \in ir_cond_flags
    BY <1>2, <1>5 DEF ir_cond_flags
  <2>2. new_empty \in DataNode
    BY DataNodes
  <2> HIDE DEF start
  <2> QED BY <2>1, <2>2, JumpIsOrdinary, DataIsOrdinary DEF DataNode
<1>9. heap' = h \o nodes /\ list' = list \o << n + 2, n + 1 >>
  <2>1. (n + 1) + 1 = n + 2
    BY <1>2
  <2> QED BY <1>1, <1>6, <2>1
<1> HIDE DEF h, back
<1>10. nodes \in Seq(IrNode) /\ Len(nodes) = 2 /\ nodes[1] = new_empty /\ nodes[2] = back
  BY <1>8
<1> HIDE DEF nodes
<1>11. /\ AppendsFresh
       /\ \A id \in 1..n : heap'[id] = h[id]
       /\ heap'[n + 1] = new_empty /\ heap'[n + 2] = back
       /\ \A id : id \in Fresh <=> id = n + 1 \/ id = n + 2
  BY <1>7, <1>9, <1>10, SwappedFresh
<1>12. HeapStep
  <2>1. Patching /\ n + 1 \in Fresh
    BY <1>1, <1>11 DEF Patching
  <2> QED BY <1>1, <1>7, <1>11, <2>1 DEF HeapStep
<1>13. PatchStackMatchesWalk'
  <2>1. Len(Pending(Top)) = 2
    BY <1>3
  <2> QED BY <1>1, <1>12, <2>1, EntriesPopped
<1>14. Len(ir_stack') = e - 2 /\ \A i \in 1..(e - 2) : ir_stack'[i] = ir_stack[i]
  <2>1. e - 2 \in 0..Len(ir_stack)
    BY <1>2, <1>5
  <2> DEFINE k == e - 2
  <2>2. k \in 0..Len(ir_stack) /\ ir_stack' = SubSeq(ir_stack, 1, k)
    BY <1>1, <2>1
  <2> HIDE DEF k
  <2>3. Len(ir_stack') = k /\ \A i \in 1..k : ir_stack'[i] = ir_stack[i]
    BY <1>2, <2>2, FrontOf
  <2> QED BY <2>3 DEF k
<1>15. StackStep
  <2>1. ASSUME NEW i \in 1..Len(ir_stack), heap[ir_stack[i]].operation # "NOP"
        PROVE  \/ Patching /\ ir_stack[i] = LastPending
               \/ \E j \in 1..Len(ir_stack') : ir_stack'[j] = ir_stack[i]
    <3>1. i = e \/ i = e - 1 \/ i \in 1..(e - 2)
      BY <1>2
    <3>2. CASE i = e
      BY <1>1, <3>2 DEF Patching, LastPending
    <3>3. CASE i = e - 1
      BY <1>5, <2>1, <3>3
    <3>4. CASE i \in 1..(e - 2)
      BY <1>14, <3>4
    <3> QED BY <3>1, <3>2, <3>3, <3>4
  <2>2. \A j \in 1..Len(ir_stack') : \E i \in 1..Len(ir_stack) : ir_stack'[j] = ir_stack[i]
    <3>1. \A j \in 1..(e - 2) : j \in 1..Len(ir_stack)
      BY <1>2
    <3> QED BY <1>14, <3>1
  <2> QED BY <2>1, <2>2 DEF StackStep
<1>16. NewNodes
  <2>1. NewJump(back, n + 2)
    BY <1>1, <1>5, <1>8 DEF NewJump
  <2> QED BY <1>8, <1>11, <2>1 DEF NewNodes
<1> QED BY <1>11, <1>12, <1>13, <1>15, <1>16 DEF Emission

\* Behind the body of an `if` the test jumps to the `else`, and the body's end
\* over it.
LEMMA ElseEmits ==
  ASSUME IInv, IInv', CodeInv, compile_BRANCH_else
  PROVE  Emission /\ PatchStackMatchesWalk'
<1> USE DEF COMPILING_LEFT, COMPILED_LEFT, COMPILING_RIGHT, COMPILED_RIGHT
<1> DEFINE n     == Len(heap)
           e     == Len(ir_stack)
           h     == Patch(Discarding(Top.node.left), LastPending, n + 1)
           skip  == new_jmp("NONE", NIL)
           nodes == << new_empty, skip >>
           after == [node |-> Top.node, stage |-> Top.stage + 1]
           b     == Base(walk, Len(walk))
<1>1. /\ walk # <<>> /\ Proceed /\ Top.node.type = "BRANCH" /\ Top.stage = 1
      /\ heap' = h \o nodes
      /\ list' = list \o << (n + 1) + 1, n + 1 >>
      /\ ir_stack' = [ir_stack EXCEPT ![e] = (n + 1) + 1]
  BY DEF compile_BRANCH_else, Handling
<1>2. Top \in Frame /\ Top.node \in Node /\ n \in Nat /\ ir_stack \in Seq(1..n) /\ e \in Nat
  BY <1>1, TopState, HandlerState
<1>3. after \in Frame /\ after.node.type = "BRANCH" /\ after.stage = 2
  BY <1>1, <1>2 DEF Frame
<1>4. Pending(Top) = << "exit" >> /\ Pending(after) = << "skip" >>
  <2> HIDE DEF after
  <2> QED BY <1>1, <1>2, <1>3, PendingCases
<1>5. b \in Nat /\ e = b + 1
  <2>1. Len(Pending(Top)) = 1
    BY <1>4
  <2> QED BY <1>1, <2>1, TopState
<1>6. e \in 1..Len(ir_stack) /\ ir_stack # <<>>
  BY <1>2, <1>5
<1>7. TypeOf(Top.node.left) = "CALL" => CallCompiled
  BY <1>1 DEF CallCompiled
<1>8. /\ h \in Seq(IrNode) /\ Len(h) = n
      /\ \A id \in 1..n :
           \/ h[id] = heap[id]
           \/ CallCompiled /\ id = ir_tail /\ h[id] = new_empty
           \/ id = LastPending /\ h[id] = [heap[id] EXCEPT !.jump_target = n + 1]
  <2>1. n + 1 \in Nat
    BY <1>2
  <2> HIDE DEF n
  <2> QED BY <1>6, <1>7, <2>1, PatchStep DEF n
<1>9. /\ skip \in IrNode /\ Ordinary(skip) /\ skip.jump_target = NIL
      /\ new_empty \in IrNode /\ Ordinary(new_empty) /\ new_empty.operation # "JMP"
  <2>1. NIL \in Nat /\ "NONE" \in ir_cond_flags
    BY DEF ir_cond_flags, NIL
  <2>2. new_empty \in DataNode
    BY DataNodes
  <2> QED BY <2>1, <2>2, JumpIsOrdinary, DataIsOrdinary DEF DataNode
<1>10. (n + 1) + 1 = n + 2
  BY <1>2
<1>11. heap' = h \o nodes /\ list' = list \o << n + 2, n + 1 >>
       /\ ir_stack' = [ir_stack EXCEPT ![e] = n + 2]
  BY <1>1, <1>10
<1> HIDE DEF h, skip
<1>12. nodes \in Seq(IrNode) /\ Len(nodes) = 2 /\ nodes[1] = new_empty /\ nodes[2] = skip
  BY <1>9
<1> HIDE DEF nodes
<1>13. /\ AppendsFresh
       /\ Len(heap') = n + 2
       /\ \A id \in 1..n : heap'[id] = h[id]
       /\ heap'[n + 1] = new_empty /\ heap'[n + 2] = skip
       /\ \A id : id \in Fresh <=> id = n + 1 \/ id = n + 2
  BY <1>8, <1>11, <1>12, SwappedFresh
<1>14. HeapStep /\ Patching
  <2>1. Patching /\ n + 1 \in Fresh
    BY <1>1, <1>13 DEF Patching
  <2> QED BY <1>1, <1>8, <1>13, <2>1 DEF HeapStep
<1>15. /\ Len(ir_stack') = e
       /\ \A i \in 1..(e - 1) : ir_stack'[i] = ir_stack[i]
       /\ ir_stack'[e] = n + 2
  <2> DEFINE id == n + 2
  <2>1. ir_stack' = [ir_stack EXCEPT ![e] = id]
    BY <1>11
  <2> HIDE DEF id
  <2>2. Len(ir_stack') = Len(ir_stack)
    BY <1>2, <1>6, <2>1
  <2>3. \A i \in 1..(e - 1) : i \in 1..Len(ir_stack) /\ i # e
    BY <1>2, <1>6
  <2>4. ir_stack'[e] = id /\ \A i \in 1..Len(ir_stack) : i # e => ir_stack'[i] = ir_stack[i]
    BY <1>2, <1>6, <2>1
  <2> QED BY <2>2, <2>3, <2>4 DEF id
<1>16. StackStep
  <2>1. ASSUME NEW i \in 1..Len(ir_stack), heap[ir_stack[i]].operation # "NOP"
        PROVE  \/ Patching /\ ir_stack[i] = LastPending
               \/ \E j \in 1..Len(ir_stack') : ir_stack'[j] = ir_stack[i]
    <3>1. CASE i = e
      BY <1>14, <3>1 DEF LastPending
    <3>2. CASE i # e
      <4>1. i \in 1..(e - 1) /\ i \in 1..Len(ir_stack')
        BY <1>2, <1>15, <3>2
      <4> QED BY <1>15, <4>1
    <3> QED BY <3>1, <3>2
  <2>2. ASSUME NEW j \in 1..Len(ir_stack')
        PROVE  ir_stack'[j] \in Fresh \/ \E i \in 1..Len(ir_stack) : ir_stack'[j] = ir_stack[i]
    <3>1. j = e \/ (j \in 1..(e - 1) /\ j \in 1..Len(ir_stack))
      BY <1>2, <1>15
    <3> QED BY <1>13, <1>15, <3>1
  <2> QED BY <2>1, <2>2 DEF StackStep
<1>17. NewNodes
  <2>1. e \in 1..Len(ir_stack')
    BY <1>6, <1>15
  <2>2. NewJump(skip, n + 2)
    BY <1>1, <1>9, <1>15, <2>1 DEF NewJump
  <2> QED BY <1>9, <1>13, <2>2 DEF NewNodes
<1>18. PatchStackMatchesWalk'
  <2>1. PatchStackMatchesWalk
    BY DEF CodeInv
  <2>2. \A i \in 1..b : /\ i \in 1..Len(ir_stack) /\ i # Len(ir_stack) /\ i \in 1..(e - 1)
    BY <1>2, <1>5
  <2>3. \A i \in 1..b : ir_stack'[i] = ir_stack[i] /\ heap'[ir_stack[i]] = heap[ir_stack[i]]
    BY <1>14, <1>15, <2>2, WaitingStay
  <2>4. ASSUME NEW i \in 1..Len(ir_stack'), NEW j \in 1..(i - 1) PROVE ir_stack'[j] # ir_stack'[i]
    <3>1. CASE i = e
      <4>1. j \in 1..(e - 1) /\ j \in 1..Len(ir_stack)
        BY <1>2, <3>1
      <4>2. ir_stack[j] \in 1..n
        BY <1>2, <4>1
      <4> QED BY <1>2, <1>15, <3>1, <4>1, <4>2
    <3>2. CASE i # e
      <4>1. i \in 1..(e - 1) /\ j \in 1..(e - 1) /\ i \in 1..Len(ir_stack)
        BY <1>2, <1>15, <3>2
      <4> QED BY <1>15, <2>1, <4>1 DEF PatchStackMatchesWalk
    <3> QED BY <3>1, <3>2
  <2>5. Len(ir_stack') = b + Len(Pending(after))
    BY <1>4, <1>5, <1>15
  <2>6. \A k \in 1..Len(Pending(after)) : Awaits(Pending(after)[k], heap'[ir_stack'[b + k]])
    <3>1. Awaits("skip", heap'[ir_stack'[b + 1]])
      BY <1>5, <1>13, <1>15 DEF Awaits, skip
    <3>2. \A k \in 1..Len(Pending(after)) : k = 1 /\ Pending(after)[k] = "skip"
      BY <1>4
    <3> QED BY <3>1, <3>2
  <2>7. Top.stage # COMPILED_RIGHT
    BY <1>1
  <2> HIDE DEF after, b
  <2> QED BY <1>1, <2>1, <2>3, <2>4, <2>5, <2>6, <2>7, EntriesKept DEF after, b
<1> QED BY <1>13, <1>14, <1>16, <1>17, <1>18 DEF Emission

\* Behind the whole branch the last jump is patched.
LEMMA BranchEndEmits ==
  ASSUME IInv, IInv', CodeInv, compile_BRANCH_end
  PROVE  Emission /\ PatchStackMatchesWalk'
<1> USE DEF COMPILING_LEFT, COMPILED_LEFT, COMPILING_RIGHT, COMPILED_RIGHT
<1> DEFINE n     == Len(heap)
           e     == Len(ir_stack)
           h     == Patch(Discarding(Top.node.right), LastPending, n + 1)
           nodes == << new_empty >>
<1>1. /\ walk # <<>> /\ Proceed /\ Top.node.type = "BRANCH" /\ Top.stage = 3
      /\ EmitTo(h, nodes)
      /\ ir_stack' = SubSeq(ir_stack, 1, e - 1)
  BY DEF compile_BRANCH_end, Handling
<1>2. Top \in Frame /\ n \in Nat /\ ir_stack \in Seq(1..n) /\ e \in Nat
  BY <1>1, TopState, HandlerState
<1>3. Len(Pending(Top)) = 1
  <2>1. Pending(Top) = << "skip" >>
    BY <1>1, <1>2, PendingCases
  <2> QED BY <2>1
<1>4. e >= 1 /\ ir_stack # <<>>
  <2>1. Base(walk, Len(walk)) \in Nat /\ e = Base(walk, Len(walk)) + 1
    BY <1>1, <1>3, TopState
  <2> QED BY <1>2, <2>1
<1>5. TypeOf(Top.node.right) = "CALL" => CallCompiled
  BY <1>1 DEF CallCompiled
<1>6. /\ h \in Seq(IrNode) /\ Len(h) = n
      /\ \A id \in 1..n :
           \/ h[id] = heap[id]
           \/ CallCompiled /\ id = ir_tail /\ h[id] = new_empty
           \/ id = LastPending /\ h[id] = [heap[id] EXCEPT !.jump_target = n + 1]
  <2>1. n + 1 \in Nat
    BY <1>2
  <2> HIDE DEF n
  <2> QED BY <1>4, <1>5, <2>1, PatchStep DEF n
<1> HIDE DEF h
<1>7. new_empty \in DataNode
  BY DataNodes
<1>8. nodes \in Seq(IrNode) /\ Len(nodes) = 1 /\ nodes[1] = new_empty
  BY <1>7 DEF DataNode
<1> HIDE DEF nodes
<1>9. /\ AppendsFresh
      /\ Len(heap') = n + 1
      /\ \A id \in 1..n : heap'[id] = h[id]
      /\ heap'[n + 1] = new_empty
      /\ \A id \in Fresh : id = n + 1
  <2>1. /\ AppendsFresh
        /\ Len(heap') = n + Len(nodes)
        /\ \A id \in 1..n : heap'[id] = h[id]
        /\ \A i \in 1..Len(nodes) : heap'[n + i] = nodes[i]
        /\ \A id \in Fresh : \E i \in 1..Len(nodes) : id = n + i
    BY <1>1, <1>6, <1>8, EmitsFresh, Zenon
  <2>2. /\ \A i \in 1..1 : heap'[n + i] = new_empty
        /\ \A id \in Fresh : \E i \in 1..1 : id = n + i
    BY <1>8, <2>1
  <2>3. heap'[n + 1] = new_empty /\ \A id \in Fresh : id = n + 1
    BY <2>2
  <2> QED BY <1>8, <2>1, <2>3
<1>10. n + 1 \in Fresh
  BY <1>2, <1>9 DEF Fresh
<1>11. HeapStep
  <2>1. Patching
    BY <1>1 DEF Patching
  <2> QED BY <1>1, <1>6, <1>9, <1>10, <2>1 DEF HeapStep
<1>12. PatchStackMatchesWalk'
  BY <1>1, <1>3, <1>11, EntriesPopped
<1>13. Len(ir_stack') = e - 1 /\ \A i \in 1..(e - 1) : ir_stack'[i] = ir_stack[i]
  <2> DEFINE k == e - 1
  <2>1. k \in 0..Len(ir_stack) /\ ir_stack' = SubSeq(ir_stack, 1, k)
    BY <1>1, <1>2, <1>4
  <2> HIDE DEF k
  <2>2. Len(ir_stack') = k /\ \A i \in 1..k : ir_stack'[i] = ir_stack[i]
    BY <1>2, <2>1, FrontOf
  <2> QED BY <2>2 DEF k
<1>14. StackStep
  <2>1. ASSUME NEW i \in 1..Len(ir_stack), heap[ir_stack[i]].operation # "NOP"
        PROVE  \/ Patching /\ ir_stack[i] = LastPending
               \/ \E j \in 1..Len(ir_stack') : ir_stack'[j] = ir_stack[i]
    <3>1. CASE i = e
      BY <1>1, <3>1 DEF Patching, LastPending
    <3>2. CASE i # e
      <4>1. i \in 1..(e - 1)
        BY <1>2, <3>2
      <4> QED BY <1>13, <4>1
    <3> QED BY <3>1, <3>2
  <2>2. \A j \in 1..Len(ir_stack') : \E i \in 1..Len(ir_stack) : ir_stack'[j] = ir_stack[i]
    <3>1. \A j \in 1..(e - 1) : j \in 1..Len(ir_stack)
      BY <1>2
    <3> QED BY <1>13, <3>1
  <2> QED BY <2>1, <2>2 DEF StackStep
<1>15. NewNodes
  BY <1>7, <1>9, DataIsOrdinary DEF NewNodes
<1> QED BY <1>9, <1>11, <1>12, <1>14, <1>15 DEF Emission

\* The handlers inside a function or an initializer.
BodyHandler ==
  \/ Straight \/ compile_RET \/ compile_SEQ
  \/ compile_WHILE_start \/ compile_WHILE_test \/ compile_WHILE_end
  \/ compile_BRANCH_test \/ compile_BRANCH_else \/ compile_BRANCH_end

\* Each of them emits as it should, and keeps the stack that of the recursion.
LEMMA HandlersEmit ==
  ASSUME IInv, IInv', CodeInv, BodyHandler
  PROVE  Emission /\ PatchStackMatchesWalk'
<1> USE DEF COMPILING_LEFT, COMPILED_LEFT, COMPILING_RIGHT, COMPILED_RIGHT
<1>1. CASE Straight
  <2>1. Emission
    BY <1>1, StraightEmits
  <2>2. walk # <<>> /\ Proceed
    BY <1>1, HandlerProceeds DEF Straight, HandleNode
  <2>3. UNCHANGED ir_stack
    BY <1>1 DEF Straight, compile_NVAR, compile_ASS, compile_VAR, compile_CONST,
                compile_OP_dividend, compile_OP, compile_CALL, compile_BLOCK_begin,
                compile_BLOCK_end, compile_NFUN_body, compile_nothing
  <2>4. Top.stage \in 0..3
    BY <2>2, TopState
  <2>5. /\ Top.node.type \in {"WHILE", "BRANCH"} => Top.stage = 2
        /\ Top.node.type = "NFUN" => Top.stage \in {1, 2}
    BY <1>1, <2>4 DEF Straight, compile_NVAR, compile_ASS, compile_VAR, compile_CONST,
                compile_OP_dividend, compile_OP, compile_CALL, compile_BLOCK_begin,
                compile_BLOCK_end, compile_NFUN_body, compile_nothing, Handling, Acts
  <2> QED BY <2>1, <2>2, <2>3, <2>5, EntriesStay DEF Emission
<1>2. CASE compile_RET \/ compile_SEQ
  <2>1. Emission
    BY <1>2, ReturnEmits, SequenceEmits
  <2>2. walk # <<>> /\ Proceed /\ UNCHANGED ir_stack /\ Top.node.type \in {"RET", "SEQ"}
    BY <1>2 DEF compile_RET, compile_SEQ, Handling
  <2> QED BY <2>1, <2>2, EntriesStay DEF Emission
<1> QED BY <1>1, <1>2, LoopBeginEmits, LoopEndEmits, BranchTestEmits, ElseEmits, BranchEndEmits
        DEF BodyHandler

-----------------------------------------------------------------------------
(* What emission keeps.                                                    *)

\* The list only grows, at its end, by the nodes just allocated.
LEMMA ListGrown ==
  ASSUME IInv, AppendsFresh
  PROVE  /\ Len(list) \in Nat /\ Len(list') \in Nat /\ Len(list') >= Len(list)
         /\ \A i \in 1..Len(list) : list'[i] = list[i]
         /\ \A i \in (Len(list) + 1)..Len(list') : list'[i] \in Fresh
         /\ \A i, j \in (Len(list) + 1)..Len(list') : list'[i] = list'[j] => i = j
         /\ \A id \in Fresh : \E i \in (Len(list) + 1)..Len(list') : list'[i] = id
<1> DEFINE n == Len(list)
<1>1. PICK links \in Seq(Fresh) :
        /\ list' = list \o links
        /\ \A i, j \in 1..Len(links) : links[i] = links[j] => i = j
        /\ \A id \in Fresh : \E i \in 1..Len(links) : links[i] = id
  BY DEF AppendsFresh
<1> DEFINE m == Len(links)
<1>2. list \in Seq(1..Len(heap)) /\ n \in Nat /\ m \in Nat
  BY HandlerState
<1>3. /\ Len(list') = n + m
      /\ \A i \in 1..n : list'[i] = list[i]
      /\ \A i \in 1..m : list'[n + i] = links[i]
  <2> DEFINE Ids == (1..Len(heap)) \cup Fresh
  <2>1. list \in Seq(Ids) /\ links \in Seq(Ids)
    BY <1>2
  <2> HIDE DEF Ids
  <2>2. /\ Len(list \o links) = Len(list) + Len(links)
        /\ \A i \in 1..(Len(list) + Len(links)) :
             (list \o links)[i] = IF i <= Len(list) THEN list[i] ELSE links[i - Len(list)]
    BY <2>1, ConcatProperties
  <2>3. \A i \in 1..m : (n + i) - n = i /\ n + i \in 1..(n + m) /\ ~ (n + i <= n)
    BY <1>2
  <2>4. Len(list') = n + m /\ \A i \in 1..n : list'[i] = list[i]
    BY <1>1, <1>2, <2>2
  <2>5. ASSUME NEW i \in 1..m PROVE list'[n + i] = links[i]
    <3>1. (n + i) - n = i /\ n + i \in 1..(n + m) /\ ~ (n + i <= n)
      BY <2>3
    <3> HIDE DEF n, m
    <3>2. (list \o links)[n + i] = IF n + i <= n THEN list[n + i] ELSE links[(n + i) - n]
      BY <2>2, <3>1 DEF n, m
    <3> QED BY <1>1, <3>1, <3>2
  <2> QED BY <2>4, <2>5
<1>4. \A i \in (n + 1)..(n + m) : i - n \in 1..m /\ n + (i - n) = i
  BY <1>2
<1>5. \A i \in (n + 1)..(n + m) : list'[i] = links[i - n]
  BY <1>3, <1>4
<1>6. \A i \in (n + 1)..(n + m) : list'[i] \in Fresh
  BY <1>4, <1>5
<1>7. \A i, j \in (n + 1)..(n + m) : list'[i] = list'[j] => i = j
  <2> SUFFICES ASSUME NEW i \in (n + 1)..(n + m), NEW j \in (n + 1)..(n + m),
                      list'[i] = list'[j]
               PROVE  i = j
    OBVIOUS
  <2>1. /\ i - n \in 1..m /\ j - n \in 1..m
        /\ links[i - n] = links[j - n]
    BY <1>4, <1>5
  <2>2. i - n = j - n
    BY <1>1, <2>1, Zenon
  <2>3. i \in Int /\ j \in Int
    BY <1>2
  <2> QED BY ONLY <1>2, <2>2, <2>3
<1>8. \A id \in Fresh : \E i \in (n + 1)..(n + m) : list'[i] = id
  <2> SUFFICES ASSUME NEW id \in Fresh
               PROVE  \E i \in (n + 1)..(n + m) : list'[i] = id
    OBVIOUS
  <2>1. PICK i \in 1..m : links[i] = id
    BY <1>1
  <2>2. n + i \in (n + 1)..(n + m)
    BY <1>2
  <2> QED BY <1>3, <2>1, <2>2
<1>9. Len(list') \in Nat /\ Len(list') >= n
  BY <1>2, <1>3
<1> QED BY <1>2, <1>3, <1>6, <1>7, <1>8, <1>9

\* What is patched is linked, and was a jump without a target.
LEMMA PatchedNode ==
  ASSUME IInv, CodeInv, walk # <<>>, Patching
  PROVE  /\ Len(ir_stack) \in 1..Len(ir_stack)
         /\ LastPending \in 1..Len(heap)
         /\ Listed(LastPending)
         /\ heap[LastPending].operation = "JMP" /\ heap[LastPending].jump_target = NIL
<1> USE DEF COMPILING_LEFT, COMPILED_LEFT, COMPILING_RIGHT, COMPILED_RIGHT
<1> DEFINE b == Base(walk, Len(walk))
           p == Pending(Top)
           e == Len(ir_stack)
<1>1. /\ Top \in Frame /\ ir_stack \in Seq(1..Len(heap)) /\ e \in Nat
      /\ b \in Nat /\ e = b + Len(p)
      /\ \A k \in 1..Len(p) : Awaits(p[k], heap[ir_stack[b + k]])
  BY TopState, HandlerState
<1>2. /\ Len(p) \in {1, 2} /\ p[Len(p)] \in {"exit", "skip"}
  <2>1. p = << "start", "exit" >> \/ p = << "exit" >> \/ p = << "skip" >>
    BY <1>1, PendingCases DEF Patching
  <2> HIDE DEF p
  <2> QED BY <2>1
<1> DEFINE m == Len(p)
<1> HIDE DEF p, b
<1>3. e \in 1..e /\ b + m = e /\ m \in 1..m
  <2>1. m \in {1, 2} /\ b \in Nat /\ e = b + m
    BY <1>1, <1>2
  <2> HIDE DEF m, e
  <2> QED BY <2>1
<1>4. Awaits(p[m], heap[LastPending])
  BY <1>1, <1>3 DEF LastPending
<1>5. heap[LastPending] = new_jmp("EQUAL", NIL) \/ heap[LastPending] = new_jmp("NONE", NIL)
  BY <1>2, <1>4 DEF Awaits
<1>6. Listed(LastPending)
  BY <1>3 DEF CodeInv, PatchStackMatchesWalk, LastPending
<1> QED BY <1>1, <1>3, <1>5, <1>6 DEF LastPending, new_jmp, instruction

\* A node that is not in the list is neither linked nor changed.
LEMMA UnlistedKept ==
  ASSUME IInv, CodeInv, walk # <<>>, AppendsFresh, HeapStep,
         NEW id \in 1..Len(heap), ~ Listed(id)
  PROVE  (\A i \in 1..Len(list') : list'[i] # id) /\ heap'[id] = heap[id]
<1>1. id # ir_tail
  <2>1. list \in Seq(1..Len(heap)) /\ list # <<>>
    BY HandlerState
  <2>2. Len(list) \in 1..Len(list)
    BY <2>1
  <2> QED BY <2>2 DEF Listed, ir_tail
<1>2. ~ (Patching /\ id = LastPending)
  BY PatchedNode
<1>3. heap'[id] = heap[id]
  BY <1>1, <1>2 DEF HeapStep
<1>4. ASSUME NEW i \in 1..Len(list') PROVE list'[i] # id
  <2>1. CASE i \in 1..Len(list)
    BY <2>1, ListGrown DEF Listed
  <2>2. CASE i \notin 1..Len(list)
    <3>1. i \in (Len(list) + 1)..Len(list')
      BY <2>2, ListGrown
    <3>2. list'[i] \in Fresh
      BY <3>1, ListGrown
    <3> QED BY <3>2, HandlerState DEF Fresh
  <2> QED BY <2>1, <2>2
<1> QED BY <1>3, <1>4

\* No node is linked twice.
LEMMA LinkedOnce ==
  ASSUME IInv, CodeInv, AppendsFresh
  PROVE  \A i, j \in 1..Len(list') : list'[i] = list'[j] => i = j
<1> DEFINE n == Len(list)
           Old == 1..n
           New == (n + 1)..Len(list')
<1>1. ASSUME NEW i \in 1..Len(list') PROVE i \in Old \/ i \in New
  BY ListGrown
<1>2. \A i \in Old : list'[i] = list[i] /\ list'[i] \in 1..Len(heap)
  BY ListGrown, HandlerState
<1>3. \A i \in New : list'[i] \in Fresh
  BY ListGrown
<1>4. \A id \in Fresh : id \notin 1..Len(heap)
  BY HandlerState DEF Fresh
<1>5. \A i, j \in Old : list[i] = list[j] => i = j
  BY DEF CodeInv, ListInv
<1>6. \A i, j \in New : list'[i] = list'[j] => i = j
  BY ListGrown
<1> HIDE DEF Old, New
<1> QED BY <1>1, <1>2, <1>3, <1>4, <1>5, <1>6

\* Emission keeps the heads of the functions to come, and the node returns
\* jump to, out of the list.
LEMMA ListKept ==
  ASSUME IInv, CodeInv, walk # <<>>, Proceed, UNCHANGED <<control, func_return>>,
         AppendsFresh, HeapStep
  PROVE  ListInv'
<1>1. \A i, j \in 1..Len(list') : list'[i] = list'[j] => i = j
  BY LinkedOnce
<1>2. UNCHANGED functions /\ next_func \in Nat /\ walk \in Seq(Frame) /\ FunctionOrder
      /\ func_return \in 0..Len(heap)
  BY HandlerState DEF control, IInv, TypeOK, CodeInv
<1>3. ASSUME NEW k \in 1..Len(functions), Waiting(k)'
      PROVE  /\ \A i \in 1..Len(list') : list'[i] # functions[k].ir_list_head
             /\ heap'[functions[k].ir_list_head] = new_empty
  <2>1. Waiting(k)
    BY <1>2, <1>3, OrderKept
  <2>2. ~ Listed(functions[k].ir_list_head) /\ heap[functions[k].ir_list_head] = new_empty
    BY <2>1 DEF CodeInv, ListInv
  <2>3. functions[k].ir_list_head \in 1..Len(heap)
    BY DEF IInv, FunctionTable
  <2> DEFINE head == functions[k].ir_list_head
  <2> HIDE DEF head
  <2>4. (\A i \in 1..Len(list') : list'[i] # head) /\ heap'[head] = heap[head]
    BY <2>2, <2>3, UnlistedKept DEF head
  <2> QED BY <1>2, <2>2, <2>4 DEF head
<1>4. ASSUME func_return # NIL
      PROVE  (\A i \in 1..Len(list') : list'[i] # func_return) /\ heap'[func_return] = new_empty
  <2>1. ~ Listed(func_return) /\ heap[func_return] = new_empty /\ func_return \in 1..Len(heap)
    BY <1>2, <1>4 DEF CodeInv, ListInv, NIL
  <2> QED BY <2>1, UnlistedKept
<1>5. func_return # NIL => \A k \in 1..Len(functions) : functions[k].ir_list_head # func_return
  BY DEF CodeInv, ListInv
<1> QED BY <1>1, <1>2, <1>3, <1>4, <1>5 DEF ListInv, Listed, control

\* What none of these handlers touches.
LEMMA BodyUnchanged ==
  ASSUME BodyHandler
  PROVE  walk # <<>> /\ Proceed /\ UNCHANGED <<control, func_return>>
<1>1. HandleNode
  BY DEF BodyHandler, Straight, HandleNode
<1>2. UNCHANGED func_return
  BY DEF BodyHandler, Straight, returns, compile_NVAR, compile_ASS, compile_VAR, compile_CONST,
         compile_OP_dividend, compile_OP, compile_CALL, compile_BLOCK_begin, compile_BLOCK_end,
         compile_NFUN_body, compile_nothing, compile_RET, compile_SEQ, compile_WHILE_start,
         compile_WHILE_test, compile_WHILE_end, compile_BRANCH_test, compile_BRANCH_else,
         compile_BRANCH_end
<1> QED BY <1>1, <1>2, HandlerProceeds

\* Of these handlers, only that of a call leaves a call behind.
LEMMA CallHandled ==
  ASSUME IInv, CodeInv, BodyHandler, CallCompiled'
  PROVE  compile_CALL
<1> USE DEF COMPILING_LEFT, COMPILED_LEFT, COMPILING_RIGHT, COMPILED_RIGHT
<1>1. walk \in Seq(Frame) /\ walk # <<>> /\ WalkLinked /\ Proceed
  BY BodyUnchanged, HandlerState DEF CodeInv
<1>2. Top.node.type = "CALL" /\ Top.stage = 3
  BY <1>1, CallReturns
<1> QED BY <1>2 DEF BodyHandler, Straight, Handling, Acts,
         compile_NVAR, compile_ASS, compile_VAR, compile_CONST,
         compile_OP_dividend, compile_OP, compile_CALL, compile_BLOCK_begin, compile_BLOCK_end,
         compile_NFUN_body, compile_nothing, compile_RET, compile_SEQ, compile_WHILE_start,
         compile_WHILE_test, compile_WHILE_end, compile_BRANCH_test, compile_BRANCH_else,
         compile_BRANCH_end

\* These handlers keep the invariant.
LEMMA BodyKeepsCode ==
  ASSUME IInv, IInv', CodeInv, BodyHandler
  PROVE  CodeInv'
<1>1. walk \in Seq(Frame) /\ walk # <<>> /\ Proceed /\ UNCHANGED <<control, func_return>>
  BY BodyUnchanged, HandlerState
<1>2. Emission /\ PatchStackMatchesWalk'
  BY HandlersEmit
<1>3. WalkLinked'
  BY <1>1, LinkedKept DEF CodeInv
<1>4. FunctionOrder'
  BY <1>1, OrderKept DEF CodeInv
<1>5. ListInv'
  BY <1>1, <1>2, ListKept DEF Emission
<1>6. ASSUME CallCompiled'
      PROVE  /\ Len(list') >= 2
             /\ ErasedCall(heap'[list'[Len(list')]], heap'[list'[Len(list') - 1]], new_empty)
  BY <1>6, CallHandled, CallEmits
<1>7. CallAtTail'
  BY <1>6 DEF CallAtTail, ir_tail
<1> QED BY <1>2, <1>3, <1>4, <1>5, <1>7 DEF CodeInv

-----------------------------------------------------------------------------
(* The beginning and the end of a function.                                *)

\* Two sequences behind one another.
LEMMA Behind ==
  ASSUME NEW S, NEW l \in Seq(S), NEW m \in Seq(S)
  PROVE  /\ l \o m \in Seq(S) /\ Len(l \o m) = Len(l) + Len(m)
         /\ \A i \in 1..Len(l) : (l \o m)[i] = l[i]
         /\ \A i \in 1..Len(m) : (l \o m)[Len(l) + i] = m[i]
<1> DEFINE all == l \o m
<1>1. /\ all \in Seq(S) /\ Len(all) = Len(l) + Len(m)
      /\ \A i \in 1..(Len(l) + Len(m)) : all[i] = IF i <= Len(l) THEN l[i] ELSE m[i - Len(l)]
  BY ConcatProperties
<1> HIDE DEF all
<1>2. Len(l) \in Nat /\ Len(m) \in Nat
  OBVIOUS
<1>3. \A i \in 1..Len(l) : i \in 1..(Len(l) + Len(m)) /\ i <= Len(l)
  BY <1>2
<1>4. \A i \in 1..Len(m) : /\ Len(l) + i \in 1..(Len(l) + Len(m))
                           /\ ~ (Len(l) + i <= Len(l))
                           /\ (Len(l) + i) - Len(l) = i
  BY <1>2
<1>5. \A i \in 1..Len(l) : all[i] = l[i]
  BY <1>1, <1>3
<1>6. \A i \in 1..Len(m) : all[Len(l) + i] = m[i]
  BY <1>1, <1>4
<1> QED BY <1>1, <1>5, <1>6 DEF all

\* The function at the bottom of the recursion is the one that is compiled.
LEMMA FunctionCompiled ==
  ASSUME IInv, CodeInv, walk # <<>>, walk[1].node.type = "NFUN"
  PROVE  /\ next_func - 1 \in 1..Len(functions)
         /\ walk[1].node = functions[next_func - 1].node
         /\ functions[next_func - 1].node # NULL
         /\ functions[next_func - 1].ir_list_head \in 1..Len(heap)
         /\ func_array_find_func(walk[1].node.value) = functions[next_func - 1]
<1>1. /\ next_func - 1 \in 1..Len(functions)
      /\ walk[1].node = functions[next_func - 1].node
  BY DEF CodeInv, FunctionOrder
<1>2. walk \in Seq(Frame) /\ functions \in Seq(Function) /\ walk[1].node \in Node
  <2>1. walk \in Seq(Frame) /\ functions \in Seq(Function)
    BY DEF IInv, TypeOK
  <2>2. walk[1] \in Frame
    BY <2>1
  <2> QED BY <2>1, <2>2 DEF Frame
<1>3. walk[1].node # NULL
  BY <1>2, NodeFields
<1>4. functions[next_func - 1].name = walk[1].node.value
      /\ functions[next_func - 1].ir_list_head \in 1..Len(heap)
  BY <1>1, <1>3 DEF IInv, FunctionTable
<1>5. Defined(walk[1].node.value)
  BY <1>1, <1>4 DEF Defined
<1>6. PICK i \in 1..Len(functions) :
        /\ func_array_find_func(walk[1].node.value) = functions[i]
        /\ functions[i].name = walk[1].node.value
  BY <1>2, <1>5, FunctionFound
<1>7. i = next_func - 1
  BY <1>1, <1>4, <1>6 DEF CodeInv, FunctionOrder
<1> QED BY <1>1, <1>3, <1>4, <1>6, <1>7

\* What the prologue of a function is and where it goes.
LEMMA PrologueCode ==
  ASSUME IInv, CodeInv, compile_NFUN_begin
  PROVE  /\ walk # <<>> /\ Len(walk) = 1 /\ Top = walk[1] /\ Proceed /\ UNCHANGED control
         /\ Top.node.type = "NFUN" /\ Top.stage = COMPILING_LEFT
         /\ Len(heap') = Len(heap) + 3
         /\ \A id \in 1..Len(heap) : heap'[id] = heap[id]
         /\ heap'[Len(heap) + 1] = new_push_reg("RBP")
         /\ heap'[Len(heap) + 2] = new_binary("MOV", operand_reg("RBP"), operand_reg("RSP"))
         /\ heap'[Len(heap) + 3] = new_empty
         /\ Len(list') = Len(list) + 3
         /\ \A i \in 1..Len(list) : list'[i] = list[i]
         /\ list'[Len(list) + 1] = functions[next_func - 1].ir_list_head
         /\ list'[Len(list) + 2] = Len(heap) + 1
         /\ list'[Len(list) + 3] = Len(heap) + 2
         /\ ir_stack' = Append(ir_stack, Len(heap) + 2)
         /\ func_return' = Len(heap) + 3
<1> DEFINE n     == Len(heap)
           move  == new_binary("MOV", operand_reg("RBP"), operand_reg("RSP"))
           nodes == << new_push_reg("RBP"), move, new_empty >>
           head  == functions[next_func - 1].ir_list_head
           links == << head, n + 1, n + 2 >>
<1>1. /\ walk # <<>> /\ Proceed /\ UNCHANGED control
      /\ Top.node.type = "NFUN" /\ Top.stage = COMPILING_LEFT
      /\ heap' = heap \o nodes
      /\ list' = list \o << func_array_find_func(Top.node.value).ir_list_head, n + 1, n + 2 >>
      /\ ir_stack' = Append(ir_stack, n + 2)
      /\ func_return' = (n + 2) + 1
  BY DEF compile_NFUN_begin, Handling
<1>2. /\ heap \in Seq(IrNode) /\ n \in Nat /\ list \in Seq(1..n)
  BY HandlerState
<1>3. Len(walk) = 1 /\ Top = walk[1]
  BY <1>1, FunctionScopes DEF COMPILING_LEFT
<1>4. list' = list \o links /\ head \in 1..n
  BY <1>1, <1>3, FunctionCompiled
<1>5. nodes \in Seq(IrNode) /\ Len(nodes) = 3
      /\ nodes[1] = new_push_reg("RBP") /\ nodes[2] = move /\ nodes[3] = new_empty
  <2>1. "MOV" \in ir_op /\ {"RBP", "RSP"} \subseteq ir_reg
    BY DEF ir_op, ir_reg
  <2>2. move \in IrNode /\ new_push_reg("RBP") \in IrNode /\ new_empty \in IrNode
    BY <2>1, InstructionTypes, OperandTypes
  <2> HIDE DEF move
  <2> QED BY <2>2
<1> HIDE DEF nodes, move
<1>6. /\ Len(heap') = n + 3
      /\ \A id \in 1..n : heap'[id] = heap[id]
      /\ heap'[n + 1] = nodes[1] /\ heap'[n + 2] = nodes[2] /\ heap'[n + 3] = nodes[3]
  <2>0. heap \in Seq(IrNode) /\ nodes \in Seq(IrNode)
    BY <1>2, <1>5
  <2>1. /\ heap \o nodes \in Seq(IrNode) /\ Len(heap \o nodes) = Len(heap) + Len(nodes)
        /\ \A i \in 1..Len(heap) : (heap \o nodes)[i] = heap[i]
        /\ \A i \in 1..Len(nodes) : (heap \o nodes)[Len(heap) + i] = nodes[i]
    BY ONLY <2>0, Behind
  <2>2. 1 \in 1..Len(nodes) /\ 2 \in 1..Len(nodes) /\ 3 \in 1..Len(nodes)
    BY <1>5
  <2> DEFINE all == heap \o nodes
  <2>3. heap' = all
    BY <1>1
  <2> HIDE DEF all
  <2> QED BY <1>5, <2>1, <2>2, <2>3 DEF all
<1>7. /\ Len(list') = Len(list) + 3
      /\ \A i \in 1..Len(list) : list'[i] = list[i]
      /\ list'[Len(list) + 1] = head /\ list'[Len(list) + 2] = n + 1 /\ list'[Len(list) + 3] = n + 2
  <2> DEFINE S == 1..(n + 3)
             all == list \o links
  <2>1. links \in Seq(S) /\ Len(links) = 3 /\ links[1] = head /\ links[2] = n + 1 /\ links[3] = n + 2
    BY <1>2, <1>4
  <2>2. list \in Seq(S)
    <3>1. \A i \in 1..Len(list) : list[i] \in S
      BY <1>2
    <3> QED BY <1>2, <3>1, IsASeq
  <2> HIDE DEF S, links
  <2>3. /\ Len(all) = Len(list) + Len(links)
        /\ \A i \in 1..Len(list) : all[i] = list[i]
        /\ \A i \in 1..Len(links) : all[Len(list) + i] = links[i]
    <3>1. list \in Seq(S) /\ links \in Seq(S)
      BY <2>1, <2>2
    <3> QED BY ONLY <3>1, Behind
  <2>4. 1 \in 1..Len(links) /\ 2 \in 1..Len(links) /\ 3 \in 1..Len(links)
    BY <2>1
  <2>5. list' = all
    BY <1>4
  <2> HIDE DEF all
  <2> QED BY <2>1, <2>3, <2>4, <2>5
<1> QED BY <1>1, <1>2, <1>3, <1>5, <1>6, <1>7 DEF move

\* Beginning a function keeps the invariant: its head was not in the list
\* yet, the node its returns go to is new.
LEMMA PrologueKeepsCode ==
  ASSUME IInv, IInv', CodeInv, compile_NFUN_begin
  PROVE  CodeInv'
<1> USE DEF COMPILING_LEFT, COMPILED_LEFT, COMPILING_RIGHT, COMPILED_RIGHT
<1> DEFINE n    == Len(heap)
           l    == Len(list)
           self == next_func - 1
           head == functions[self].ir_list_head
<1>1. /\ walk # <<>> /\ Len(walk) = 1 /\ Top = walk[1] /\ Proceed /\ UNCHANGED control
      /\ Top.node.type = "NFUN" /\ Top.stage = 0
      /\ Len(heap') = n + 3
      /\ \A id \in 1..n : heap'[id] = heap[id]
      /\ heap'[n + 2] = new_binary("MOV", operand_reg("RBP"), operand_reg("RSP"))
      /\ heap'[n + 3] = new_empty
      /\ Len(list') = l + 3
      /\ \A i \in 1..l : list'[i] = list[i]
      /\ list'[l + 1] = head /\ list'[l + 2] = n + 1 /\ list'[l + 3] = n + 2
      /\ ir_stack' = Append(ir_stack, n + 2)
      /\ func_return' = n + 3
  BY PrologueCode
<1>2. /\ walk \in Seq(Frame) /\ n \in Nat /\ list \in Seq(1..n) /\ l \in Nat
      /\ next_func \in Nat /\ next_func' = next_func /\ functions' = functions
  <2>1. walk \in Seq(Frame) /\ n \in Nat /\ list \in Seq(1..n) /\ l \in Nat
    BY HandlerState
  <2>2. next_func \in Nat
    BY DEF IInv, TypeOK
  <2>3. next_func' = next_func /\ functions' = functions
    BY <1>1 DEF control
  <2> QED BY <2>1, <2>2, <2>3
<1>3. /\ self \in 1..Len(functions) /\ functions[self].node # NULL /\ head \in 1..n
  BY <1>1, FunctionCompiled
<1>4. \A k \in 1..Len(functions) : functions[k].ir_list_head \in 1..n
  BY DEF IInv, FunctionTable
<1>5. WalkLinked'
  BY <1>1, <1>2, LinkedKept DEF CodeInv
<1>6. FunctionOrder' /\ \A k \in 1..Len(functions) : Waiting(k)' => Waiting(k)
  BY <1>1, <1>2, OrderKept DEF CodeInv
<1>7. CallAtTail'
  BY <1>1, <1>2, CallReturns DEF CodeInv, CallAtTail
<1>8. PatchStackMatchesWalk'
  <2>1. ~ Patching /\ HeapStep
    BY <1>1 DEF Patching, HeapStep
  <2>2. n + 2 \in Fresh
    BY <1>1, <1>2 DEF Fresh
  <2>3. Awaits("prologue", heap'[n + 2])
    BY <1>1 DEF Awaits, new_binary, instruction
  <2> DEFINE after == [node |-> Top.node, stage |-> Top.stage + 1]
  <2>4. Pending(Top) = <<>> /\ Pending(after) = << "prologue" >>
    <3>1. Top \in Frame /\ Top.node \in Node
      BY <1>1, TopState
    <3>2. after \in Frame /\ after.node.type = "NFUN" /\ after.stage = 1
      BY <1>1, <3>1 DEF Frame
    <3> HIDE DEF after
    <3> QED BY <1>1, <3>1, <3>2, PendingCases
  <2>5. Pending(after) = Append(Pending(Top), "prologue")
    BY <2>4
  <2> QED BY <1>1, <2>1, <2>2, <2>3, <2>5, EntryPushed
<1>9. ~ Listed(head)
  <2>1. Waiting(self)
    BY <1>1 DEF Waiting
  <2> QED BY <1>3, <2>1 DEF CodeInv, ListInv
<1>10. \A i \in 1..l : list'[i] \in 1..n /\ list'[i] # head
  <2>1. \A i \in 1..l : list[i] \in 1..n /\ list[i] # head
    BY <1>2, <1>9 DEF Listed
  <2>2. \A i \in 1..l : list'[i] = list[i]
    BY <1>1
  <2> HIDE DEF l, head, n
  <2> QED BY <2>1, <2>2
<1>11. ASSUME NEW i \in 1..Len(list') PROVE i \in 1..l \/ i = l + 1 \/ i = l + 2 \/ i = l + 3
  <2>1. l \in Nat /\ Len(list') = l + 3
    BY <1>1, <1>2
  <2> HIDE DEF l
  <2> QED BY <2>1
<1>12. ASSUME NEW i \in 1..Len(list'), NEW j \in 1..Len(list'), list'[i] = list'[j]
       PROVE  i = j
  <2>1. \A a, b \in 1..l : list[a] = list[b] => a = b
    BY DEF CodeInv, ListInv
  <2> HIDE DEF l, head
  <2>2. \A a \in 1..l : list'[a] \in 1..n /\ list'[a] # head /\ list'[a] = list[a]
    BY <1>1, <1>10
  <2>3. n + 1 \notin 1..n /\ n + 2 \notin 1..n /\ n + 1 # n + 2 /\ head \in 1..n
    BY <1>2, <1>3
  <2>4. i \in 1..l \/ i = l + 1 \/ i = l + 2 \/ i = l + 3
    BY <1>11
  <2>5. j \in 1..l \/ j = l + 1 \/ j = l + 2 \/ j = l + 3
    BY <1>11
  <2> HIDE DEF n
  <2> QED BY <1>1, <1>12, <2>1, <2>2, <2>3, <2>4, <2>5
<1>13. ASSUME NEW k \in 1..Len(functions), Waiting(k)'
       PROVE  /\ \A i \in 1..Len(list') : list'[i] # functions[k].ir_list_head
              /\ heap'[functions[k].ir_list_head] = new_empty
  <2>1. Waiting(k)
    BY <1>6, <1>13
  <2>2. k # self
    <3>1. walk'[1].stage = 1
      BY <1>1, <1>2, ProceedWalk
    <3>2. ~ (self >= next_func) /\ functions'[self].node # NULL
      BY <1>2, <1>3
    <3> QED BY <1>2, <1>13, <3>1, <3>2 DEF Waiting
  <2>3. ~ Listed(functions[k].ir_list_head) /\ heap[functions[k].ir_list_head] = new_empty
    BY <2>1 DEF CodeInv, ListInv
  <2>4. functions[k].ir_list_head # head
    BY <1>3, <2>2 DEF CodeInv, FunctionOrder
  <2> DEFINE other == functions[k].ir_list_head
  <2>5. other \in 1..n /\ other # n + 1 /\ other # n + 2
    BY <1>2, <1>4
  <2>6. \A i \in 1..l : list'[i] # other
    BY <1>1, <2>3 DEF Listed
  <2> HIDE DEF other, l
  <2>7. \A i \in 1..Len(list') : list'[i] # other
    BY <1>1, <1>11, <2>4, <2>5, <2>6 DEF other
  <2> QED BY <1>1, <2>3, <2>5, <2>7 DEF other
<1>14. /\ \A i \in 1..Len(list') : list'[i] # n + 3
       /\ \A k \in 1..Len(functions) : functions[k].ir_list_head # n + 3
  <2>1. \A id \in 1..n : id # n + 3
    BY <1>2
  <2>2. n + 1 # n + 3 /\ n + 2 # n + 3
    BY <1>2
  <2> HIDE DEF l
  <2> QED BY <1>1, <1>3, <1>4, <1>10, <1>11, <2>1, <2>2
<1>15. ListInv'
  BY <1>1, <1>2, <1>12, <1>13, <1>14 DEF ListInv, Listed
<1> QED BY <1>5, <1>6, <1>7, <1>8, <1>15 DEF CodeInv

\* A sequence is another with an element put behind the one at a position.
InsertedAt(m, l, at, old, new) ==
  /\ l[at] = old
  /\ \A i \in 1..at : m[i] = l[i]
  /\ m[at + 1] = new
  /\ \A i \in (at + 1)..Len(l) : m[i + 1] = l[i]

\* That is what insertion does.
LEMMA Insertion ==
  ASSUME NEW S, NEW l \in Seq(S), NEW old, \E i \in 1..Len(l) : l[i] = old, NEW new \in S
  PROVE  /\ insert_after(l, old, new) \in Seq(S)
         /\ Len(insert_after(l, old, new)) = Len(l) + 1
         /\ \E at \in 1..Len(l) : InsertedAt(insert_after(l, old, new), l, at, old, new)
<1> DEFINE at    == CHOOSE i \in 1..Len(l) : l[i] = old
           n     == Len(l)
           left  == SubSeq(l, 1, at)
           right == SubSeq(l, at + 1, n)
           mid   == << new >>
           most  == left \o mid
           all   == most \o right
<1>1. at \in 1..n /\ n \in Nat /\ l[at] = old
  OBVIOUS
<1>2. all = insert_after(l, old, new)
  BY DEF insert_after
<1> HIDE DEF at
<1>3. left \in Seq(S) /\ Len(left) = at /\ \A i \in 1..at : left[i] = l[i]
  <2>1. at \in 0..n
    BY <1>1
  <2> QED BY <2>1, FrontOf
<1>4. right \in Seq(S) /\ Len(right) = n - at /\ \A i \in 1..(n - at) : right[i] = l[at + i]
  <2>1. /\ right \in Seq(S)
        /\ Len(right) = IF at + 1 <= n THEN n - (at + 1) + 1 ELSE 0
        /\ \A i \in 1..Len(right) : right[i] = l[(at + 1) + i - 1]
    <3>1. at + 1 \in 1..(n + 1) /\ n \in 0..n
      BY <1>1
    <3> QED BY <3>1, SubSeqProperties
  <2>2. Len(right) = n - at
    BY <1>1, <2>1
  <2>3. \A i \in 1..(n - at) : (at + 1) + i - 1 = at + i
    BY <1>1
  <2> QED BY <2>1, <2>2, <2>3
<1>5. mid \in Seq(S) /\ Len(mid) = 1 /\ mid[1] = new
  OBVIOUS
<1> HIDE DEF n, left, right, mid
<1>6. /\ most \in Seq(S) /\ Len(most) = at + 1
      /\ \A i \in 1..at : most[i] = l[i]
      /\ most[at + 1] = new
  <2>1. left \in Seq(S) /\ mid \in Seq(S)
    BY <1>3, <1>5
  <2>2. /\ left \o mid \in Seq(S) /\ Len(left \o mid) = Len(left) + Len(mid)
        /\ \A i \in 1..Len(left) : (left \o mid)[i] = left[i]
        /\ \A i \in 1..Len(mid) : (left \o mid)[Len(left) + i] = mid[i]
    BY ONLY <2>1, Behind
  <2>3. 1 \in 1..Len(mid)
    BY <1>5
  <2> HIDE DEF most
  <2> QED BY <1>3, <1>5, <2>2, <2>3 DEF most
<1> HIDE DEF most
<1>7. /\ all \in Seq(S) /\ Len(all) = Len(most) + Len(right)
      /\ \A i \in 1..Len(most) : all[i] = most[i]
      /\ \A i \in 1..Len(right) : all[Len(most) + i] = right[i]
  <2>1. most \in Seq(S) /\ right \in Seq(S)
    BY <1>4, <1>6
  <2> QED BY ONLY <2>1, Behind
<1> HIDE DEF all
<1>8. Len(all) = n + 1
  BY <1>1, <1>4, <1>6, <1>7
<1>9. /\ \A i \in 1..at : all[i] = l[i]
      /\ all[at + 1] = new
  <2>1. \A i \in 1..at : i \in 1..Len(most)
    BY <1>1, <1>6
  <2>2. at + 1 \in 1..Len(most)
    BY <1>1, <1>6
  <2> QED BY <1>6, <1>7, <2>1, <2>2
<1>10. ASSUME NEW i \in (at + 1)..n PROVE all[i + 1] = l[i]
  <2>1. i - at \in 1..(n - at) /\ (at + 1) + (i - at) = i + 1 /\ at + (i - at) = i
    BY <1>1
  <2>2. all[(at + 1) + (i - at)] = right[i - at]
    BY <1>4, <1>6, <1>7, <2>1
  <2>3. right[i - at] = l[at + (i - at)]
    BY <1>4, <2>1
  <2> QED BY <2>1, <2>2, <2>3
<1>11. InsertedAt(all, l, at, old, new)
  BY <1>1, <1>9, <1>10 DEF InsertedAt, n
<1> QED BY <1>1, <1>2, <1>7, <1>8, <1>11 DEF n

\* The function ends where no function or block is open: one node waits, the
\* prologue.
LEMMA EpilogueState ==
  ASSUME IInv, CodeInv, compile_NFUN_end
  PROVE  /\ walk # <<>> /\ Len(walk) = 1 /\ Top = walk[1] /\ Proceed /\ UNCHANGED control
         /\ Top.node.type = "NFUN" /\ Top.stage = COMPILED_RIGHT
         /\ walk' = <<>>
         /\ stack_frame_size - SLOT \in Nat
         /\ func_return \in 1..Len(heap)
         /\ Len(ir_stack) = 1 /\ LastPending = ir_stack[1]
         /\ Listed(LastPending)
         /\ heap[LastPending].operation = "MOV"
<1> USE DEF COMPILING_LEFT, COMPILED_LEFT, COMPILING_RIGHT, COMPILED_RIGHT
<1>1. /\ walk # <<>> /\ Proceed /\ UNCHANGED control
      /\ Top.node.type = "NFUN" /\ Top.stage = 3
  BY DEF compile_NFUN_end, Handling
<1>2. Len(walk) = 1 /\ Top = walk[1]
  BY <1>1, FunctionScopes
<1>3. walk' = <<>>
  <2>1. walk \in Seq(Frame)
    BY HandlerState
  <2>2. walk' \in Seq(Frame) /\ Len(walk') = Len(walk) - 1
    BY <1>1, <2>1, ProceedWalk
  <2>3. Len(walk') = 0
    BY <1>2, <2>2
  <2> QED BY <2>2, <2>3
<1>4. stack_frame_size >= SLOT /\ func_return # NIL
  BY <1>1, <1>2 DEF IInv, CurrentFunction
<1>5. stack_frame_size - SLOT \in Nat /\ func_return \in 1..Len(heap)
  <2>1. stack_frame_size \in Nat /\ func_return \in 0..Len(heap) /\ Len(heap) \in Nat
    BY HandlerState
  <2> QED BY <1>4, <2>1 DEF SLOT, NIL
<1>6. Pending(Top) = << "prologue" >>
  BY <1>1, TopState, PendingCases
<1>7. Base(walk, Len(walk)) = 0
  <2>1. PendingBelow(walk, 1) = {}
    <3>1. \A i \in 1..(1 - 1) : FALSE
      OBVIOUS
    <3> QED BY <3>1 DEF PendingBelow
  <2> QED BY <1>2, <2>1, FS_EmptySet DEF Base
<1>8. Len(Pending(Top)) = 1 /\ Pending(Top)[1] = "prologue"
  BY <1>6
<1> DEFINE e == Len(ir_stack)
<1>9. e = 1 /\ Awaits("prologue", heap[ir_stack[1]])
  <2>1. e = 0 + Len(Pending(Top))
    BY <1>1, <1>7, TopState
  <2>2. Awaits(Pending(Top)[1], heap[ir_stack[0 + 1]])
    BY <1>1, <1>7, <1>8, TopState
  <2> QED BY <1>8, <2>1, <2>2
<1>10. 1 \in 1..Len(ir_stack) /\ LastPending = ir_stack[1]
  BY <1>9 DEF LastPending
<1>11. Listed(LastPending)
  BY <1>10 DEF CodeInv, PatchStackMatchesWalk
<1> QED BY <1>1, <1>2, <1>3, <1>5, <1>9, <1>10, <1>11 DEF Awaits

\* What the epilogue of a function is and where it goes: behind the node all
\* returns go to, and, if there is a frame, one node behind the prologue.
LEMMA EpilogueCode ==
  ASSUME IInv, CodeInv, compile_NFUN_end
  PROVE  \E at \in 1..Len(list), by \in {0, 1} :
           LET frame == stack_frame_size - SLOT
               h == Len(heap) + 2 * by
               l == Len(list) + by
           IN  /\ list[at] = LastPending
               /\ by = (IF frame > 0 THEN 1 ELSE 0)
               /\ Len(heap') = h + 2
               /\ \A id \in 1..Len(heap) : heap'[id] = heap[id]
               /\ \A i \in 1..at : list'[i] = list[i]
               /\ \A i \in (at + 1)..Len(list) : list'[i + by] = list[i]
               /\ list'[l + 1] = func_return
               /\ by = 1 =>
                    /\ list'[at + 1] = Len(heap) + 1
                    /\ heap'[Len(heap) + 1]
                         = new_binary("SUB", operand_reg("RSP"), operand_imm(frame))
                    /\ list'[l + 2] = Len(heap) + 2
                    /\ heap'[Len(heap) + 2]
                         = new_binary("ADD", operand_reg("RSP"), operand_imm(frame))
               /\ Len(list') = l + by + 3
               /\ list'[l + by + 2] = h + 1 /\ heap'[h + 1] = new_pop_reg("RBP")
               /\ list'[l + by + 3] = h + 2 /\ heap'[h + 2] = new_ret
<1> DEFINE frame   == stack_frame_size - SLOT
           create  == new_binary("SUB", operand_reg("RSP"), operand_imm(frame))
           destroy == new_binary("ADD", operand_reg("RSP"), operand_imm(frame))
           leave   == << new_pop_reg("RBP"), new_ret >>
           n       == Len(heap)
           l       == Len(list)
           linked  == Append(list, func_return)
           new     == n + 1
           framed  == insert_after(linked, LastPending, new)
<1>1. /\ heap \in Seq(IrNode) /\ n \in Nat /\ list \in Seq(1..n) /\ l \in Nat
      /\ frame \in Nat /\ func_return \in 1..n /\ Listed(LastPending)
  BY HandlerState, EpilogueState
<1>2. IF frame > 0
        THEN /\ heap' = heap \o << create, destroy >> \o leave
             /\ list' = framed \o << n + 2, n + 3, n + 4 >>
        ELSE /\ heap' = heap \o leave
             /\ list' = list \o << func_return, n + 1, n + 2 >>
  BY DEF compile_NFUN_end
<1>3. create \in IrNode /\ destroy \in IrNode /\ new_pop_reg("RBP") \in IrNode /\ new_ret \in IrNode
  <2>1. {"ADD", "SUB"} \subseteq ir_op /\ {"RBP", "RSP"} \subseteq ir_reg
    BY DEF ir_op, ir_reg
  <2>2. operand_imm(frame) \in ir_operand /\ operand_reg("RSP") \in ir_operand
    BY <1>1, <2>1, OperandTypes
  <2> QED BY <2>1, <2>2, InstructionTypes
<1> HIDE DEF create, destroy
<1>4. leave \in Seq(IrNode) /\ Len(leave) = 2 /\ leave[1] = new_pop_reg("RBP") /\ leave[2] = new_ret
  BY <1>3
<1> HIDE DEF leave, frame
<1>5. PICK p \in 1..l : list[p] = LastPending
  BY <1>1 DEF Listed
<1>6. CASE ~ (frame > 0)
  <2> DEFINE links == << func_return, n + 1, n + 2 >>
             S     == 1..(n + 2)
  <2>1. heap' = heap \o leave /\ list' = list \o links
    BY <1>2, <1>6
  <2>2. links \in Seq(S) /\ Len(links) = 3
        /\ links[1] = func_return /\ links[2] = n + 1 /\ links[3] = n + 2
    BY <1>1
  <2>3. list \in Seq(S)
    <3>1. \A i \in 1..Len(list) : list[i] \in S
      BY <1>1
    <3> QED BY <1>1, <3>1, IsASeq
  <2> HIDE DEF S, links
  <2>4. /\ Len(heap') = n + 2
        /\ \A id \in 1..n : heap'[id] = heap[id]
        /\ heap'[n + 1] = leave[1] /\ heap'[n + 2] = leave[2]
    <3>1. heap \in Seq(IrNode) /\ leave \in Seq(IrNode)
      BY <1>1, <1>4
    <3>2. /\ Len(heap \o leave) = Len(heap) + Len(leave)
          /\ \A i \in 1..Len(heap) : (heap \o leave)[i] = heap[i]
          /\ \A i \in 1..Len(leave) : (heap \o leave)[Len(heap) + i] = leave[i]
      BY ONLY <3>1, Behind
    <3>3. 1 \in 1..Len(leave) /\ 2 \in 1..Len(leave)
      BY <1>4
    <3> QED BY <1>4, <2>1, <3>2, <3>3
  <2>5. /\ Len(list') = l + 3
        /\ \A i \in 1..l : list'[i] = list[i]
        /\ list'[l + 1] = links[1] /\ list'[l + 2] = links[2] /\ list'[l + 3] = links[3]
    <3>1. list \in Seq(S) /\ links \in Seq(S)
      BY <2>2, <2>3
    <3>2. /\ Len(list \o links) = Len(list) + Len(links)
          /\ \A i \in 1..Len(list) : (list \o links)[i] = list[i]
          /\ \A i \in 1..Len(links) : (list \o links)[Len(list) + i] = links[i]
      BY ONLY <3>1, Behind
    <3>3. 1 \in 1..Len(links) /\ 2 \in 1..Len(links) /\ 3 \in 1..Len(links)
      BY <2>2
    <3> QED BY <2>1, <2>2, <3>2, <3>3
  <2>6. /\ \A i \in 1..p : list'[i] = list[i]
        /\ \A i \in (p + 1)..l : list'[i + 0] = list[i]
    <3>1. \A i \in 1..p : i \in 1..l
      BY <1>1
    <3>2. \A i \in (p + 1)..l : i \in 1..l /\ i + 0 = i
      BY <1>1
    <3> QED BY <2>5, <3>1, <3>2
  <2> WITNESS p \in 1..Len(list), 0 \in {0, 1}
  <2>7. /\ Len(heap) + 2 * 0 = n /\ Len(list) + 0 = l /\ l + 0 + 2 = l + 2 /\ l + 0 + 3 = l + 3
    BY <1>1
  <2> QED BY <1>4, <1>5, <1>6, <2>2, <2>4, <2>5, <2>6, <2>7 DEF frame
<1>7. CASE frame > 0
  <2> DEFINE both  == << create, destroy >>
             links == << n + 2, n + 3, n + 4 >>
             S     == 1..(n + 4)
  <2>1. heap' = (heap \o both) \o leave /\ list' = framed \o links
    BY <1>2, <1>7
  <2>2. both \in Seq(IrNode) /\ Len(both) = 2 /\ both[1] = create /\ both[2] = destroy
    BY <1>3
  <2>3. /\ links \in Seq(S) /\ Len(links) = 3
        /\ links[1] = n + 2 /\ links[2] = n + 3 /\ links[3] = n + 4
        /\ n + 1 \in S /\ func_return \in S
    BY <1>1
  <2>4. list \in Seq(S)
    <3>1. \A i \in 1..Len(list) : list[i] \in S
      BY <1>1
    <3> QED BY <1>1, <3>1, IsASeq
  <2> HIDE DEF S, links, both
  <2>5. /\ Len(heap') = n + 4
        /\ \A id \in 1..n : heap'[id] = heap[id]
        /\ heap'[n + 1] = create /\ heap'[n + 2] = destroy
        /\ heap'[n + 3] = leave[1] /\ heap'[n + 4] = leave[2]
    <3> DEFINE most == heap \o both
               all  == most \o leave
    <3>1. heap \in Seq(IrNode) /\ both \in Seq(IrNode)
      BY <1>1, <2>2
    <3>2. /\ most \in Seq(IrNode) /\ Len(most) = Len(heap) + Len(both)
          /\ \A i \in 1..Len(heap) : most[i] = heap[i]
          /\ \A i \in 1..Len(both) : most[Len(heap) + i] = both[i]
      BY ONLY <3>1, Behind
    <3> HIDE DEF most
    <3>3. most \in Seq(IrNode) /\ leave \in Seq(IrNode)
      BY <1>4, <3>2
    <3>4. /\ Len(all) = Len(most) + Len(leave)
          /\ \A i \in 1..Len(most) : all[i] = most[i]
          /\ \A i \in 1..Len(leave) : all[Len(most) + i] = leave[i]
      BY ONLY <3>3, Behind
    <3>5. heap' = all
      BY <2>1 DEF most
    <3> HIDE DEF all
    <3>6. /\ Len(most) = n + 2 /\ Len(all) = n + 4
          /\ 1 \in 1..Len(leave) /\ 2 \in 1..Len(leave) /\ 1 \in 1..Len(both) /\ 2 \in 1..Len(both)
          /\ n + 1 \in 1..Len(most) /\ n + 2 \in 1..Len(most)
          /\ (n + 2) + 1 = n + 3 /\ (n + 2) + 2 = n + 4
          /\ \A i \in 1..n : i \in 1..Len(most)
      BY <1>1, <1>4, <2>2, <3>2, <3>4
    <3> QED BY <2>2, <3>2, <3>4, <3>5, <3>6
  <2>6. /\ linked \in Seq(S) /\ Len(linked) = l + 1
        /\ \A i \in 1..l : linked[i] = list[i]
        /\ linked[l + 1] = func_return
    BY <2>3, <2>4, AppendProperties
  <2> HIDE DEF linked
  <2>7. \E i \in 1..Len(linked) : linked[i] = LastPending
    <3>1. p \in 1..Len(linked)
      BY <1>1, <2>6
    <3> QED BY <1>5, <2>6, <3>1
  <2>8. /\ framed \in Seq(S) /\ Len(framed) = Len(linked) + 1
        /\ \E at \in 1..Len(linked) : InsertedAt(framed, linked, at, LastPending, new)
    <3>1. linked \in Seq(S) /\ new \in S
      BY <2>3, <2>6
    <3> HIDE DEF new
    <3> QED BY <2>7, <3>1, Insertion
  <2>9. PICK at \in 1..Len(linked) :
             /\ linked[at] = LastPending
             /\ \A i \in 1..at : framed[i] = linked[i]
             /\ framed[at + 1] = n + 1
             /\ \A i \in (at + 1)..Len(linked) : framed[i + 1] = linked[i]
    BY <2>8 DEF InsertedAt
  <2> HIDE DEF framed
  <2>10. at \in 1..l
    <3>1. at # l + 1
      <4>1. ~ Listed(func_return)
        BY <1>1 DEF CodeInv, ListInv, NIL
      <4>2. func_return # LastPending
        BY <1>1, <4>1
      <4> QED BY <2>6, <2>9, <4>2
    <3>2. at \in 1..(l + 1) /\ l \in Nat
      BY <1>1, <2>6
    <3> HIDE DEF l
    <3> QED BY <3>1, <3>2
  <2>11. /\ Len(list') = l + 5
         /\ \A i \in 1..(l + 2) : list'[i] = framed[i]
         /\ list'[(l + 2) + 1] = n + 2 /\ list'[(l + 2) + 2] = n + 3 /\ list'[(l + 2) + 3] = n + 4
    <3>1. framed \in Seq(S) /\ links \in Seq(S)
      BY <2>3, <2>8
    <3>2. /\ Len(framed \o links) = Len(framed) + Len(links)
          /\ \A i \in 1..Len(framed) : (framed \o links)[i] = framed[i]
          /\ \A i \in 1..Len(links) : (framed \o links)[Len(framed) + i] = links[i]
      BY ONLY <3>1, Behind
    <3>3. 1 \in 1..Len(links) /\ 2 \in 1..Len(links) /\ 3 \in 1..Len(links) /\ Len(framed) = l + 2
          /\ (l + 2) + 3 = l + 5
      BY <1>1, <2>3, <2>6, <2>8
    <3> QED BY <2>1, <2>3, <3>2, <3>3
  <2>12. /\ \A i \in 1..at : list'[i] = list[i]
         /\ \A i \in (at + 1)..l : list'[i + 1] = list[i]
         /\ list'[at + 1] = n + 1
         /\ list'[(l + 1) + 1] = func_return
    <3>1. \A i \in 1..at : i \in 1..(l + 2) /\ i \in 1..l
      BY <1>1, <2>10
    <3>2. \A i \in (at + 1)..l : i + 1 \in 1..(l + 2) /\ i \in 1..l /\ i \in (at + 1)..(l + 1)
      BY <1>1, <2>10
    <3>3. at + 1 \in 1..(l + 2) /\ (l + 1) + 1 \in 1..(l + 2) /\ l + 1 \in (at + 1)..(l + 1)
      BY <1>1, <2>10
    <3>4. \A i \in (at + 1)..(l + 1) : framed[i + 1] = linked[i]
      BY <2>6, <2>9
    <3> QED BY <2>6, <2>9, <2>11, <3>1, <3>2, <3>3, <3>4
  <2> WITNESS at \in 1..Len(list), 1 \in {0, 1}
  <2>13. /\ Len(heap) + 2 * 1 = n + 2 /\ (n + 2) + 2 = n + 4 /\ (n + 2) + 1 = n + 3
         /\ (l + 1) + 2 = (l + 2) + 1 /\ (l + 1) + 1 + 2 = (l + 2) + 2
         /\ (l + 1) + 1 + 3 = (l + 2) + 3 /\ (l + 1) + 1 + 3 = l + 5
    BY <1>1
  <2>14. list[at] = LastPending
    BY <2>6, <2>9, <2>10
  <2> QED BY <1>4, <1>7, <2>5, <2>11, <2>12, <2>13, <2>14 DEF frame, create, destroy
<1> QED BY <1>6, <1>7

\* Every position behind the end of a function is one from before it, that of
\* the node returns go to, or that of a new node.
LEMMA EpiloguePositions ==
  ASSUME IInv, CodeInv, compile_NFUN_end
  PROVE  /\ \A i, j \in 1..Len(list') : list'[i] = list'[j] => i = j
         /\ \A i \in 1..Len(list') : \/ Listed(list'[i])
                                    \/ list'[i] = func_return
                                    \/ list'[i] \in Fresh
<1> DEFINE n == Len(heap)
           l == Len(list)
<1>1. PICK at \in 1..Len(list), by \in {0, 1} :
        /\ Len(heap') = n + 2 * by + 2
        /\ \A i \in 1..at : list'[i] = list[i]
        /\ \A i \in (at + 1)..l : list'[i + by] = list[i]
        /\ list'[l + by + 1] = func_return
        /\ by = 1 => list'[at + 1] = n + 1 /\ list'[l + by + 2] = n + 2
        /\ Len(list') = l + by + by + 3
        /\ list'[l + by + by + 2] = n + 2 * by + 1
        /\ list'[l + by + by + 3] = n + 2 * by + 2
  BY EpilogueCode
<1>2. /\ n \in Nat /\ l \in Nat /\ list \in Seq(1..n) /\ func_return \in 1..n
      /\ \A i \in 1..l : list[i] # func_return
      /\ \A i, j \in 1..l : list[i] = list[j] => i = j
  <2>1. func_return \in 1..n
    BY EpilogueState
  <2>2. ~ Listed(func_return)
    BY <2>1, HandlerState DEF CodeInv, ListInv, NIL
  <2> QED BY <2>1, <2>2, HandlerState DEF CodeInv, ListInv, Listed
<1> DEFINE Old     == {i \in 1..(l + by) : i <= at \/ i > at + by}
           orig(i) == IF i <= at THEN i ELSE i - by
<1>3. /\ \A i \in Old : orig(i) \in 1..l /\ list'[i] = list[orig(i)]
      /\ \A i, j \in Old : orig(i) = orig(j) => i = j
  <2>1. ASSUME NEW i \in Old PROVE orig(i) \in 1..l /\ list'[i] = list[orig(i)]
    <3>1. CASE i <= at
      BY <1>1, <1>2, <3>1
    <3>2. CASE i > at + by
      <4>1. ~ (i <= at) /\ i - by \in (at + 1)..l /\ (i - by) + by = i /\ i - by \in 1..l
        BY <1>1, <1>2, <3>2
      <4> QED BY <1>1, <4>1
    <3> QED BY <3>1, <3>2
  <2>2. \A i, j \in Old : orig(i) = orig(j) => i = j
    BY <1>1, <1>2
  <2> QED BY <2>1, <2>2
<1> DEFINE New     == {i \in 1..(l + by + by + 3) : i \notin Old /\ i # l + by + 1}
           which(i) == IF by = 1 THEN IF i = at + 1 THEN 1 ELSE i - (l + 1)
                       ELSE i - (l + 1)
<1>4. \A i \in New : list'[i] = n + which(i) /\ which(i) \in 1..(2 * by + 2)
  <2> SUFFICES ASSUME NEW i \in New
               PROVE  list'[i] = n + which(i) /\ which(i) \in 1..(2 * by + 2)
    OBVIOUS
  <2>1. CASE by = 0
    <3>1. i = l + 2 \/ i = l + 3
      <4>1. i \in 1..(l + 3) /\ i # l + 1 /\ ~ (i \in 1..l /\ (i <= at \/ i > at))
        BY <1>2, <2>1
      <4>2. l \in Nat /\ at \in 1..l
        BY <1>2
      <4> HIDE DEF l
      <4> QED BY ONLY <4>1, <4>2
    <3>2. /\ list'[l + 2] = n + 1 /\ list'[l + 3] = n + 2
      BY <1>1, <1>2, <2>1
    <3>3. which(i) = i - (l + 1)
      BY <2>1
    <3> HIDE DEF which
    <3> QED BY <1>2, <2>1, <3>1, <3>2, <3>3
  <2>2. CASE by = 1
    <3>1. i = at + 1 \/ i = l + 3 \/ i = l + 4 \/ i = l + 5
      <4>1. /\ i \in 1..(l + 5) /\ i # l + 2
            /\ ~ (i \in 1..(l + 1) /\ (i <= at \/ i > at + 1))
        BY <1>2, <2>2
      <4>2. l \in Nat /\ at \in 1..l
        BY <1>2
      <4> HIDE DEF l
      <4> QED BY <4>1, <4>2
    <3>2. /\ list'[at + 1] = n + 1 /\ list'[l + 3] = n + 2
          /\ list'[l + 4] = n + 3 /\ list'[l + 5] = n + 4
      BY <1>1, <1>2, <2>2
    <3>3. which(i) = IF i = at + 1 THEN 1 ELSE i - (l + 1)
      BY <2>2
    <3>4. at + 1 # l + 3 /\ at + 1 # l + 4 /\ at + 1 # l + 5
      BY <1>2
    <3>5. n \in Nat /\ l \in Nat
      BY <1>2
    <3>6. /\ 1 \in 1..(2 * by + 2) /\ (l + 3) - (l + 1) = 2 /\ 2 \in 1..(2 * by + 2)
          /\ (l + 4) - (l + 1) = 3 /\ 3 \in 1..(2 * by + 2)
          /\ (l + 5) - (l + 1) = 4 /\ 4 \in 1..(2 * by + 2)
      BY <2>2, <3>5
    <3> HIDE DEF which, l, n
    <3> QED BY <3>1, <3>2, <3>3, <3>4, <3>6
  <2> QED BY <2>1, <2>2
<1>5. \A i, j \in New : which(i) = which(j) => i = j
  <2> SUFFICES ASSUME NEW i \in New, NEW j \in New, which(i) = which(j) PROVE i = j
    OBVIOUS
  <2>1. CASE by = 0
    BY <1>2, <2>1
  <2>2. CASE by = 1
    <3>1. ASSUME NEW k \in New PROVE k = at + 1 \/ k \in (l + 3)..(l + 5)
      <4>1. /\ k \in 1..(l + 5) /\ k # l + 2
            /\ ~ (k \in 1..(l + 1) /\ (k <= at \/ k > at + 1))
        BY <1>2, <2>2
      <4>2. l \in Nat /\ at \in 1..l
        BY <1>2
      <4> HIDE DEF l
      <4> QED BY <4>1, <4>2
    <3>2. at + 1 < l + 3 /\ l \in Nat /\ at \in 1..l
      BY <1>2
    <3>3. \A k : which(k) = IF k = at + 1 THEN 1 ELSE k - (l + 1)
      BY <2>2
    <3> HIDE DEF New, which, l
    <3>4. (i = at + 1 \/ i \in (l + 3)..(l + 5)) /\ (j = at + 1 \/ j \in (l + 3)..(l + 5))
      BY <3>1
    <3>5. (IF i = at + 1 THEN 1 ELSE i - (l + 1)) = (IF j = at + 1 THEN 1 ELSE j - (l + 1))
      BY <3>3
    <3> QED BY ONLY <3>2, <3>4, <3>5
  <2> QED BY <2>1, <2>2
<1>6. \A i \in 1..Len(list') : i \in Old \/ i \in New \/ i = l + by + 1
  BY <1>1
<1>7. /\ \A i \in Old : list'[i] \in 1..n /\ list'[i] # func_return /\ Listed(list'[i])
      /\ \A i \in New : list'[i] \notin 1..n /\ list'[i] \in Fresh
  <2>1. \A i \in Old : list'[i] \in 1..n /\ list'[i] # func_return /\ Listed(list'[i])
    <3>1. \A j \in 1..l : list[j] \in 1..n /\ list[j] # func_return /\ Listed(list[j])
      BY <1>2 DEF Listed
    <3> HIDE DEF Old, orig
    <3> QED BY <1>3, <3>1
  <2>2. ASSUME NEW i \in New PROVE list'[i] \notin 1..n /\ list'[i] \in Fresh
    <3> DEFINE w == which(i)
    <3>1. list'[i] = n + w /\ w \in 1..(2 * by + 2)
      BY <1>4
    <3>2. Len(heap') = n + (2 * by + 2)
      BY <1>1, <1>2
    <3> HIDE DEF w
    <3> QED BY <1>2, <3>1, <3>2 DEF Fresh
  <2> QED BY <2>1, <2>2
<1>8. \A i, j \in Old : list'[i] = list'[j] => i = j
  <2> HIDE DEF Old, orig
  <2> SUFFICES ASSUME NEW i \in Old, NEW j \in Old, list'[i] = list'[j] PROVE i = j
    OBVIOUS
  <2>1. orig(i) \in 1..l /\ orig(j) \in 1..l /\ list[orig(i)] = list[orig(j)]
    BY <1>3, Zenon
  <2>2. orig(i) = orig(j)
    BY <1>2, <2>1, Zenon
  <2> QED BY <1>3, <2>2, Zenon
<1>9. \A i, j \in New : list'[i] = list'[j] => i = j
  <2> SUFFICES ASSUME NEW i \in New, NEW j \in New, list'[i] = list'[j] PROVE i = j
    OBVIOUS
  <2>1. which(i) \in Nat /\ which(j) \in Nat /\ n + which(i) = n + which(j)
    BY <1>4
  <2>2. which(i) = which(j)
    <3> HIDE DEF which
    <3> QED BY <1>2, <2>1
  <2> HIDE DEF which, New
  <2> QED BY <1>5, <2>2
<1> HIDE DEF Old, New
<1>10. list'[l + by + 1] = func_return
  BY <1>1
<1>11. func_return \in 1..n
  BY <1>2
<1> QED BY <1>6, <1>7, <1>8, <1>9, <1>10, <1>11

\* Ending a function keeps the invariant.
LEMMA EpilogueKeepsCode ==
  ASSUME IInv, IInv', CodeInv, compile_NFUN_end
  PROVE  CodeInv'
<1> USE DEF COMPILING_LEFT, COMPILED_LEFT, COMPILING_RIGHT, COMPILED_RIGHT
<1>1. /\ walk # <<>> /\ Proceed /\ UNCHANGED control /\ walk' = <<>>
      /\ Top.node.type = "NFUN" /\ Top.stage = 3 /\ func_return \in 1..Len(heap)
  BY EpilogueState
<1>2. walk \in Seq(Frame) /\ Len(heap) \in Nat /\ next_func \in Nat /\ functions' = functions
  <2>1. walk \in Seq(Frame) /\ Len(heap) \in Nat
    BY HandlerState
  <2>2. next_func \in Nat
    BY DEF IInv, TypeOK
  <2> QED BY <1>1, <2>1, <2>2 DEF control
<1>3. WalkLinked'
  BY <1>1, <1>2, LinkedKept DEF CodeInv
<1>4. FunctionOrder' /\ \A k \in 1..Len(functions) : Waiting(k)' => Waiting(k)
  BY <1>1, <1>2, OrderKept DEF CodeInv
<1>5. CallAtTail'
  BY <1>1 DEF CallAtTail, CallCompiled
<1>6. \A id \in 1..Len(heap) : heap'[id] = heap[id]
  BY EpilogueCode
<1>7. PatchStackMatchesWalk'
  <2>1. HeapStep
    BY <1>6 DEF HeapStep
  <2>2. Pending(Top) = << "prologue" >>
    BY <1>1, TopState, PendingCases
  <2>3. Len(Pending(Top)) = 1
    BY <2>2
  <2>4. ir_stack' = SubSeq(ir_stack, 1, Len(ir_stack) - Len(Pending(Top)))
    BY <2>3 DEF compile_NFUN_end
  <2> QED BY <1>1, <2>1, <2>3, <2>4, EntriesPopped
<1>8. ASSUME NEW k \in 1..Len(functions), Waiting(k)'
      PROVE  /\ \A i \in 1..Len(list') : list'[i] # functions[k].ir_list_head
             /\ heap'[functions[k].ir_list_head] = new_empty
  <2> DEFINE head == functions[k].ir_list_head
  <2>1. Waiting(k)
    BY <1>4, <1>8
  <2>2. ~ Listed(head) /\ heap[head] = new_empty
    BY <2>1 DEF CodeInv, ListInv
  <2>3. head # func_return
    BY <1>1, <1>2 DEF CodeInv, ListInv, NIL
  <2>4. head \in 1..Len(heap)
    BY DEF IInv, FunctionTable
  <2>5. head \notin Fresh
    BY <1>2, <2>4 DEF Fresh
  <2> HIDE DEF head
  <2>6. \A i \in 1..Len(list') : list'[i] # head
    BY <2>2, <2>3, <2>5, EpiloguePositions
  <2> QED BY <1>6, <2>2, <2>4, <2>6 DEF head
<1>9. ListInv'
  <2>1. func_return' = NIL
    BY DEF compile_NFUN_end
  <2>2. \A i, j \in 1..Len(list') : list'[i] = list'[j] => i = j
    BY EpiloguePositions
  <2> QED BY <1>2, <1>8, <2>1, <2>2 DEF ListInv, Listed
<1> QED BY <1>3, <1>4, <1>5, <1>7, <1>9 DEF CodeInv

-----------------------------------------------------------------------------
(* The driver.                                                             *)

\* Activations that have not begun have nothing waiting, and have seen no call.
LEMMA NothingWaiting ==
  ASSUME NEW frames \in Seq(Frame), \A i \in 1..Len(frames) : frames[i].stage = COMPILING_LEFT,
         Len(frames) \in {0, 1}
  PROVE  /\ Base(frames, Len(frames) + 1) = 0
         /\ \A i \in 1..Len(frames) : Len(Pending(frames[i])) = 0
<1> USE DEF COMPILING_LEFT, COMPILED_LEFT, COMPILING_RIGHT, COMPILED_RIGHT
<1>1. \A i \in 1..Len(frames) : Len(Pending(frames[i])) = 0
  <2> SUFFICES ASSUME NEW i \in 1..Len(frames) PROVE Len(Pending(frames[i])) = 0
    OBVIOUS
  <2>1. Pending(frames[i]) = <<>>
    BY PendingCases
  <2> QED BY <2>1
<1>2. PendingBelow(frames, Len(frames) + 1) = {}
  <2>1. ASSUME NEW entry \in PendingBelow(frames, Len(frames) + 1) PROVE FALSE
    <3>1. /\ entry[1] \in 1..((Len(frames) + 1) - 1) /\ entry[2] \in 1..2
          /\ entry[2] <= Len(Pending(frames[entry[1]]))
      BY <2>1 DEF PendingBelow
    <3>2. entry[1] \in 1..Len(frames)
      BY <3>1
    <3> QED BY <1>1, <3>1, <3>2
  <2> QED BY <2>1
<1> QED BY <1>1, <1>2, FS_EmptySet DEF Base

\* What the stack and the recursion are between two trees, and at the root of
\* one.
LEMMA BetweenTrees ==
  ASSUME IInv, IInv', walk = <<>>, UNCHANGED ir_stack,
         Len(walk') \in {0, 1}, \A i \in 1..Len(walk') : walk'[i].stage = COMPILING_LEFT
  PROVE  WalkLinked' /\ CallAtTail' /\ PatchStackMatchesWalk'
<1>1. walk' \in Seq(Frame) /\ Len(ir_stack') = 0
  <2>1. walk' \in Seq(Frame)
    BY DEF IInv, TypeOK
  <2> QED BY <2>1, NothingOpenBetween
<1>2. WalkLinked'
  <2>1. \A i \in 1..(Len(walk') - 1) : FALSE
    OBVIOUS
  <2> QED BY <2>1 DEF WalkLinked
<1>3. CallAtTail'
  <2>1. walk' # <<>> => walk'[Len(walk')].stage = COMPILING_LEFT
    BY <1>1
  <2> QED BY <2>1 DEF CallAtTail, CallCompiled, Top, COMPILING_LEFT, COMPILED_LEFT, COMPILED_RIGHT
<1>4. PatchStackMatchesWalk'
  <2>1. /\ Base(walk', Len(walk') + 1) = 0
        /\ \A i \in 1..Len(walk') : Len(Pending(walk'[i])) = 0
    BY <1>1, NothingWaiting
  <2>2. \A i \in 1..0 : FALSE
    OBVIOUS
  <2> QED BY <1>1, <2>1, <2>2 DEF PatchStackMatchesWalk
<1> QED BY <1>2, <1>3, <1>4

\* The code that the program starts with.
LEMMA EntryCode ==
  ASSUME IInv, emit_entry
  PROVE  /\ AppendsFresh
         /\ \A id \in 1..Len(heap) : heap'[id] = heap[id]
         /\ \A id \in Fresh :
              /\ heap'[id].operation \in {"CALL", "MOV", "SYSCALL"}
              /\ ~ IsLocalAccess(heap'[id]) /\ ~ IsGlobalAccess(heap'[id])
              /\ heap'[id].operation = "CALL" =>
                   \E k \in 1..Len(functions) : heap'[id].jump_target = functions[k].ir_list_head
         /\ heap'[list'[Len(list')]].operation = "SYSCALL"
<1> DEFINE main   == func_array_find_func("main").ir_list_head
           call   == new_call(main)
           status == new_binary("MOV", operand_reg("RDI"), operand_reg("RAX"))
           exit   == new_binary("MOV", operand_reg("RAX"), operand_imm(60))
           nodes  == << call, status, exit, new_syscall >>
<1>1. Emit(nodes) /\ Defined("main")
  BY DEF emit_entry
<1>2. PICK k \in 1..Len(functions) : main = functions[k].ir_list_head
  <2>1. functions \in Seq(Function)
    BY DEF IInv, TypeOK
  <2> QED BY <1>1, <2>1, FunctionFound
<1>3. main \in Nat
  <2>1. functions[k].ir_list_head \in 1..Len(heap)
    BY DEF IInv, FunctionTable
  <2> QED BY <1>2, <2>1
<1> HIDE DEF main
<1>4. call \in IrNode /\ status \in IrNode /\ exit \in IrNode /\ new_syscall \in IrNode
  <2>1. "MOV" \in ir_op /\ {"RDI", "RAX"} \subseteq ir_reg
    BY DEF ir_op, ir_reg
  <2>2. operand_imm(60) \in ir_operand
    BY OperandTypes
  <2> QED BY <1>3, <2>1, <2>2, InstructionTypes, OperandTypes
<1>5. /\ call.operation = "CALL" /\ call.jump_target = main
      /\ status.operation = "MOV" /\ exit.operation = "MOV"
      /\ new_syscall.operation = "SYSCALL"
      /\ \A node \in {call, status, exit, new_syscall} :
           ~ IsLocalAccess(node) /\ ~ IsGlobalAccess(node)
  <2>1. "MEM" \in {"MEM", "IMM", "REG"} /\ "MEM" \in {"MEM", "IMM"}
        /\ "MEM" \notin {"REG"} /\ "MEM" \notin {}
    OBVIOUS
  <2>2. /\ call.operation = "CALL" /\ call.jump_target = main
        /\ status.operation = "MOV" /\ exit.operation = "MOV"
        /\ new_syscall.operation = "SYSCALL"
    BY DEF new_call, new_binary, new_unary, new_syscall, instruction
  <2>3. \A node \in {call, status, exit, new_syscall} : node.operand1.flags \in {{"REG"}, {}}
    BY DEF new_call, new_binary, new_unary, new_syscall, instruction, operand_none, operand_reg
  <2> HIDE DEF call, status, exit
  <2>4. ASSUME NEW node \in {call, status, exit, new_syscall}
        PROVE  ~ IsLocalAccess(node) /\ ~ IsGlobalAccess(node)
    <3>1. "MEM" \notin node.operand1.flags
      BY <2>1, <2>3
    <3> QED BY <2>1, <3>1 DEF IsLocalAccess, IsGlobalAccess
  <2> QED BY <2>2, <2>4
<1> HIDE DEF call, status, exit
<1>6. nodes \in Seq(IrNode) /\ Len(nodes) = 4
      /\ nodes[1] = call /\ nodes[2] = status /\ nodes[3] = exit /\ nodes[4] = new_syscall
  BY <1>4
<1> HIDE DEF nodes
<1>7. EmitTo(heap, nodes) /\ heap \in Seq(IrNode)
  BY <1>1, HandlerState DEF Emit
<1>8. /\ AppendsFresh
      /\ \A id \in 1..Len(heap) : heap'[id] = heap[id]
      /\ \A i \in 1..Len(nodes) : heap'[Len(heap) + i] = nodes[i]
      /\ \A id \in Fresh : \E i \in 1..Len(nodes) : id = Len(heap) + i
  BY <1>6, <1>7, EmitsFresh
<1>9. ASSUME NEW id \in Fresh PROVE heap'[id] \in {call, status, exit, new_syscall}
  <2>1. PICK i \in 1..Len(nodes) : heap'[id] = nodes[i]
    BY <1>8
  <2>2. i \in {1, 2, 3, 4}
    BY <1>6
  <2> QED BY <1>6, <2>1, <2>2
<1>10. heap'[list'[Len(list')]] = new_syscall
  <2>1. /\ Len(list') = Len(list) + Len(nodes)
        /\ \A i \in 1..Len(nodes) : list'[Len(list) + i] = Len(heap) + i
    BY <1>6, <1>7, HandlerState, EmitTyped
  <2>2. list'[Len(list) + 4] = Len(heap) + 4 /\ Len(list') = Len(list) + 4
    BY <1>6, <2>1
  <2>3. heap'[Len(heap) + 4] = new_syscall
    BY <1>6, <1>8
  <2> QED BY <2>2, <2>3
<1> QED BY <1>2, <1>5, <1>8, <1>9, <1>10

\* Entering a tree: a global variable or the next function.
LEMMA EnteringKeepsCode ==
  ASSUME IInv, IInv', CodeInv, extract_variable \/ compile_next_function
  PROVE  CodeInv'
<1> USE DEF COMPILING_LEFT, COMPILED_LEFT, COMPILING_RIGHT, COMPILED_RIGHT
<1> DEFINE node == IF phase = "declarations" THEN cursor.left ELSE functions[next_func].node
<1>1. /\ walk = <<>> /\ walk' = Enter(walk, node)
      /\ UNCHANGED <<phase, functions, func_return, ir_stack, heap, list>>
      /\ phase = "declarations" => next_func' = next_func /\ node.type = "NVAR"
      /\ phase # "declarations" => /\ phase = "functions"
                                   /\ next_func <= Len(functions)
                                   /\ next_func' = next_func + 1
  BY DEF extract_variable, compile_next_function, Extracting, returns, code
<1>2. /\ next_func \in Nat \ {0} /\ functions \in Seq(Function)
      /\ phase = "declarations" => next_func = 1
  BY DEF IInv, TypeOK, CodeInv, FunctionOrder
<1> HIDE DEF node
<1>3. \/ node = NULL /\ walk' = <<>>
      \/ node # NULL /\ walk' = << [node |-> node, stage |-> COMPILING_LEFT] >>
  <2>1. Append(<<>>, [node |-> node, stage |-> COMPILING_LEFT])
          = << [node |-> node, stage |-> COMPILING_LEFT] >>
    OBVIOUS
  <2> QED BY <1>1, <2>1 DEF Enter
<1>4. Len(walk') \in {0, 1} /\ \A i \in 1..Len(walk') : walk'[i].stage = 0
  BY <1>3
<1>5. walk' # <<>> => walk'[1].node = node /\ node # NULL
  BY <1>3
<1>6. FunctionOrder'
  <2>1. walk' # <<>> /\ phase # "declarations" =>
          /\ next_func' - 1 = next_func /\ next_func \in 1..Len(functions)
          /\ node = functions[next_func].node /\ node.type = "NFUN"
    <3>1. phase # "declarations" =>
            /\ next_func' - 1 = next_func /\ next_func \in 1..Len(functions)
            /\ node = functions[next_func].node
      BY <1>1, <1>2 DEF node
    <3> QED BY <1>5, <3>1 DEF IInv, FunctionTable
  <2> QED BY <1>1, <1>2, <1>5, <2>1 DEF CodeInv, FunctionOrder
<1>7. ASSUME NEW k \in 1..Len(functions), Waiting(k)' PROVE Waiting(k)
  <2>1. k \in Nat /\ k # 0
    OBVIOUS
  <2> QED BY <1>1, <1>2, <1>7, <2>1 DEF Waiting
<1>8. ListInv'
  BY <1>1, <1>7 DEF CodeInv, ListInv, Listed
<1>9. WalkLinked' /\ CallAtTail' /\ PatchStackMatchesWalk'
  BY <1>1, <1>4, BetweenTrees
<1> QED BY <1>6, <1>8, <1>9 DEF CodeInv

\* Declaring a function: its name and its head are new.
LEMMA DeclaringKeepsCode ==
  ASSUME IInv, IInv', CodeInv, extract_function
  PROVE  CodeInv'
<1> DEFINE n    == Len(heap)
           m    == Len(functions)
           func == function(cursor.left, n + 1, cursor.left.value, ChainOf(cursor.left.left))
<1>1. /\ walk = <<>> /\ walk' = <<>> /\ phase = "declarations"
      /\ heap' = Append(heap, new_empty)
      /\ functions' = Append(functions, func)
      /\ ~ Defined(cursor.left.value)
      /\ UNCHANGED <<phase, next_func, func_return, ir_stack, list>>
  BY DEF extract_function, Extracting, returns
<1>2. /\ heap \in Seq(IrNode) /\ n \in Nat /\ list \in Seq(1..n)
      /\ functions \in Seq(Function) /\ m \in Nat /\ func_return \in 0..n
      /\ next_func = 1
  <2>1. heap \in Seq(IrNode) /\ n \in Nat /\ list \in Seq(1..n) /\ func_return \in 0..n
    BY HandlerState
  <2>2. functions \in Seq(Function)
    BY DEF IInv, TypeOK
  <2>3. next_func = 1
    BY <1>1 DEF CodeInv, FunctionOrder
  <2> QED BY <2>1, <2>2, <2>3
<1>3. func.ir_list_head = n + 1 /\ func.name = cursor.left.value
  BY DEF function
<1> HIDE DEF func
<1>4. /\ Len(functions') = m + 1
      /\ \A k \in 1..m : functions'[k] = functions[k]
      /\ functions'[m + 1] = func
  BY <1>1, <1>2
<1>5. Len(heap') = n + 1 /\ heap'[n + 1] = new_empty /\ \A id \in 1..n : heap'[id] = heap[id]
  BY <1>1, <1>2
<1>6. \A k \in 1..m : /\ functions[k].ir_list_head \in 1..n
                      /\ functions[k].name # func.name
  BY <1>1, <1>3 DEF IInv, FunctionTable, Defined
<1>7. ASSUME NEW k \in 1..Len(functions') PROVE k \in 1..m \/ k = m + 1
  BY <1>2, <1>4
<1>8. FunctionOrder'
  <2>1. ASSUME NEW i \in 1..Len(functions'), NEW j \in 1..Len(functions'),
               \/ functions'[i].name = functions'[j].name
               \/ functions'[i].ir_list_head = functions'[j].ir_list_head
        PROVE  i = j
    <3>1. \A a, b \in 1..m : \/ functions[a].name = functions[b].name
                             \/ functions[a].ir_list_head = functions[b].ir_list_head
                             => a = b
      BY DEF CodeInv, FunctionOrder
    <3>2. n + 1 \notin 1..n
      BY <1>2
    <3>3. (i \in 1..m \/ i = m + 1) /\ (j \in 1..m \/ j = m + 1)
      BY <1>7
    <3> HIDE DEF n, m
    <3> QED BY <1>3, <1>4, <1>6, <2>1, <3>1, <3>2, <3>3
  <2> QED BY <1>1, <1>2, <2>1 DEF FunctionOrder
<1>9. ASSUME NEW k \in 1..Len(functions'), Waiting(k)'
      PROVE  /\ \A i \in 1..Len(list') : list'[i] # functions'[k].ir_list_head
             /\ heap'[functions'[k].ir_list_head] = new_empty
  <2>1. CASE k \in 1..m
    <3>1. Waiting(k)
      BY <1>1, <1>4, <1>9, <2>1 DEF Waiting
    <3>2. ~ Listed(functions[k].ir_list_head) /\ heap[functions[k].ir_list_head] = new_empty
      BY <2>1, <3>1 DEF CodeInv, ListInv
    <3> QED BY <1>1, <1>4, <1>5, <1>6, <2>1, <3>2 DEF Listed
  <2>2. CASE k = m + 1
    <3>1. \A i \in 1..Len(list) : list[i] # n + 1
      BY <1>2
    <3> QED BY <1>1, <1>3, <1>4, <1>5, <2>2, <3>1
  <2> QED BY <1>7, <2>1, <2>2
<1>10. ASSUME func_return # NIL
       PROVE  /\ \A i \in 1..Len(list') : list'[i] # func_return
              /\ heap'[func_return] = new_empty
              /\ \A k \in 1..Len(functions') : functions'[k].ir_list_head # func_return
  <2>1. func_return \in 1..n /\ ~ Listed(func_return) /\ heap[func_return] = new_empty
        /\ \A k \in 1..m : functions[k].ir_list_head # func_return
    BY <1>2, <1>10 DEF CodeInv, ListInv, NIL
  <2>2. n + 1 # func_return
    BY <1>2, <2>1
  <2> HIDE DEF n, m
  <2> QED BY <1>1, <1>3, <1>4, <1>5, <1>7, <2>1, <2>2 DEF Listed, n
<1>11. ListInv'
  <2>1. \A i, j \in 1..Len(list') : list'[i] = list'[j] => i = j
    BY <1>1 DEF CodeInv, ListInv
  <2> QED BY <1>1, <1>9, <1>10, <2>1 DEF ListInv, Listed
<1>12. WalkLinked' /\ CallAtTail' /\ PatchStackMatchesWalk'
  <2>1. Len(walk') \in {0, 1} /\ \A i \in 1..Len(walk') : walk'[i].stage = COMPILING_LEFT
    BY <1>1
  <2> QED BY <1>1, <2>1, BetweenTrees
<1> QED BY <1>8, <1>11, <1>12 DEF CodeInv

\* Emitting the entry code, and finding that all is done.
LEMMA FinishingKeepsCode ==
  ASSUME IInv, IInv', CodeInv, emit_entry \/ all_compiled
  PROVE  CodeInv'
<1>1. /\ walk = <<>> /\ walk' = <<>> /\ phase' \in {"functions", "done"}
      /\ phase' = "done" => next_func > Len(functions)
      /\ UNCHANGED <<next_func, functions, func_return, ir_stack>>
  BY DEF emit_entry, all_compiled, Extracting, returns
<1>2. FunctionOrder'
  BY <1>1 DEF CodeInv, FunctionOrder
<1>3. \A k \in 1..Len(functions) : Waiting(k)' => Waiting(k)
  BY <1>1 DEF Waiting
<1>4. Len(heap) \in Nat /\ list \in Seq(1..Len(heap)) /\ func_return \in 0..Len(heap)
  BY HandlerState
<1>5. /\ \A id \in 1..Len(heap) : heap'[id] = heap[id]
      /\ \A i, j \in 1..Len(list') : list'[i] = list'[j] => i = j
      /\ \A i \in 1..Len(list') : Listed(list'[i]) \/ list'[i] \notin 1..Len(heap)
  <2>1. CASE all_compiled
    <3>1. UNCHANGED <<heap, list>>
      BY <2>1 DEF all_compiled, code
    <3> QED BY <3>1 DEF CodeInv, ListInv, Listed
  <2>2. CASE emit_entry
    <3>1. AppendsFresh /\ \A id \in 1..Len(heap) : heap'[id] = heap[id]
      BY <2>2, EntryCode
    <3>2. \A i, j \in 1..Len(list') : list'[i] = list'[j] => i = j
      BY <3>1, LinkedOnce
    <3>3. ASSUME NEW i \in 1..Len(list')
          PROVE  Listed(list'[i]) \/ list'[i] \notin 1..Len(heap)
      <4>1. CASE i \in 1..Len(list)
        BY <3>1, <4>1, ListGrown DEF Listed
      <4>2. CASE i \notin 1..Len(list)
        <5>1. i \in (Len(list) + 1)..Len(list')
          BY <3>1, <4>2, ListGrown
        <5>2. list'[i] \in Fresh
          BY <3>1, <5>1, ListGrown
        <5> QED BY <1>4, <5>2 DEF Fresh
      <4> QED BY <4>1, <4>2
    <3> QED BY <3>1, <3>2, <3>3
  <2> QED BY <2>1, <2>2
<1>6. ASSUME NEW id \in 1..Len(heap), ~ Listed(id)
      PROVE  (\A i \in 1..Len(list') : list'[i] # id) /\ heap'[id] = heap[id]
  BY <1>5, <1>6
<1>7. ListInv'
  <2>1. ASSUME NEW k \in 1..Len(functions), Waiting(k)'
        PROVE  /\ \A i \in 1..Len(list') : list'[i] # functions[k].ir_list_head
               /\ heap'[functions[k].ir_list_head] = new_empty
    <3> DEFINE head == functions[k].ir_list_head
    <3>1. head \in 1..Len(heap) /\ ~ Listed(head) /\ heap[head] = new_empty
      BY <1>3, <2>1 DEF CodeInv, ListInv, IInv, FunctionTable
    <3> HIDE DEF head
    <3>2. (\A i \in 1..Len(list') : list'[i] # head) /\ heap'[head] = heap[head]
      BY <1>6, <3>1
    <3> QED BY <3>1, <3>2 DEF head
  <2>2. ASSUME func_return # NIL
        PROVE  /\ \A i \in 1..Len(list') : list'[i] # func_return
               /\ heap'[func_return] = new_empty
    <3>1. func_return \in 1..Len(heap) /\ ~ Listed(func_return) /\ heap[func_return] = new_empty
      BY <1>4, <2>2 DEF CodeInv, ListInv, NIL
    <3> QED BY <1>6, <3>1
  <2>3. func_return # NIL => \A k \in 1..Len(functions) : functions[k].ir_list_head # func_return
    BY DEF CodeInv, ListInv
  <2> QED BY <1>1, <1>5, <2>1, <2>2, <2>3 DEF ListInv, Listed
<1>8. WalkLinked' /\ CallAtTail' /\ PatchStackMatchesWalk'
  <2>1. Len(walk') \in {0, 1} /\ \A i \in 1..Len(walk') : walk'[i].stage = COMPILING_LEFT
    BY <1>1
  <2> QED BY <1>1, <2>1, BetweenTrees
<1> QED BY <1>2, <1>7, <1>8 DEF CodeInv

\* A failed assertion, or nothing, changes no code.
LEMMA IdlingKeepsCode ==
  ASSUME CodeInv, Failure \/ UNCHANGED vars
  PROVE  CodeInv'
<1>1. /\ UNCHANGED <<next_func, functions, walk, func_return, ir_stack, heap, list>>
      /\ phase' = phase \/ phase' = "failed"
  BY DEF vars, control, code, returns, Failure, Fail, UndefinedVariable, UndefinedFunction,
         WrongArgumentCount, MissingReturn, Redefinition, MissingMain
<1>2. WalkLinked' /\ FunctionOrder'
  BY <1>1 DEF CodeInv, WalkLinked, FunctionOrder
<1>3. ListInv'
  BY <1>1 DEF CodeInv, ListInv, Waiting, Listed
<1>4. CallAtTail'
  BY <1>1 DEF CodeInv, CallAtTail, CallCompiled, Top, ir_tail, ErasedCall
<1>5. PatchStackMatchesWalk'
  <2>1. walk' = walk /\ ir_stack' = ir_stack /\ heap' = heap /\ list' = list
    BY <1>1
  <2> QED BY <2>1 DEF CodeInv, PatchStackMatchesWalk, Listed
<1> QED BY <1>2, <1>3, <1>4, <1>5 DEF CodeInv

\* The state that state_ctor makes satisfies the invariant.
LEMMA InitialCode ==
  ASSUME Init
  PROVE  CodeInv
<1>1. /\ phase = "declarations" /\ next_func = 1 /\ walk = <<>>
      /\ functions = << function(NULL, 2, "print", 1), function(NULL, 3, "read", 0),
                        function(NULL, 4, "sqrt", 1) >>
      /\ func_return = NIL /\ ir_stack = <<>>
      /\ heap = [i \in 1..5 |-> new_empty] /\ list = << 5 >>
  BY DEF Init
<1>2. /\ Len(functions) = 3
      /\ functions[1].node = NULL /\ functions[1].name = "print" /\ functions[1].ir_list_head = 2
      /\ functions[2].node = NULL /\ functions[2].name = "read" /\ functions[2].ir_list_head = 3
      /\ functions[3].node = NULL /\ functions[3].name = "sqrt" /\ functions[3].ir_list_head = 4
  <2> DEFINE a == function(NULL, 2, "print", 1)
             b == function(NULL, 3, "read", 0)
             c == function(NULL, 4, "sqrt", 1)
  <2>1. /\ a.node = NULL /\ a.name = "print" /\ a.ir_list_head = 2
        /\ b.node = NULL /\ b.name = "read" /\ b.ir_list_head = 3
        /\ c.node = NULL /\ c.name = "sqrt" /\ c.ir_list_head = 4
    BY DEF function
  <2> HIDE DEF a, b, c
  <2>2. functions = << a, b, c >>
    BY <1>1 DEF a, b, c
  <2>3. Len(functions) = 3 /\ functions[1] = a /\ functions[2] = b /\ functions[3] = c
    BY <2>2
  <2> QED BY <2>1, <2>3
<1>3. Len(list) = 1 /\ list[1] = 5 /\ Len(ir_stack) = 0 /\ Len(walk) = 0
      /\ \A id \in 1..5 : heap[id] = new_empty
  BY <1>1
<1>4. \A k \in 1..3 : k = 1 \/ k = 2 \/ k = 3
  OBVIOUS
<1>5. WalkLinked
  <2>1. \A i \in 1..(Len(walk) - 1) : FALSE
    BY <1>3
  <2> QED BY <2>1 DEF WalkLinked
<1>6. FunctionOrder
  BY <1>1, <1>2, <1>4 DEF FunctionOrder
<1>7. ListInv
  <2>1. \A i \in 1..Len(list) : i = 1 /\ list[i] = 5
    BY <1>3
  <2>2. \A k \in 1..Len(functions) : functions[k].ir_list_head \in {2, 3, 4}
    BY <1>2, <1>4
  <2> QED BY <1>1, <1>3, <2>1, <2>2 DEF ListInv, Listed
<1>8. CallAtTail
  BY <1>1 DEF CallAtTail, CallCompiled
<1>9. PatchStackMatchesWalk
  <2>1. walk \in Seq(Frame) /\ \A i \in 1..Len(walk) : FALSE
    BY <1>1, <1>3
  <2>2. Base(walk, Len(walk) + 1) = 0
    BY <1>3, <2>1, NothingWaiting
  <2> QED BY <1>3, <2>1, <2>2 DEF PatchStackMatchesWalk
<1> QED BY <1>5, <1>6, <1>7, <1>8, <1>9 DEF CodeInv

-----------------------------------------------------------------------------
(* The theorems.                                                           *)

\* Every step keeps CodeInv.
LEMMA CodeStep ==
  ASSUME IInv, IInv', CodeInv, [Next]_vars
  PROVE  CodeInv'
<1>1. CASE HandleNode
  <2>1. BodyHandler \/ compile_NFUN_begin \/ compile_NFUN_end
    BY <1>1 DEF HandleNode, BodyHandler, Straight
  <2> QED BY <2>1, BodyKeepsCode, PrologueKeepsCode, EpilogueKeepsCode
<1>2. CASE Driver
  BY <1>2, EnteringKeepsCode, DeclaringKeepsCode, FinishingKeepsCode DEF Driver
<1>3. CASE Failure \/ UNCHANGED vars
  BY <1>3, IdlingKeepsCode
<1> QED BY <1>1, <1>2, <1>3 DEF Next, CodeGenStep, Returned

\* For every program, the list of nodes, the stack of those to be patched and
\* the nodes allocated before they are linked stay in step with the recursion
\* (compile_node and the handlers it calls).
THEOREM CodeInvariance == Spec => [](IInv /\ CodeInv)
<1>1. Init => IInv /\ CodeInv
  BY InitialState, InitialCode
<1>2. IInv /\ IInv' /\ CodeInv /\ [Next]_vars => CodeInv'
  BY CodeStep
<1> QED BY <1>1, <1>2, Invariance, PTL DEF Spec

\* For every program, ir_stack is what the open activations pushed, in their
\* order: no handler ever pops or patches a node of another construct.
THEOREM PatchStackFollowsRecursion == Spec => []PatchStackMatchesWalk
<1>1. IInv /\ CodeInv => PatchStackMatchesWalk
  BY DEF CodeInv
<1> QED BY <1>1, CodeInvariance, PTL

\* What one step does to the code emitted before it.
LEMMA StepKeepsEmittedCode ==
  ASSUME IInv, CodeInv, [Next]_vars
  PROVE  KeepsEmittedCode \/ UNCHANGED vars
<1> DEFINE n == Len(heap)
           l == Len(list)
<1>1. n \in Nat /\ l \in Nat /\ l \in 0..Len(list) /\ 0 \in 0..1
  BY HandlerState
<1>2. ASSUME \A id \in 1..n : heap'[id] = heap[id], \A i \in 1..l : list'[i] = list[i]
      PROVE  KeepsEmittedCode
  <2>1. \A i \in 1..l : (IF i <= l THEN i ELSE i + 0) = i
    BY <1>1
  <2>2. \A i \in 1..l : list'[IF i <= l THEN i ELSE i + 0] = list[i]
    BY <1>2, <2>1
  <2> HIDE DEF n, l
  <2> QED BY <1>1, <1>2, <2>2 DEF KeepsEmittedCode, n, l
<1>3. CASE BodyHandler
  <2>1. IInv' /\ walk # <<>>
    <3>1. HandleNode
      BY <1>3 DEF BodyHandler, Straight, HandleNode
    <3> QED BY <3>1, HandlersKeep, HandlerProceeds
  <2>2. AppendsFresh /\ HeapStep
    BY <1>3, <2>1, HandlersEmit DEF Emission
  <2>3. \A i \in 1..l : list'[i] = list[i]
    BY <2>2, ListGrown
  <2>4. ASSUME NEW id \in 1..n, heap'[id] # heap[id]
        PROVE  \/ /\ \E i \in 1..Len(ir_stack) : ir_stack[i] = id
                  /\ PatchedJump(heap[id], heap'[id])
               \/ /\ id = ir_tail
                  /\ ErasedCall(heap[id], heap[list[Len(list) - 1]], heap'[id])
    <3>1. CASE CallCompiled /\ id = ir_tail /\ heap'[id] = new_empty
      BY <3>1 DEF CodeInv, CallAtTail
    <3>2. CASE /\ Patching /\ id = LastPending
               /\ \E target \in Fresh : heap'[id] = [heap[id] EXCEPT !.jump_target = target]
      <4>1. /\ Len(ir_stack) \in 1..Len(ir_stack)
            /\ heap[id].operation = "JMP" /\ heap[id].jump_target = NIL
        BY <2>1, <3>2, PatchedNode
      <4>2. \A target \in Fresh : target \in 1..Len(heap')
        BY <1>1 DEF Fresh
      <4>3. PatchedJump(heap[id], heap'[id])
        BY <3>2, <4>1, <4>2 DEF PatchedJump
      <4> QED BY <3>2, <4>1, <4>3 DEF LastPending
    <3> QED BY <2>2, <2>4, <3>1, <3>2 DEF HeapStep
  <2>5. \A i \in 1..l : (IF i <= l THEN i ELSE i + 0) = i
    BY <1>1
  <2>6. \A i \in 1..l : list'[IF i <= l THEN i ELSE i + 0] = list[i]
    BY <2>3, <2>5
  <2> HIDE DEF n, l
  <2> QED BY <1>1, <2>4, <2>6 DEF KeepsEmittedCode, n, l
<1>4. CASE compile_NFUN_begin
  BY <1>2, <1>4, PrologueCode
<1>5. CASE compile_NFUN_end
  <2>1. \A id \in 1..n : heap'[id] = heap[id]
    BY <1>5, EpilogueCode
  <2>2. PICK at \in 1..Len(list), by \in {0, 1} :
          /\ \A i \in 1..at : list'[i] = list[i]
          /\ \A i \in (at + 1)..Len(list) : list'[i + by] = list[i]
    BY <1>5, EpilogueCode
  <2>3. ASSUME NEW i \in 1..Len(list)
        PROVE  list'[IF i <= at THEN i ELSE i + by] = list[i]
    <3>1. CASE i <= at
      BY <1>1, <2>2, <3>1
    <3>2. CASE ~ (i <= at)
      <4>1. i \in (at + 1)..Len(list)
        BY <1>1, <3>2
      <4> QED BY <2>2, <3>2, <4>1
    <3> QED BY <3>1, <3>2
  <2>4. at \in 0..Len(list) /\ by \in 0..1
    BY <1>1
  <2> QED BY <2>1, <2>3, <2>4 DEF KeepsEmittedCode
<1>6. CASE Driver
  <2>1. CASE extract_variable \/ compile_next_function \/ all_compiled
    <3>1. UNCHANGED <<heap, list>>
      BY <2>1 DEF extract_variable, compile_next_function, all_compiled, code
    <3> QED BY <1>2, <3>1
  <2>2. CASE extract_function
    <3>1. heap' = Append(heap, new_empty) /\ list' = list
      BY <2>2 DEF extract_function
    <3>2. heap \in Seq(IrNode)
      BY HandlerState
    <3>3. \A id \in 1..n : heap'[id] = heap[id]
      BY <3>1, <3>2
    <3> QED BY <1>2, <3>1, <3>3
  <2>3. CASE emit_entry
    <3>1. AppendsFresh /\ \A id \in 1..n : heap'[id] = heap[id]
      BY <2>3, EntryCode
    <3> QED BY <1>2, <3>1, ListGrown
  <2> QED BY <1>6, <2>1, <2>2, <2>3 DEF Driver
<1>7. CASE Failure
  <2>1. UNCHANGED <<heap, list>>
    BY <1>7 DEF Failure, Fail, UndefinedVariable, UndefinedFunction,
                WrongArgumentCount, MissingReturn, Redefinition, MissingMain, code
  <2> QED BY <1>2, <2>1
<1> QED BY <1>3, <1>4, <1>5, <1>6, <1>7
        DEF Next, CodeGenStep, Returned, HandleNode, BodyHandler, Straight

\* For every program, a node that was emitted changes only when its pending
\* jump is patched or when it is the result of a call that a statement drops,
\* and emitted nodes never change their order (compiler.cpp, every handler
\* that emits code).
THEOREM EmittedCodeKept == Spec => EmittedCodeIsStable
<1>1. IInv /\ CodeInv /\ [Next]_vars => [KeepsEmittedCode]_vars
  BY StepKeepsEmittedCode
<1> QED BY <1>1, CodeInvariance, PTL DEF Spec, EmittedCodeIsStable

-----------------------------------------------------------------------------
(* Slots and the frame.                                                    *)

\* The end of a table and the next free offset are numbers.
LEMMA TablesTyped ==
  ASSUME NEW tables \in Seq(VarTable), NEW t \in 1..Len(tables)
  PROVE  /\ tables[t] \in VarTable
         /\ tables[t].offset \in Int /\ Len(tables[t].vars) \in Nat
         /\ TableEnd(tables[t]) \in Int /\ TableEnd(tables[t]) >= tables[t].offset
<1>1. tables[t] \in VarTable
  OBVIOUS
<1>2. tables[t].offset \in Int /\ tables[t].vars \in Seq(Name)
  BY <1>1 DEF VarTable
<1> QED BY <1>1, <1>2 DEF TableEnd, SLOT

\* Declaring a variable moves no table and never shortens the innermost one.
LEMMA AddVarGrows ==
  ASSUME NEW tables \in Seq(VarTable), tables # <<>>, NEW name \in Name
  PROVE  TableEnd(tables[Len(tables)]) <= TableEnd(add_var(tables, name)[Len(tables)])
<1> DEFINE n == Len(tables)
           new == add_var(tables, name)
<1>1. n \in Nat /\ n \in 1..n /\ tables[n] \in VarTable
  OBVIOUS
<1>2. tables[n].offset \in Int /\ tables[n].vars \in Seq(Name) /\ Len(tables[n].vars) \in Nat
  BY <1>1 DEF VarTable
<1>3. new[n].offset = tables[n].offset
  BY AddVar
<1>4. Len(new[n].vars) \in {Len(tables[n].vars), Len(tables[n].vars) + 1}
  <2>1. CASE Declares(Innermost(tables), name)
    BY <2>1 DEF add_var
  <2>2. CASE ~ Declares(Innermost(tables), name)
    <3>1. new[n].vars = Append(tables[n].vars, name)
      BY <1>1, <2>2 DEF add_var, VarTable
    <3> QED BY <1>2, <3>1
  <2> QED BY <2>1, <2>2
<1> DEFINE before == tables[n]
           after  == new[n]
           k      == Len(before.vars)
           m      == Len(after.vars)
<1>5. before.offset \in Int /\ k \in Nat /\ after.offset = before.offset /\ m \in {k, k + 1}
  BY <1>2, <1>3, <1>4
<1>6. TableEnd(before) = before.offset + 8 * k /\ TableEnd(after) = after.offset + 8 * m
  BY DEF TableEnd, SLOT
<1> HIDE DEF before, after, k, m
<1>7. TableEnd(before) <= TableEnd(after)
  BY <1>5, <1>6
<1> QED BY <1>7 DEF before, after

\* In laid out tables of a function every local lies between RBP and the next
\* free slot.
LEMMA LocalSlots ==
  ASSUME NEW tables \in Seq(VarTable), LaidOut(tables), Len(tables) >= 3,
         NEW t \in 1..Len(tables), NEW i \in 1..Len(tables[t].vars), ~ tables[t].is_global
  PROVE  /\ tables[t].offset + SLOT * (i - 1) \in Int
         /\ tables[t].offset + SLOT * (i - 1) >= SLOT
         /\ tables[t].offset + SLOT * (i - 1) <= get_next_offset(tables) - SLOT
         /\ get_next_offset(tables) \in Int
<1>1. tables[t].offset \in Int /\ Len(tables[t].vars) \in Nat
  BY TablesTyped
<1>2. t # 1
  BY DEF LaidOut
<1>3. t # 2
  <2>1. tables[2].vars = <<>>
    BY DEF LaidOut
  <2>2. \A j \in 1..Len(tables[2].vars) : FALSE
    BY <2>1
  <2> QED BY <2>2
<1>4. t \in 3..Len(tables)
  BY <1>2, <1>3
<1>5. tables[t].offset >= SLOT
  BY <1>4 DEF LaidOut
<1>6. get_next_offset(tables) \in Int /\ TableEnd(tables[t]) <= get_next_offset(tables)
  BY <1>4, NextOffset
<1> DEFINE m == Len(tables[t].vars)
<1>7. m \in Nat /\ i \in 1..m /\ tables[t].offset + SLOT * m <= get_next_offset(tables)
  BY <1>1, <1>6 DEF TableEnd
<1> HIDE DEF m
<1> QED BY <1>1, <1>5, <1>6, <1>7 DEF SLOT

-----------------------------------------------------------------------------
(* The bytes of the locals met so far.                                     *)

\* A block is being compiled where there are statements.
LEMMA InsideBlock ==
  ASSUME IInv, WalkLinked, walk # <<>>, walk[1].node.type = "NFUN",
         Top.node.type \notin {"NFUN", "ARG", "BLOCK"}
  PROVE  Len(name_scope) >= 4
<1> USE DEF COMPILING_LEFT, COMPILED_LEFT, COMPILING_RIGHT, COMPILED_RIGHT
<1> DEFINE n == Len(walk)
<1>1. /\ walk \in Seq(Frame) /\ n \in Nat \ {0} /\ Top = walk[n]
      /\ WalkShape /\ ScopesMatchWalk
  BY HandlerState DEF IInv, Top
<1>2. n # 1
  BY <1>1
<1>3. n > 1 /\ n \in 2..n /\ 2 \in 1..n
  <2> HIDE DEF n
  <2> QED BY <1>1, <1>2
<1>4. walk[2].node.type = "BLOCK"
  BY <1>1, <1>3 DEF WalkShape
<1>5. n # 2
  BY <1>1, <1>4
<1>6. 2 \in 1..(Len(walk) - 1) /\ 3 \in 1..n
  <2>1. n \in Nat /\ n # 2 /\ n > 1
    BY <1>1, <1>3, <1>5
  <2>2. 2 \in 1..(n - 1) /\ 3 \in 1..n
    <3> HIDE DEF n
    <3> QED BY <2>1
  <2> QED BY <2>2
<1>7. walk[2] \in Frame /\ walk[3] \in Frame
  BY <1>1, <1>3, <1>6
<1>8. walk[2].node \in Node /\ walk[3].node \in Node
  BY <1>7 DEF Frame
<1>9. walk[2].stage = 3
  <2>1. \/ walk[2].stage = 1 /\ walk[3].node = walk[2].node.left
        \/ walk[2].stage = 3
    BY <1>6 DEF WalkLinked
  <2>2. walk[2].node.left = NULL
    <3>1. TypeOf(walk[2].node.left) \in LeftChild("BLOCK")
      BY <1>4, <1>8, NodeFields
    <3>2. TypeOf(walk[2].node.left) = "none"
      BY <3>1 DEF LeftChild
    <3>3. walk[2].node.left \in Node \cup {NULL}
      BY <1>8, NodeFields
    <3>4. \A c \in Node : c.type # "none"
      BY NodeFields DEF NodeType, Expression, Statement
    <3> QED BY <3>2, <3>3, <3>4 DEF TypeOf
  <2> QED BY <1>8, <2>1, <2>2, NodeFields
<1>10. Cardinality(OpenBlocks) \in Nat \ {0}
  <2>1. OpenBlocks \subseteq 1..n /\ 2 \in OpenBlocks
    BY <1>3, <1>4, <1>9 DEF OpenBlocks, Open
  <2>2. IsFiniteSet(1..n)
    BY <1>1, FS_Interval
  <2>3. IsFiniteSet(OpenBlocks) /\ Cardinality(OpenBlocks) \in Nat
    BY <2>1, <2>2, FS_Subset, FS_CardinalityType
  <2> QED BY <2>1, <2>3, FS_EmptySet
<1>11. Len(name_scope) >= 3 + Cardinality(OpenBlocks)
  BY <1>1, InsideBody
<1> QED BY <1>10, <1>11, HandlerState

\* The larger of two numbers.
LEMMA Larger ==
  ASSUME NEW a \in Int, NEW b \in Int
  PROVE  max_long(a, b) \in Int /\ max_long(a, b) >= a /\ max_long(a, b) >= b
BY DEF max_long

\* The frame needed for the locals met so far is a number.
LEMMA FrameTyped ==
  ASSUME IInv
  PROVE  /\ stack_frame_size \in Nat /\ get_next_offset(name_scope) \in Int
         /\ FrameSoFar \in Int /\ FrameSoFar >= stack_frame_size
         /\ Len(name_scope) >= 4 => FrameSoFar >= get_next_offset(name_scope)
         /\ Len(name_scope) < 4 => FrameSoFar = stack_frame_size
<1>1. stack_frame_size \in Nat /\ Len(name_scope) \in Nat
  BY HandlerState
<1>2. get_next_offset(name_scope) \in Int
  <2>1. name_scope \in Seq(VarTable) /\ Len(name_scope) \in 1..Len(name_scope)
    BY HandlerState
  <2>2. TableEnd(Innermost(name_scope)) \in Int
    BY <2>1, TablesTyped DEF Innermost
  <2> QED BY <2>2 DEF get_next_offset
<1>3. CASE Len(name_scope) >= 4
  <2>1. FrameSoFar = max_long(stack_frame_size, get_next_offset(name_scope))
    BY <1>3 DEF FrameSoFar
  <2>2. ~ (Len(name_scope) < 4)
    BY <1>1, <1>3
  <2>3. stack_frame_size \in Int
    BY <1>1
  <2> QED BY <1>1, <1>2, <2>1, <2>2, <2>3, Larger
<1>4. CASE ~ (Len(name_scope) >= 4)
  <2>1. FrameSoFar = stack_frame_size
    BY <1>4 DEF FrameSoFar
  <2> QED BY <1>1, <1>2, <1>4, <2>1
<1> QED BY <1>3, <1>4

\* With a scope open the next free offset is a number.
LEMMA OffsetTyped ==
  ASSUME NEW tables \in Seq(VarTable), tables # <<>>
  PROVE  get_next_offset(tables) \in Int
<1>1. Len(tables) \in 1..Len(tables)
  OBVIOUS
<1>2. TableEnd(Innermost(tables)) \in Int
  BY <1>1, TablesTyped DEF Innermost
<1> QED BY <1>2 DEF get_next_offset

\* No handler inside a function makes the frame it needs smaller.
LEMMA FrameGrows ==
  ASSUME IInv, BodyHandler, walk[1].node.type = "NFUN"
  PROVE  FrameSoFar <= FrameSoFar'
<1> USE DEF COMPILING_LEFT, COMPILED_LEFT, COMPILING_RIGHT, COMPILED_RIGHT
<1> DEFINE n == Len(name_scope)
           s == stack_frame_size
           g == get_next_offset(name_scope)
<1>1. /\ s \in Nat /\ g \in Int /\ FrameSoFar \in Int
      /\ n >= 4 => FrameSoFar = max_long(s, g)
      /\ n < 4 => FrameSoFar = s
      /\ n \in Nat /\ name_scope \in Seq(VarTable) /\ name_scope # <<>>
      /\ ScopeLayout /\ WalkShape /\ ScopesMatchWalk /\ walk \in Seq(Frame)
  BY FrameTyped, HandlerState DEF IInv, FrameSoFar
<1>3. walk # <<>>
  BY BodyUnchanged
<1>4. CASE UNCHANGED <<name_scope, stack_frame_size>>
  BY <1>1, <1>4 DEF FrameSoFar
<1>5. CASE compile_NVAR
  <2>1. /\ name_scope' = add_var(name_scope, Top.node.value) /\ s' = s
        /\ Top.node.type = "NVAR"
    BY <1>5 DEF compile_NVAR, Handling
  <2>2. Top.node.value \in Name
    BY <1>1, <1>3, <2>1, TopTyped, NodeFields DEF Named
  <2>3. /\ Len(name_scope') = n /\ name_scope' \in Seq(VarTable)
        /\ name_scope'[n].offset = name_scope[n].offset
        /\ TableEnd(name_scope[n]) <= TableEnd(name_scope'[n])
    BY <1>1, <2>1, <2>2, AddVar, AddVarGrows
  <2>4. g' \in Int /\ g <= g'
    <3>1. g' \in Int
      BY <1>1, <2>3, OffsetTyped
    <3>2. Innermost(name_scope) = name_scope[n] /\ Innermost(name_scope') = name_scope'[n]
      BY <2>3 DEF Innermost
    <3> QED BY <1>1, <2>3, <3>1, <3>2 DEF get_next_offset
  <2>5. CASE n >= 4
    <3>1. FrameSoFar = max_long(s, g) /\ FrameSoFar' = max_long(s, g')
      BY <1>1, <2>1, <2>3, <2>5 DEF FrameSoFar
    <3> HIDE DEF s, g
    <3> QED BY <1>1, <2>1, <2>4, <3>1 DEF max_long
  <2>6. CASE ~ (n >= 4)
    <3>1. FrameSoFar = s /\ FrameSoFar' = s
      BY <1>1, <2>1, <2>3, <2>6 DEF FrameSoFar
    <3> QED BY <1>1, <3>1
  <2> QED BY <2>5, <2>6
<1>6. CASE compile_BLOCK_begin
  <2>1. /\ name_scope' = add_table(name_scope, g) /\ s' = s
        /\ Top.node.type = "BLOCK"
    BY <1>6 DEF compile_BLOCK_begin, Handling
  <2>2. n >= 3
    <3>1. Cardinality(OpenBlocks) \in Nat
      BY <1>1, <1>3, ProceedOpen, BodyUnchanged DEF OpenBlocks
    <3>2. n >= 3 + Cardinality(OpenBlocks)
      BY <1>1, <1>3, <2>1, InsideBody
    <3> HIDE DEF n
    <3> QED BY <1>1, <3>1, <3>2
  <2>3. Len(name_scope') = n + 1 /\ name_scope'[n + 1] = var_table(g, FALSE)
        /\ name_scope' \in Seq(VarTable)
    BY <1>1, <2>1, AddTable
  <2>4. g >= SLOT
    BY <1>1, <2>2, NextOffset DEF ScopeLayout
  <2>5. g' = g
    <3>1. Innermost(name_scope') = var_table(g, FALSE)
      BY <2>3 DEF Innermost
    <3>2. Innermost(name_scope').offset = g /\ Len(Innermost(name_scope').vars) = 0
      BY <3>1 DEF var_table
    <3> HIDE DEF g
    <3>3. get_next_offset(name_scope') = g
      BY <1>1, <2>4, <3>2 DEF get_next_offset, TableEnd, SLOT
    <3> QED BY <3>3 DEF g
  <2>6. FrameSoFar' = max_long(s, g)
    BY <1>1, <2>1, <2>2, <2>3, <2>5 DEF FrameSoFar
  <2>7. FrameSoFar' \in Int /\ FrameSoFar' >= s
    BY <1>1, <2>6, Larger
  <2> QED BY <1>1, <2>2, <2>6, <2>7
<1>7. CASE compile_BLOCK_end
  <2>1. /\ name_scope' = pop_table(name_scope) /\ s' = max_long(s, g)
        /\ Top.node.type = "BLOCK" /\ Top.stage = 3
    BY <1>7 DEF compile_BLOCK_end, Handling
  <2>2. n >= 4
    <3>1. Cardinality(OpenBlocks) \in Nat /\ Cardinality(OpenBlocks) >= 1
      BY <1>1, <1>3, <2>1, ProceedOpen, BodyUnchanged DEF OpenBlocks
    <3>2. n >= 3 + Cardinality(OpenBlocks)
      BY <1>1, <1>3, <2>1, InsideBody
    <3> HIDE DEF n
    <3> QED BY <1>1, <3>1, <3>2
  <2>3. FrameSoFar = s'
    BY <1>1, <2>1, <2>2
  <2>4. Len(name_scope') = n - 1 /\ name_scope' \in Seq(VarTable)
    BY <1>1, <2>1, PopTable
  <2>5. name_scope' # <<>>
    BY <1>1, <2>2, <2>4
  <2>6. g' \in Int
    BY <2>4, <2>5, OffsetTyped
  <2>7. FrameSoFar' \in Int /\ FrameSoFar' >= s'
    <3>1. s' \in Int /\ max_long(s', g') \in Int /\ max_long(s', g') >= s'
      BY <1>1, <2>3, <2>6, Larger
    <3>2. FrameSoFar' = s' \/ FrameSoFar' = max_long(s', g')
      BY DEF FrameSoFar
    <3> QED BY <3>1, <3>2
  <2> QED BY <1>1, <2>3, <2>7
<1>8. CASE compile_NFUN_body
  <2>1. /\ name_scope' = add_table(name_scope, SLOT) /\ s' = s
        /\ Top.node.type = "NFUN" /\ Top.stage = 1
    BY <1>8 DEF compile_NFUN_body, Handling
  <2>2. n = 2
    BY <1>3, <2>1, FunctionScopes
  <2>3. Len(name_scope') = 3
    <3>1. SLOT \in Int
      BY DEF SLOT
    <3>2. Len(name_scope') = n + 1
      BY <1>1, <2>1, <3>1, AddTable
    <3> QED BY <2>2, <3>2
  <2>4. FrameSoFar' = s
    BY <2>1, <2>3 DEF FrameSoFar
  <2> QED BY <1>1, <2>2, <2>4
<1> QED BY <1>4, <1>5, <1>6, <1>7, <1>8
    DEF BodyHandler, Straight, scoping, compile_ASS, compile_VAR, compile_CONST,
        compile_OP_dividend, compile_OP, compile_CALL, compile_nothing, compile_RET,
        compile_SEQ, compile_WHILE_start, compile_WHILE_test, compile_WHILE_end,
        compile_BRANCH_test, compile_BRANCH_else, compile_BRANCH_end

-----------------------------------------------------------------------------
(* The node that is patched.                                               *)

\* A jump patched in the heap that a step extends leads to its first new node.
LEMMA PatchedAhead ==
  ASSUME NEW h \in Seq(IrNode), Len(h) = Len(heap), NEW jump \in 1..Len(h),
         h[jump] = heap[jump], NEW nodes \in Seq(IrNode), nodes # <<>>,
         Patch(h, jump, Len(heap) + 1) \in Seq(IrNode),
         heap' = Patch(h, jump, Len(heap) + 1) \o nodes
  PROVE  \E target \in Fresh : heap'[jump] = [heap[jump] EXCEPT !.jump_target = target]
<1> DEFINE n == Len(heap)
           m == Len(nodes)
           p == Patch(h, jump, n + 1)
<1>1. n \in Nat /\ n + 1 \in Nat /\ m \in Nat \ {0} /\ jump \in 1..n
  OBVIOUS
<1>2. p[jump] = [h[jump] EXCEPT !.jump_target = n + 1]
  <2>1. n + 1 \in Nat
    BY <1>1
  <2> HIDE DEF n
  <2> QED BY <2>1, PatchValues DEF p
<1>3. Len(p) = n
  BY DEF Patch
<1> HIDE DEF p
<1>4. p \in Seq(IrNode) /\ heap' = p \o nodes
  BY DEF p
<1>5. Len(heap') = Len(p) + m /\ \A i \in 1..Len(p) : heap'[i] = p[i]
  BY ONLY <1>4, nodes \in Seq(IrNode), Behind
<1>6. n + 1 \in Fresh
  <2>1. Len(heap') = n + m
    BY <1>3, <1>5
  <2>2. n + 1 \in (n + 1)..(n + m)
    <3> HIDE DEF n, m
    <3> QED BY <1>1
  <2> QED BY <2>1, <2>2 DEF Fresh
<1>7. heap'[jump] = [heap[jump] EXCEPT !.jump_target = n + 1]
  BY <1>1, <1>2, <1>3, <1>5
<1> QED BY <1>6, <1>7

\* A handler that may patch the node on top of the stack does, and makes it
\* jump to a node it adds.
LEMMA PatchesPending ==
  ASSUME IInv, CodeInv, BodyHandler, Patching
  PROVE  \E target \in Fresh :
           heap'[LastPending] = [heap[LastPending] EXCEPT !.jump_target = target]
<1> USE DEF COMPILING_LEFT, COMPILED_LEFT, COMPILING_RIGHT, COMPILED_RIGHT
<1> DEFINE n == Len(heap)
<1>1. walk # <<>>
  BY BodyUnchanged
<1>2. /\ Len(ir_stack) \in 1..Len(ir_stack) /\ LastPending \in 1..n /\ ir_stack # <<>>
      /\ n + 1 \in Nat /\ heap \in Seq(IrNode)
  BY <1>1, PatchedNode, HandlerState
<1>3. ASSUME NEW child, TypeOf(child) = "CALL" => CallCompiled,
             NEW nodes \in Seq(IrNode), nodes # <<>>,
             heap' = Patch(Discarding(child), LastPending, n + 1) \o nodes
      PROVE  \E target \in Fresh :
               heap'[LastPending] = [heap[LastPending] EXCEPT !.jump_target = target]
  <2> DEFINE d == Discarding(child)
  <2>1. d \in Seq(IrNode) /\ Len(d) = n /\ d[LastPending] = heap[LastPending]
    BY <1>2, <1>3, DiscardStep DEF LastPending
  <2>2. Patch(d, LastPending, n + 1) \in Seq(IrNode)
    <3> HIDE DEF n
    <3> QED BY <1>2, <1>3, PatchStep
  <2> HIDE DEF d
  <2>3. heap' = Patch(d, LastPending, n + 1) \o nodes
    BY <1>3 DEF d
  <2> QED BY <1>2, <1>3, <2>1, <2>2, <2>3, PatchedAhead
<1>4. new_empty \in IrNode /\ \A t \in Nat : new_jmp("NONE", t) \in IrNode
  BY InstructionTypes DEF ir_cond_flags
<1>5. CASE compile_WHILE_end
  <2> DEFINE start == ir_stack[Len(ir_stack) - 1]
             nodes == << new_empty, new_jmp("NONE", start) >>
  <2>1. heap' = Patch(heap, LastPending, n + 1) \o nodes
    BY <1>5 DEF compile_WHILE_end
  <2>2. Discarding(NULL) = heap /\ TypeOf(NULL) # "CALL"
    BY DEF Discarding, TypeOf
  <2>3. start \in Nat
    <3>1. Len(Pending(Top)) = 2 /\ Len(ir_stack) = Base(walk, Len(walk)) + Len(Pending(Top))
          /\ Base(walk, Len(walk)) \in Nat
      <4>1. Top.node.type = "WHILE" /\ Top.stage = 3 /\ Top \in Frame
        BY <1>1, <1>5, TopState DEF compile_WHILE_end, Handling
      <4>2. Pending(Top) = << "start", "exit" >>
        BY <4>1, PendingCases
      <4> QED BY <1>1, <4>2, TopState
    <3>2. Len(ir_stack) - 1 \in 1..Len(ir_stack)
      BY <3>1
    <3>3. ir_stack \in Seq(1..Len(heap)) /\ Len(heap) \in Nat
      BY HandlerState
    <3> QED BY <3>2, <3>3
  <2> HIDE DEF start
  <2>4. nodes \in Seq(IrNode) /\ nodes # <<>>
    BY <1>4, <2>3
  <2> HIDE DEF nodes
  <2> QED BY <1>3, <2>1, <2>2, <2>4
<1>6. CASE compile_BRANCH_else
  <2> DEFINE nodes == << new_empty, new_jmp("NONE", NIL) >>
  <2>1. /\ heap' = Patch(Discarding(Top.node.left), LastPending, n + 1) \o nodes
        /\ Top.stage = 1
    BY <1>6 DEF compile_BRANCH_else, Handling
  <2>2. TypeOf(Top.node.left) = "CALL" => CallCompiled
    BY <1>1, <2>1 DEF CallCompiled
  <2>3. nodes \in Seq(IrNode) /\ nodes # <<>>
    BY <1>4 DEF NIL
  <2> HIDE DEF nodes
  <2> QED BY <1>3, <2>1, <2>2, <2>3
<1>7. CASE compile_BRANCH_end
  <2> DEFINE nodes == << new_empty >>
  <2>1. /\ heap' = Patch(Discarding(Top.node.right), LastPending, n + 1) \o nodes
        /\ Top.stage = 3
    BY <1>7 DEF compile_BRANCH_end, Handling, EmitTo
  <2>2. TypeOf(Top.node.right) = "CALL" => CallCompiled
    BY <1>1, <2>1 DEF CallCompiled
  <2>3. nodes \in Seq(IrNode) /\ nodes # <<>>
    BY <1>4
  <2> HIDE DEF nodes
  <2> QED BY <1>3, <2>1, <2>2, <2>3
<1>8. compile_WHILE_end \/ compile_BRANCH_else \/ compile_BRANCH_end
  BY DEF Patching, BodyHandler, Straight, Handling, Acts,
         compile_NVAR, compile_ASS, compile_VAR, compile_CONST,
         compile_OP_dividend, compile_OP, compile_CALL, compile_BLOCK_begin, compile_BLOCK_end,
         compile_NFUN_body, compile_nothing, compile_RET, compile_SEQ, compile_WHILE_start,
         compile_WHILE_test, compile_BRANCH_test
<1> QED BY <1>5, <1>6, <1>7, <1>8

-----------------------------------------------------------------------------
(* The code that is complete.                                              *)

\* The list below a position, and the nodes there, stay as they are.
KeptBelow(start) ==
  \A i \in 1..(start - 1) : list'[i] = list[i] /\ heap'[list[i]] = heap[list[i]]

\* What lies below such a position is the code it was.
LEMMA RegionKept ==
  ASSUME NEW start \in Nat, KeptBelow(start), NEW k, NEW last \in 1..(start - 1),
         NEW first \in 1..last, functions'[k].ir_list_head = functions[k].ir_list_head,
         Region(k, first, last)
  PROVE  Region(k, first, last)'
<1>1. first \in Nat /\ last \in Nat /\ first >= 1 /\ last < start /\ first + 5 <= last
  BY DEF Region
<1>2. ASSUME NEW i \in first..last
      PROVE  list'[i] = list[i] /\ At(i)' = At(i)
  <2>1. i \in 1..(start - 1)
    BY <1>1
  <2> QED BY <2>1 DEF KeptBelow, At
<1>3. /\ first \in first..last /\ last \in first..last /\ first + 3 \in first..last
      /\ last - 2 \in first..last
      /\ \A i \in first..(last - 1) : i \in first..last
  BY <1>1
<1>4. FrameAt(first)' = FrameAt(first)
  BY <1>2, <1>3 DEF FrameAt
<1>5. /\ list'[first] = functions'[k].ir_list_head
      /\ At(last)'.operation = "RET"
      /\ \A i \in first..(last - 1) : At(i)'.operation # "RET"
  BY <1>2, <1>3 DEF Region
<1>6. \A i \in first..last : At(i)'.operation = "JMP" =>
        \E j \in first..last : list'[j] = At(i)'.jump_target
  BY <1>2 DEF Region
<1>7. \A i \in first..last : IsLocalAccess(At(i)') => SlotOf(At(i)') \in SLOT..FrameAt(first)'
  BY <1>2, <1>4 DEF Region
<1>8. FrameAt(first)' > 0 =>
        At(last - 2)' = new_binary("ADD", operand_reg("RSP"), operand_imm(FrameAt(first)'))
  BY <1>2, <1>3, <1>4 DEF Region
<1>9. (first + 5 <= last)
  BY <1>1
<1> QED BY <1>5, <1>6, <1>7, <1>8, <1>9 DEF Region

\* It is still code of its function when the list is longer.
LEMMA PlacedKept ==
  ASSUME NEW start \in Nat, KeptBelow(start), NEW later \in Nat, start <= later,
         NEW k, functions'[k].ir_list_head = functions[k].ir_list_head,
         NEW i, Placed(k, start, i)
  PROVE  Placed(k, later, i)'
<1>1. PICK last \in 1..(start - 1) : \E first \in 1..last :
        Region(k, first, last) /\ i \in first..last
  BY DEF Placed
<1>2. PICK first \in 1..last : Region(k, first, last) /\ i \in first..last
  BY <1>1
<1>3. Region(k, first, last)'
  BY <1>2, RegionKept
<1>4. last \in 1..(later - 1)
  OBVIOUS
<1> QED BY <1>2, <1>3, <1>4 DEF Placed

\* Complete code stays complete while no function ends.
LEMMA FinishedKept ==
  ASSUME NEW start \in Nat, KeptBelow(start), NEW later \in Nat, start <= later,
         Compiled' = Compiled,
         \A k \in Compiled : functions'[k].ir_list_head = functions[k].ir_list_head,
         Finished(start),
         \A i \in start..(later - 1) : At(i)'.operation # "JMP"
  PROVE  Finished(later)'
<1>1. ASSUME NEW k \in Compiled
      PROVE  \E i \in 1..(later - 1) : Placed(k, later, i)'
  <2>1. PICK i \in 1..(start - 1) : Placed(k, start, i)
    BY <1>1 DEF Finished
  <2>2. Placed(k, later, i)'
    BY <1>1, <2>1, PlacedKept
  <2>3. i \in 1..(later - 1)
    OBVIOUS
  <2> QED BY <2>2, <2>3
<1>2. ASSUME NEW i \in 1..(later - 1), At(i)'.operation = "JMP"
      PROVE  \E k \in Compiled : Placed(k, later, i)'
  <2>1. i \in 1..(start - 1)
    BY <1>2
  <2>2. At(i)' = At(i)
    BY <2>1 DEF KeptBelow, At
  <2>3. PICK k \in Compiled : Placed(k, start, i)
    BY <1>2, <2>1, <2>2 DEF Finished
  <2>4. Placed(k, later, i)'
    BY <2>3, PlacedKept
  <2> QED BY <2>4
<1> QED BY <1>1, <1>2 DEF Finished

-----------------------------------------------------------------------------
(* Inside a function, or inside an initializer.                            *)

\* A handler of a body stays where it is.
LEMMA BodyStays ==
  ASSUME IInv, CodeInv, BodyHandler
  PROVE  /\ walk[1].node.type \in {"NVAR", "NFUN"}
         /\ walk[1].node.type = "NFUN" => InFunction /\ InFunction'
         /\ walk[1].node.type = "NVAR" => ~ InFunction /\ ~ InFunction'
         /\ walk' = <<>> \/ walk'[1].node = walk[1].node
         /\ Compiled' = Compiled
<1> USE DEF COMPILING_LEFT, COMPILED_LEFT, COMPILING_RIGHT, COMPILED_RIGHT
<1> DEFINE n == Len(walk)
<1>1. /\ walk \in Seq(Frame) /\ walk # <<>> /\ Proceed /\ UNCHANGED control
      /\ n \in Nat \ {0} /\ Top = walk[n] /\ Top.stage \in 0..3
      /\ WalkShape /\ FunctionOrder /\ next_func \in Nat
  <2>1. walk \in Seq(Frame) /\ walk # <<>> /\ Proceed /\ UNCHANGED control
    BY BodyUnchanged, HandlerState
  <2>2. WalkShape /\ FunctionOrder /\ next_func \in Nat
    BY DEF IInv, CodeInv, TypeOK
  <2> QED BY <2>1, <2>2, TopTyped DEF Top
<1>2. walk[1].node.type \in {"NVAR", "NFUN"}
  BY <1>1 DEF WalkShape
<1>3. walk' = <<>> \/ walk'[1].node = walk[1].node
  <2>1. walk' \in Seq(Frame)
    BY <1>1, ProceedWalk
  <2>2. CASE n = 1 /\ Top.stage = 3
    <3>1. Len(walk') = 0
      BY <1>1, <2>2, ProceedWalk
    <3> QED BY <2>1, <3>1
  <2>3. CASE n = 1 /\ Top.stage # 3
    BY <1>1, <2>3, ProceedWalk
  <2>4. CASE n # 1
    <3>1. 1 \in 1..(n - 1)
      <4> HIDE DEF n
      <4> QED BY <1>1, <2>4
    <3> QED BY <1>1, <3>1, ProceedWalk
  <2> QED BY <2>2, <2>3, <2>4
<1>4. ASSUME walk[1].node.type = "NFUN"
      PROVE  walk[1].stage > 0 /\ walk' # <<>> /\ walk'[1].stage > 0
  <2>1. CASE n = 1
    <3>1. Top.node.type = "NFUN" /\ Top = walk[1]
      BY <1>1, <1>4, <2>1
    <3>2. Top.stage \in {1, 2}
      BY <1>1, <3>1 DEF BodyHandler, Straight, Handling, Acts,
         compile_NVAR, compile_ASS, compile_VAR, compile_CONST,
         compile_OP_dividend, compile_OP, compile_CALL, compile_BLOCK_begin, compile_BLOCK_end,
         compile_NFUN_body, compile_nothing, compile_RET, compile_SEQ, compile_WHILE_start,
         compile_WHILE_test, compile_WHILE_end, compile_BRANCH_test, compile_BRANCH_else,
         compile_BRANCH_end
    <3>3. Len(walk') \in {n, n + 1} /\ walk'[n].stage = Top.stage + 1
      BY <1>1, <3>2, ProceedWalk
    <3> QED BY <2>1, <3>1, <3>2, <3>3
  <2>2. CASE n # 1
    <3>1. n > 1 /\ 1 \in 1..(n - 1)
      <4> HIDE DEF n
      <4> QED BY <1>1, <2>2
    <3>2. walk[1].stage \in {1, 3}
      BY <1>1, <1>4, <3>1 DEF WalkShape
    <3>3. walk'[1] = walk[1] /\ Len(walk') # 0
      BY <1>1, <3>1, ProceedWalk
    <3> QED BY <3>2, <3>3
  <2> QED BY <2>1, <2>2
<1>5. walk[1].node.type = "NVAR" => next_func = 1
  BY <1>1 DEF FunctionOrder
<1>6. Compiled' = Compiled
  <2>1. functions' = functions /\ next_func' = next_func
    BY <1>1 DEF control
  <2>2. ASSUME NEW k \in 1..Len(functions)
        PROVE  ~ (k = next_func - 1 /\ walk = <<>>) /\ ~ (k = next_func - 1 /\ walk' = <<>>)
    BY <1>1, <1>2, <1>4, <1>5
  <2> QED BY <2>1, <2>2 DEF Compiled
<1>7. walk[1].node.type = "NFUN" => InFunction
  BY <1>1, <1>4 DEF InFunction
<1>8. walk[1].node.type = "NFUN" => InFunction'
  BY <1>3, <1>4 DEF InFunction
<1>9. walk[1].node.type = "NVAR" => ~ InFunction
  BY DEF InFunction
<1>10. walk[1].node.type = "NVAR" => ~ InFunction'
  BY <1>3 DEF InFunction
<1> QED BY <1>2, <1>3, <1>6, <1>7, <1>8, <1>9, <1>10

\* While global variables are declared, no function is compiled.
LEMMA NoneCompiled ==
  ASSUME next_func = 1
  PROVE  Compiled = {}
BY DEF Compiled

\* A node that was in the list keeps what it does, or is erased.
LEMMA OldNodes ==
  ASSUME IInv, CodeInv, BodyHandler, NEW i \in 1..Len(list)
  PROVE  /\ list'[i] = list[i]
         /\ \/ At(i)' = At(i)
            \/ CallCompiled /\ i = Len(list) /\ At(i)' = new_empty
            \/ /\ Patching /\ list[i] = LastPending
               /\ At(i).operation = "JMP" /\ At(i).jump_target = NIL
               /\ \E target \in Fresh : At(i)' = [At(i) EXCEPT !.jump_target = target]

<1>1. /\ walk # <<>> /\ IInv' /\ list \in Seq(1..Len(heap))
  <2>1. HandleNode
    BY DEF BodyHandler, Straight, HandleNode
  <2> QED BY <2>1, HandlersKeep, HandlerProceeds, HandlerState
<1>2. AppendsFresh /\ HeapStep
  BY <1>1, HandlersEmit DEF Emission
<1>3. list'[i] = list[i] /\ list[i] \in 1..Len(heap)
  BY <1>1, <1>2, ListGrown
<1>4. At(i) = heap[list[i]] /\ At(i)' = heap'[list[i]]
  BY <1>3 DEF At
<1>5. CASE CallCompiled /\ list[i] = ir_tail /\ heap'[list[i]] = new_empty
  <2>1. Len(list) \in 1..Len(list)
    BY <1>1
  <2>2. i = Len(list)
    BY <1>5, <2>1 DEF CodeInv, ListInv, ir_tail
  <2> QED BY <1>3, <1>4, <1>5, <2>2
<1>6. CASE Patching /\ list[i] = LastPending
  BY <1>1, <1>3, <1>4, <1>6, PatchedNode, PatchesPending
<1> QED BY <1>2, <1>3, <1>4, <1>5, <1>6 DEF HeapStep

\* Of the nodes in the list only those of the function being compiled change.
LEMMA BodyKeepsBelow ==
  ASSUME IInv, CodeInv, BodyHandler, NEW start \in 1..(Len(list) + 1), InFunction, Begun(start)
  PROVE  KeptBelow(start)
<1>1. Len(list) \in Nat /\ start + 2 <= Len(list) /\ walk # <<>>
  BY HandlerState, BodyUnchanged DEF Begun
<1>2. ASSUME NEW i \in 1..(start - 1)
      PROVE  list'[i] = list[i] /\ heap'[list[i]] = heap[list[i]]
  <2>1. i \in 1..Len(list) /\ i < start /\ i # Len(list)
    BY <1>1
  <2>2. ~ (Patching /\ list[i] = LastPending)
    <3>1. ASSUME Patching, list[i] = LastPending PROVE FALSE
      <4>1. Len(ir_stack) \in 1..Len(ir_stack)
        BY <1>1, <3>1, PatchedNode
      <4>2. PICK j \in start..Len(list) : list[j] = LastPending
        BY <4>1 DEF Begun, LastPending
      <4>3. j \in 1..Len(list) /\ i # j
        BY <2>1
      <4> QED BY <2>1, <3>1, <4>2, <4>3 DEF CodeInv, ListInv
    <3> QED BY <3>1
  <2>3. list'[i] = list[i] /\ At(i)' = At(i)
    BY <2>1, <2>2, OldNodes
  <2> QED BY <2>3 DEF At
<1> QED BY <1>2 DEF KeptBelow

\* A handler that emits nodes of a function is inside a block.
LEMMA EmitsInBlock ==
  ASSUME IInv, CodeInv, BodyHandler, walk[1].node.type = "NFUN", Fresh # {}
  PROVE  Len(name_scope) >= 4 /\ Len(name_scope') = Len(name_scope)
<1>1. walk # <<>> /\ name_scope \in Seq(VarTable) /\ name_scope # <<>> /\ WalkLinked
      /\ Top.node \in Node
  BY BodyUnchanged, HandlerState, TopTyped DEF CodeInv
<1>2. ~ UNCHANGED heap
  <2>1. Len(heap) \in Nat
    BY HandlerState
  <2>2. (Len(heap) + 1)..Len(heap) = {}
    BY <2>1
  <2> QED BY <2>2 DEF Fresh
<1>3. CASE Top.node.type \in {"NFUN", "ARG", "BLOCK"}
  BY <1>2, <1>3 DEF code, BodyHandler, Straight, Handling, Acts,
         compile_NVAR, compile_ASS, compile_VAR, compile_CONST,
         compile_OP_dividend, compile_OP, compile_CALL, compile_BLOCK_begin, compile_BLOCK_end,
         compile_NFUN_body, compile_nothing, compile_RET, compile_SEQ, compile_WHILE_start,
         compile_WHILE_test, compile_WHILE_end, compile_BRANCH_test, compile_BRANCH_else,
         compile_BRANCH_end
<1>4. CASE Top.node.type \notin {"NFUN", "ARG", "BLOCK"}
  <2>1. Len(name_scope) >= 4
    BY <1>1, <1>4, InsideBlock
  <2>2. CASE compile_NVAR
    <3>1. name_scope' = add_var(name_scope, Top.node.value) /\ Top.node.type = "NVAR"
      BY <2>2 DEF compile_NVAR, Handling
    <3>2. Top.node.value \in Name
      BY <1>1, <3>1, NodeFields DEF Named
    <3> QED BY <1>1, <2>1, <3>1, <3>2, AddVar
  <2>3. CASE ~ compile_NVAR
    BY <1>4, <2>1, <2>3 DEF scoping, BodyHandler, Straight, Handling,
         compile_ASS, compile_VAR, compile_CONST,
         compile_OP_dividend, compile_OP, compile_CALL, compile_BLOCK_begin, compile_BLOCK_end,
         compile_NFUN_body, compile_nothing, compile_RET, compile_SEQ, compile_WHILE_start,
         compile_WHILE_test, compile_WHILE_end, compile_BRANCH_test, compile_BRANCH_else,
         compile_BRANCH_end
  <2> QED BY <2>2, <2>3
<1> QED BY <1>3, <1>4

\* The locals of new nodes are within the frame as it is now.
LEMMA NewLocals ==
  ASSUME IInv, CodeInv, BodyHandler, walk[1].node.type = "NFUN",
         NEW id \in Fresh, IsLocalAccess(heap'[id])
  PROVE  SlotOf(heap'[id]) \in SLOT..(FrameSoFar' - SLOT)
<1> DEFINE tables == name_scope'
<1>1. /\ IInv' /\ Len(name_scope) >= 4 /\ Len(tables) = Len(name_scope)
      /\ Len(name_scope) \in Nat
  <2>1. HandleNode
    BY DEF BodyHandler, Straight, HandleNode
  <2> QED BY <2>1, HandlersKeep, EmitsInBlock, HandlerState
<1>2. tables \in Seq(VarTable) /\ LaidOut(tables) /\ stack_frame_size' \in Nat
  BY <1>1 DEF IInv, TypeOK, ScopeLayout
<1>3. Ordinary(heap'[id])
  BY <1>1, HandlersEmit DEF Emission, NewNodes
<1>4. FrameSoFar' = max_long(stack_frame_size', get_next_offset(tables))
  BY <1>1 DEF FrameSoFar
<1>5. PICK t \in 1..Len(tables) : \E i \in 1..Len(tables[t].vars) :
        ~ tables[t].is_global /\ SlotOf(heap'[id]) = tables[t].offset + SLOT * (i - 1)
  BY <1>3 DEF Ordinary
<1>6. PICK i \in 1..Len(tables[t].vars) :
        ~ tables[t].is_global /\ SlotOf(heap'[id]) = tables[t].offset + SLOT * (i - 1)
  BY <1>5
<1> DEFINE slot == SlotOf(heap'[id])
           g    == get_next_offset(tables)
           f    == FrameSoFar'
<1> HIDE DEF tables
<1>7. slot \in Int /\ slot >= SLOT /\ slot <= g - SLOT /\ g \in Int
  <2>1. Len(tables) >= 3
    BY <1>1
  <2> QED BY <1>2, <1>6, <2>1, LocalSlots
<1>8. f \in Int /\ f >= g
  <2>1. stack_frame_size' \in Int
    BY <1>2
  <2> QED BY <1>4, <1>7, <2>1, Larger
<1> HIDE DEF slot, g, f
<1>9. slot \in SLOT..(f - SLOT)
  BY <1>7, <1>8 DEF SLOT
<1> QED BY <1>9 DEF slot, f

\* Nodes emitted before are as unfinished as they were, or less.
LEMMA OldUnfinished ==
  ASSUME IInv, CodeInv, BodyHandler, walk[1].node.type = "NFUN",
         NEW start \in 1..(Len(list) + 1), Begun(start), NEW i \in start..Len(list)
  PROVE  Unfinished(At(i), list[i], start)'
<1>1. /\ IInv' /\ walk # <<>> /\ UNCHANGED <<control, func_return>>
      /\ AppendsFresh /\ StackStep /\ Len(list) \in Nat
  <2>1. HandleNode
    BY DEF BodyHandler, Straight, HandleNode
  <2>2. IInv'
    BY <2>1, HandlersKeep
  <2> QED BY <2>2, BodyUnchanged, HandlersEmit, HandlerState DEF Emission
<1>2. i \in 1..Len(list)
  BY <1>1
<1>3. Unfinished(At(i), list[i], start)
  BY DEF Begun
<1>4. list'[i] = list[i]
  BY <1>2, OldNodes
<1>5. Len(list') \in Nat /\ \A j \in start..Len(list) : j \in start..Len(list') /\ list'[j] = list[j]
  <2>1. Len(list') \in Nat /\ Len(list') >= Len(list) /\ \A j \in 1..Len(list) : list'[j] = list[j]
    BY <1>1, ListGrown
  <2> QED BY <1>1, <2>1
<1>6. SLOT..(FrameSoFar - SLOT) \subseteq SLOT..(FrameSoFar' - SLOT)
  <2>1. FrameSoFar \in Int /\ FrameSoFar <= FrameSoFar'
    BY FrameTyped, FrameGrows
  <2>2. FrameSoFar' \in Int
    <3>1. name_scope' \in Seq(VarTable) /\ stack_frame_size' \in Nat
      BY <1>1 DEF IInv, TypeOK
    <3>2. Len(name_scope') >= 4 => name_scope' # <<>>
      BY <3>1
    <3>3. Len(name_scope') >= 4 => get_next_offset(name_scope') \in Int
      BY <3>1, <3>2, OffsetTyped
    <3> QED BY <3>1, <3>3, Larger DEF FrameSoFar
  <2> DEFINE a == FrameSoFar
             b == FrameSoFar'
  <2>3. a \in Int /\ b \in Int /\ a <= b
    BY <2>1, <2>2
  <2> HIDE DEF a, b
  <2>4. \A s \in SLOT..(a - SLOT) : s \in SLOT..(b - SLOT)
    BY <2>3 DEF SLOT
  <2> QED BY <2>4 DEF a, b
<1>7. CASE At(i)' = At(i)
  <2>1. /\ At(i).operation # "RET"
        /\ At(i).operation = "SUB" => At(i).operand1 # operand_reg("RSP")
        /\ IsLocalAccess(At(i)) => SlotOf(At(i)) \in SLOT..(FrameSoFar' - SLOT)
    BY <1>3, <1>6 DEF Unfinished
  <2>2. ASSUME At(i).operation = "JMP"
        PROVE  \/ At(i).jump_target = NIL /\ \E e \in 1..Len(ir_stack') : ir_stack'[e] = list[i]
               \/ At(i).jump_target = func_return'
               \/ \E j \in start..Len(list') : list'[j] = At(i).jump_target
    <3>1. CASE At(i).jump_target = NIL /\ \E e \in 1..Len(ir_stack) : ir_stack[e] = list[i]
      <4>1. PICK e \in 1..Len(ir_stack) : ir_stack[e] = list[i]
        BY <3>1
      <4>2. heap[ir_stack[e]].operation # "NOP"
        BY <2>2, <4>1 DEF At
      <4>3. CASE \E j \in 1..Len(ir_stack') : ir_stack'[j] = ir_stack[e]
        BY <3>1, <4>1, <4>3
      <4>4. CASE Patching /\ ir_stack[e] = LastPending
        <5>1. PICK target \in Fresh :
                heap'[LastPending] = [heap[LastPending] EXCEPT !.jump_target = target]
          BY <4>4, PatchesPending
        <5>2. At(i) = heap[LastPending] /\ At(i)' = heap'[LastPending]
          BY <1>4, <4>1, <4>4 DEF At
        <5>3. At(i) \in IrNode /\ Len(heap) \in Nat
          <6>1. heap \in Seq(IrNode) /\ Len(heap) \in Nat /\ list \in Seq(1..Len(heap))
            BY HandlerState, Zenon
          <6>2. list[i] \in 1..Len(heap)
            BY ONLY <1>2, <6>1
          <6> QED BY ONLY <6>1, <6>2 DEF At
        <5>4. At(i)'.jump_target = target
          BY <5>1, <5>2, <5>3 DEF IrNode
        <5>5. target # NIL
          BY <5>3 DEF Fresh, NIL
        <5> QED BY <1>7, <3>1, <5>4, <5>5
      <4> QED BY <4>1, <4>2, <4>3, <4>4, <1>1 DEF StackStep
    <3>2. CASE At(i).jump_target = func_return
      BY <1>1, <3>2
    <3>3. CASE \E j \in start..Len(list) : list[j] = At(i).jump_target
      BY <1>5, <3>3
    <3> QED BY <1>3, <2>2, <3>1, <3>2, <3>3 DEF Unfinished
  <2> QED BY <1>4, <1>7, <2>1, <2>2 DEF Unfinished
<1>8. CASE At(i)' = new_empty
  <2>1. new_empty.operation = "NOP" /\ ~ IsLocalAccess(new_empty)
    <3>1. {} # {"MEM", "IMM", "REG"}
      OBVIOUS
    <3> QED BY <3>1 DEF new_empty, instruction, IsLocalAccess, operand_none
  <2> QED BY <1>8, <2>1 DEF Unfinished
<1>9. CASE /\ At(i).operation = "JMP"
           /\ \E target \in Fresh : At(i)' = [At(i) EXCEPT !.jump_target = target]
  <2>1. PICK target \in Fresh : At(i)' = [At(i) EXCEPT !.jump_target = target]
    BY <1>9
  <2>2. At(i) \in IrNode
    <3>1. list \in Seq(1..Len(heap)) /\ heap \in Seq(IrNode)
      BY HandlerState
    <3>2. i \in 1..Len(list)
      BY <1>2
    <3>3. list[i] \in 1..Len(heap)
      BY ONLY <3>1, <3>2, ElementOfSeq, Zenon
    <3>4. heap[list[i]] \in IrNode
      BY ONLY <3>1, <3>3, ElementOfSeq, Zenon
    <3> QED BY ONLY <3>4 DEF At
  <2>3. /\ At(i)'.operation = "JMP" /\ At(i)'.operand1 = At(i).operand1
        /\ At(i)'.jump_target = target
    BY <1>9, <2>1, <2>2 DEF IrNode
  <2>4. \E j \in start..Len(list') : list'[j] = target
    <3>1. PICK j \in (Len(list) + 1)..Len(list') : list'[j] = target
      BY <1>1, ListGrown
    <3>2. j \in start..Len(list')
      BY <1>1, <1>5
    <3> QED BY <3>1, <3>2
  <2>5. IsLocalAccess(At(i)') => SlotOf(At(i)') \in SLOT..(FrameSoFar' - SLOT)
    BY <1>3, <1>6, <2>3 DEF Unfinished, IsLocalAccess, SlotOf
  <2> QED BY <2>3, <2>4, <2>5 DEF Unfinished
<1> QED BY <1>2, <1>7, <1>8, <1>9, OldNodes

\* A handler of a body goes on with the function's code.
LEMMA BodyGoesOn ==
  ASSUME IInv, CodeInv, BodyHandler, walk[1].node.type = "NFUN",
         NEW start \in 1..(Len(list) + 1), Begun(start)
  PROVE  Begun(start)'
<1> DEFINE n == Len(list)
<1>1. /\ IInv' /\ walk # <<>> /\ UNCHANGED <<control, func_return>>
      /\ AppendsFresh /\ StackStep /\ HeapStep /\ NewNodes /\ n \in Nat
  <2>1. HandleNode
    BY DEF BodyHandler, Straight, HandleNode
  <2>2. IInv'
    BY <2>1, HandlersKeep
  <2> QED BY <2>2, BodyUnchanged, HandlersEmit, HandlerState DEF Emission
<1>2. InFunction /\ InFunction'
  BY BodyStays
<1>3. /\ Len(list') \in Nat /\ Len(list') >= n
      /\ \A j \in 1..n : list'[j] = list[j]
      /\ \A j \in (n + 1)..Len(list') : list'[j] \in Fresh
      /\ \A id \in Fresh : \E j \in (n + 1)..Len(list') : list'[j] = id
  BY <1>1, ListGrown
<1>4. /\ start + 2 <= n
      /\ list[start] = functions[next_func - 1].ir_list_head
      /\ At(start + 2).operation = "MOV"
      /\ \E e \in 1..Len(ir_stack) : ir_stack[e] = list[start + 2]
  BY <1>2 DEF Begun
<1>5. start \in 1..n /\ start + 2 \in 1..n
  BY <1>1, <1>4
<1>6. At(start + 2)'.operation = "MOV"
  <2>1. ~ (CallCompiled /\ start + 2 = n)
    <3>1. CallCompiled /\ start + 2 = n => At(start + 2) = new_push_reg("RAX")
      BY DEF CodeInv, CallAtTail, ErasedCall, At, ir_tail
    <3> QED BY <1>4, <3>1 DEF new_push_reg, new_unary, new_binary, instruction
  <2> QED BY <1>4, <1>5, <2>1, OldNodes
<1>7. \E e \in 1..Len(ir_stack') : ir_stack'[e] = list'[start + 2]
  <2>1. PICK e \in 1..Len(ir_stack) : ir_stack[e] = list[start + 2]
    BY <1>4
  <2>2. heap[ir_stack[e]].operation = "MOV"
    BY <1>4, <2>1 DEF At
  <2>3. ~ (Patching /\ ir_stack[e] = LastPending)
    BY <1>1, <2>2, PatchedNode
  <2>4. \E j \in 1..Len(ir_stack') : ir_stack'[j] = ir_stack[e]
    BY <1>1, <2>2, <2>3 DEF StackStep
  <2> QED BY <1>3, <1>5, <2>1, <2>4
<1>8. list'[start] = functions'[next_func' - 1].ir_list_head /\ start + 2 <= Len(list')
  BY <1>1, <1>3, <1>4, <1>5 DEF control
<1>9. \A e \in 1..Len(ir_stack') : \E j \in start..Len(list') : list'[j] = ir_stack'[e]
  <2> SUFFICES ASSUME NEW e \in 1..Len(ir_stack')
               PROVE  \E j \in start..Len(list') : list'[j] = ir_stack'[e]
    OBVIOUS
  <2>1. CASE ir_stack'[e] \in Fresh
    <3>1. PICK j \in (n + 1)..Len(list') : list'[j] = ir_stack'[e]
      BY <1>3, <2>1
    <3>2. j \in start..Len(list')
      BY <1>3, <1>5
    <3> QED BY <3>1, <3>2
  <2>2. CASE \E i \in 1..Len(ir_stack) : ir_stack'[e] = ir_stack[i]
    <3>1. PICK j \in start..n : list[j] = ir_stack'[e]
      BY <2>2 DEF Begun
    <3>2. j \in start..Len(list') /\ j \in 1..n
      BY <1>1, <1>3, <1>5
    <3> QED BY <1>3, <3>1, <3>2
  <2> QED BY <1>1, <2>1, <2>2 DEF StackStep
<1>10. ASSUME NEW id \in Fresh
       PROVE  Unfinished(heap[id], id, start)'
  <2>1. Ordinary(heap'[id]) /\ (heap'[id].operation = "JMP" => NewJump(heap'[id], id))
    BY <1>1 DEF NewNodes
  <2>2. IsLocalAccess(heap'[id]) => SlotOf(heap'[id]) \in SLOT..(FrameSoFar' - SLOT)
    BY NewLocals
  <2>3. ASSUME \E i \in 1..Len(ir_stack) : ir_stack[i] = heap'[id].jump_target
        PROVE  \E j \in start..Len(list') : list'[j] = heap'[id].jump_target
    <3>1. PICK j \in start..n : list[j] = heap'[id].jump_target
      BY <2>3 DEF Begun
    <3>2. j \in start..Len(list') /\ j \in 1..n
      BY <1>1, <1>3, <1>5
    <3> QED BY <1>3, <3>1, <3>2
  <2>4. heap'[id].operation = "JMP" =>
          \/ heap'[id].jump_target = NIL /\ \E e \in 1..Len(ir_stack') : ir_stack'[e] = id
          \/ heap'[id].jump_target = func_return'
          \/ \E j \in start..Len(list') : list'[j] = heap'[id].jump_target
    BY <1>1, <2>1, <2>3 DEF NewJump
  <2> QED BY <2>1, <2>2, <2>4 DEF Unfinished, Ordinary
<1>11. ASSUME NEW i \in start..Len(list')
       PROVE  Unfinished(At(i), list[i], start)'
  <2>1. CASE i <= n
    <3>1. i \in start..n
      BY <1>1, <1>3, <2>1
    <3> QED BY <3>1, OldUnfinished
  <2>2. CASE ~ (i <= n)
    <3>1. i \in (n + 1)..Len(list')
      BY <1>1, <1>3, <2>2
    <3>2. PICK id \in Fresh : list'[i] = id
      BY <1>3, <3>1
    <3>3. Unfinished(heap[id], id, start)'
      BY <1>10
    <3> QED BY <3>2, <3>3 DEF Unfinished, At
  <2> QED BY <2>1, <2>2
<1> QED BY <1>2, <1>6, <1>7, <1>8, <1>9, <1>11 DEF Begun

\* Outside functions, what is put behind the code of the functions does not
\* disturb it if it does not jump.
LEMMA OutsideKept ==
  ASSUME Len(list) \in Nat, Len(list') \in Nat, Len(list) <= Len(list'),
         KeptBelow(Len(list) + 1),
         Compiled' = Compiled,
         \A k \in Compiled : functions'[k].ir_list_head = functions[k].ir_list_head,
         ~ InFunction, ~ InFunction', ir_stack' = <<>>,
         \A i \in (Len(list) + 1)..Len(list') : At(i)'.operation # "JMP",
         NEW start, CodeFrom(start)
  PROVE  \E later \in 1..(Len(list') + 1) : CodeFrom(later)'
<1> DEFINE n == Len(list)
           m == Len(list')
           later == m + 1
<1>1. n \in Nat /\ m \in Nat /\ n <= m /\ start = n + 1 /\ Finished(n + 1)
  BY DEF CodeFrom, Begun
<1>2. Len(ir_stack') = 0
  OBVIOUS
<1> HIDE DEF n, m
<1>3. /\ later \in Nat /\ n + 1 \in Nat /\ n + 1 <= later /\ later - 1 = m /\ later \in 1..(m + 1)
      /\ \A i \in later..m : FALSE
      /\ \A e \in 1..0 : FALSE
  BY <1>1
<1>4. KeptBelow(n + 1) /\ \A i \in (n + 1)..m : At(i)'.operation # "JMP"
  BY DEF n, m
<1>5. \A i \in (n + 1)..(later - 1) : At(i)'.operation # "JMP"
  BY <1>3, <1>4
<1> SUFFICES ASSUME NEW k \in Nat, k = m + 1
             PROVE  CodeFrom(k)'
  BY <1>3 DEF m
<1>6. Finished(k)'
  BY <1>1, <1>3, <1>4, <1>5, FinishedKept
<1>7. Begun(k)'
  BY <1>2, <1>3 DEF Begun, m
<1> QED BY <1>6, <1>7 DEF CodeFrom

\* The code of the initializers does not jump.
LEMMA InitializerKeeps ==
  ASSUME IInv, CodeInv, BodyHandler, walk[1].node.type = "NVAR",
         NEW start, CodeFrom(start)
  PROVE  \E later \in 1..(Len(list') + 1) : CodeFrom(later)'
<1>1. /\ walk \in Seq(Frame) /\ walk # <<>> /\ WalkShape /\ FunctionOrder
      /\ Len(list) \in Nat /\ UNCHANGED control /\ ir_stack \in Seq(1..Len(heap))
  BY BodyUnchanged, HandlerState DEF IInv, CodeInv
<1>2. \A i \in 1..Len(walk) : walk[i].node.type \in ExpressionPart \cup {"NVAR"}
  BY <1>1 DEF WalkShape
<1>3. Top.node.type \notin {"RET", "SEQ", "WHILE", "BRANCH"}
  <2>1. Len(walk) \in 1..Len(walk)
    BY <1>1
  <2> QED BY <1>2, <2>1 DEF Top, ExpressionPart, Expression
<1>4. AppendsFresh /\ NewNodes
  <2>1. HandleNode
    BY DEF BodyHandler, Straight, HandleNode
  <2> QED BY <2>1, HandlersKeep, HandlersEmit DEF Emission
<1>5. Len(list') \in Nat /\ Len(list) <= Len(list')
  BY <1>4, ListGrown
<1>6. KeptBelow(Len(list) + 1)
  <2>1. ASSUME NEW i \in 1..((Len(list) + 1) - 1)
        PROVE  list'[i] = list[i] /\ heap'[list[i]] = heap[list[i]]
    <3>1. i \in 1..Len(list)
      BY <1>1
    <3>2. AppendsFresh /\ HeapStep
      <4>1. HandleNode
        BY DEF BodyHandler, Straight, HandleNode
      <4> QED BY <4>1, HandlersKeep, HandlersEmit DEF Emission
    <3>3. list[i] \in 1..Len(heap) /\ list'[i] = list[i]
      <4>1. list \in Seq(1..Len(heap))
        BY HandlerState
      <4> QED BY <3>1, <4>1, OldNodes
    <3> QED BY <1>3, <3>2, <3>3 DEF HeapStep, Patching
  <2> QED BY <2>1 DEF KeptBelow
<1>7. ir_stack' = <<>>
  <2>1. \A i \in 1..Len(walk) : walk[i].node.type \notin {"NFUN", "BLOCK", "WHILE", "BRANCH"}
    BY <1>2 DEF ExpressionPart, Expression
  <2>2. \A type \in {"NFUN", "WHILE", "BRANCH"}, stage \in 1..3 : Cardinality(Open(type, stage)) = 0
    BY <2>1, NothingOpen
  <2>3. Len(ir_stack) = 0
    BY <2>2 DEF IInv, PatchStack, COMPILED_LEFT, COMPILING_RIGHT
  <2>4. ir_stack = <<>>
    BY <1>1, <2>3
  <2>5. UNCHANGED ir_stack
    BY <1>3 DEF BodyHandler, Straight, Handling,
         compile_NVAR, compile_ASS, compile_VAR, compile_CONST,
         compile_OP_dividend, compile_OP, compile_CALL, compile_BLOCK_begin, compile_BLOCK_end,
         compile_NFUN_body, compile_nothing, compile_RET, compile_SEQ, compile_WHILE_start,
         compile_WHILE_test, compile_WHILE_end, compile_BRANCH_test, compile_BRANCH_else,
         compile_BRANCH_end
  <2> QED BY <2>4, <2>5
<1>8. \A i \in (Len(list) + 1)..Len(list') : At(i)'.operation # "JMP"
  <2> SUFFICES ASSUME NEW i \in (Len(list) + 1)..Len(list') PROVE At(i)'.operation # "JMP"
    OBVIOUS
  <2>1. list'[i] \in Fresh
    BY <1>4, ListGrown
  <2> QED BY <1>3, <1>4, <2>1 DEF NewNodes, NewJump, At
<1>9. ~ InFunction /\ ~ InFunction' /\ Compiled' = Compiled /\ functions' = functions
  BY <1>1, BodyStays DEF control
<1> QED BY <1>1, <1>5, <1>6, <1>7, <1>8, <1>9, OutsideKept

\* Handlers of a body keep the code of the functions in its places.
LEMMA BodyKeepsPlaces ==
  ASSUME IInv, CodeInv, BodyHandler, NEW start \in 1..(Len(list) + 1), CodeFrom(start)
  PROVE  \E later \in 1..(Len(list') + 1) : CodeFrom(later)'
<1>1. CASE walk[1].node.type = "NVAR"
  BY <1>1, InitializerKeeps
<1>2. CASE walk[1].node.type = "NFUN"
  <2>1. InFunction /\ Finished(start) /\ Begun(start)
    BY <1>2, BodyStays DEF CodeFrom
  <2>2. KeptBelow(start)
    BY <2>1, BodyKeepsBelow
  <2>3. Begun(start)'
    BY <1>2, <2>1, BodyGoesOn
  <2>4. Compiled' = Compiled /\ functions' = functions
    BY BodyStays, BodyUnchanged DEF control
  <2>5. start \in Nat /\ start <= start /\ \A i \in start..(start - 1) : FALSE
    BY HandlerState
  <2>6. Finished(start)'
    BY <2>1, <2>2, <2>4, <2>5, FinishedKept
  <2>7. start \in 1..(Len(list') + 1)
    <3>1. InFunction' /\ Len(list') \in Nat
      <4>1. HandleNode
        BY DEF BodyHandler, Straight, HandleNode
      <4>2. AppendsFresh
        BY <4>1, HandlersKeep, HandlersEmit DEF Emission
      <4> QED BY <1>2, <4>2, BodyStays, ListGrown
    <3>2. start + 2 <= Len(list')
      BY <2>3, <3>1 DEF Begun
    <3> QED BY <3>1, <3>2
  <2> QED BY <2>3, <2>6, <2>7 DEF CodeFrom
<1> QED BY <1>1, <1>2, BodyStays

\* A new function's code begins behind all other.
LEMMA PrologueKeepsPlaces ==
  ASSUME IInv, CodeInv, compile_NFUN_begin, NEW start \in 1..(Len(list) + 1), CodeFrom(start)
  PROVE  \E later \in 1..(Len(list') + 1) : CodeFrom(later)'
<1> USE DEF COMPILING_LEFT, COMPILED_LEFT, COMPILING_RIGHT, COMPILED_RIGHT
<1> DEFINE n == Len(list)
           h == Len(heap)
           head == functions[next_func - 1].ir_list_head
           mov == new_binary("MOV", operand_reg("RBP"), operand_reg("RSP"))
<1>1. /\ walk \in Seq(Frame) /\ walk # <<>> /\ Len(walk) = 1 /\ Top = walk[1] /\ Proceed
      /\ UNCHANGED control /\ Top.node.type = "NFUN" /\ Top.stage = 0
      /\ \A id \in 1..h : heap'[id] = heap[id]
      /\ heap'[h + 1] = new_push_reg("RBP") /\ heap'[h + 2] = mov
      /\ Len(list') = n + 3 /\ \A i \in 1..n : list'[i] = list[i]
      /\ list'[n + 1] = head /\ list'[n + 2] = h + 1 /\ list'[n + 3] = h + 2
      /\ ir_stack' = Append(ir_stack, h + 2)
  BY PrologueCode, HandlerState
<1>2. n \in Nat /\ h \in Nat /\ list \in Seq(1..h) /\ ir_stack \in Seq(1..h)
  BY HandlerState
<1>3. ~ InFunction /\ InFunction'
  <2>1. ~ InFunction
    BY <1>1 DEF InFunction
  <2>2. walk' \in Seq(Frame) /\ Len(walk') \in {1, 2} /\ walk'[1].node = Top.node
        /\ walk'[1].stage = 1
    BY <1>1, ProceedWalk
  <2>3. walk' # <<>>
    BY <2>2
  <2> QED BY <1>1, <2>1, <2>2, <2>3 DEF InFunction
<1>4. Compiled' = Compiled /\ functions' = functions /\ next_func' = next_func
  <2>1. functions' = functions /\ next_func' = next_func /\ walk' # <<>>
    BY <1>1, <1>3 DEF control, InFunction
  <2> QED BY <1>1, <2>1 DEF Compiled
<1>5. ir_stack = <<>>
  <2>1. WalkShape /\ PatchStack
    BY DEF IInv
  <2>2. \A type \in {"NFUN", "WHILE", "BRANCH"}, stage \in 1..3 : Cardinality(Open(type, stage)) = 0
    BY <1>1, <2>1, AtFunction
  <2>3. Len(ir_stack) = 0
    BY <2>1, <2>2 DEF PatchStack
  <2> QED BY <1>2, <2>3
<1>6. Len(ir_stack') = 1 /\ ir_stack'[1] = h + 2
  BY <1>1, <1>2, <1>5
<1>7. heap'[head] = new_empty
  <2>1. next_func - 1 \in 1..Len(functions) /\ head \in 1..h
    BY <1>1, FunctionCompiled
  <2>2. Waiting(next_func - 1)
    BY <1>1 DEF Waiting
  <2>3. heap[head] = new_empty
    BY <2>1, <2>2 DEF CodeInv, ListInv
  <2> QED BY <1>1, <2>1, <2>3
<1>8. start = n + 1 /\ Finished(n + 1)
  BY <1>3 DEF CodeFrom, Begun
<1>9. KeptBelow(n + 1)
  <2>1. ASSUME NEW i \in 1..((n + 1) - 1) PROVE list'[i] = list[i] /\ heap'[list[i]] = heap[list[i]]
    <3>1. i \in 1..n
      BY <1>2
    <3>2. list[i] \in 1..h
      BY <1>2, <3>1
    <3> QED BY <1>1, <3>1, <3>2
  <2> QED BY <2>1 DEF KeptBelow
<1> HIDE DEF n, h, head
<1>10. start \in Nat /\ Finished(start)'
  <2>1. start \in Nat /\ start <= start /\ \A i \in start..(start - 1) : FALSE
    BY <1>2, <1>8
  <2>2. Finished(start) /\ KeptBelow(start)
    BY <1>8, <1>9
  <2> QED BY <1>4, <2>1, <2>2, FinishedKept
<1>11. /\ list'[start] = head /\ list'[start + 1] = h + 1 /\ list'[start + 2] = h + 2
       /\ Len(list') = start + 2
       /\ \A i \in start..(start + 2) : i = start \/ i = start + 1 \/ i = start + 2
  <2>1. /\ start + 1 = n + 2 /\ start + 2 = n + 3
        /\ \A i \in start..(start + 2) : i = start \/ i = start + 1 \/ i = start + 2
    BY <1>2, <1>8
  <2> QED BY <1>1, <1>8, <2>1 DEF n, h, head
<1>12. /\ heap'[h + 1] = new_push_reg("RBP") /\ heap'[h + 2] = mov
       /\ heap'[head] = new_empty
  BY <1>1, <1>7 DEF h, head
<1>13. /\ new_push_reg("RBP").operation = "PUSH" /\ ~ IsLocalAccess(new_push_reg("RBP"))
       /\ mov.operation = "MOV" /\ ~ IsLocalAccess(mov)
       /\ new_empty.operation = "NOP" /\ ~ IsLocalAccess(new_empty)
  <2>1. {"REG"} # {"MEM", "IMM", "REG"} /\ {} # {"MEM", "IMM", "REG"}
    <3>1. "MEM" \notin {"REG"} /\ "MEM" \in {"MEM", "IMM", "REG"} /\ "MEM" \notin {}
      OBVIOUS
    <3> QED BY <3>1
  <2> QED BY <2>1 DEF new_push_reg, new_unary, new_binary, new_empty, instruction,
                      IsLocalAccess, operand_none, operand_reg
<1> HIDE DEF mov
<1>14. At(start)' = new_empty /\ At(start + 1)' = new_push_reg("RBP") /\ At(start + 2)' = mov
  BY <1>11, <1>12 DEF At
<1>15. \A i \in start..Len(list') : Unfinished(At(i), list[i], start)'
  <2> SUFFICES ASSUME NEW i \in start..Len(list') PROVE Unfinished(At(i), list[i], start)'
    OBVIOUS
  <2>1. At(i)' = new_empty \/ At(i)' = new_push_reg("RBP") \/ At(i)' = mov
    BY <1>11, <1>14
  <2>2. At(i)'.operation \notin {"RET", "SUB", "JMP"} /\ ~ IsLocalAccess(At(i)')
    BY <1>13, <2>1
  <2> QED BY <2>2 DEF Unfinished
<1>16. \A e \in 1..Len(ir_stack') : \E j \in start..Len(list') : list'[j] = ir_stack'[e]
  <2>1. \A e \in 1..Len(ir_stack') : e = 1
    BY <1>6
  <2>2. start + 2 \in start..Len(list')
    BY <1>10, <1>11
  <2> QED BY <1>6, <1>11, <2>1, <2>2 DEF h
<1>17. Begun(start)'
  <2>1. start + 2 <= Len(list')
    BY <1>10, <1>11
  <2>2. list'[start] = functions'[next_func' - 1].ir_list_head
    BY <1>4, <1>11 DEF head
  <2>3. At(start + 2)'.operation = "MOV"
    BY <1>13, <1>14
  <2>4. \E e \in 1..Len(ir_stack') : ir_stack'[e] = list'[start + 2]
    <3>1. 1 \in 1..Len(ir_stack')
      BY <1>6
    <3> QED BY <1>6, <1>11, <3>1 DEF h
  <2> QED BY <1>3, <1>15, <1>16, <2>1, <2>2, <2>3, <2>4 DEF Begun
<1>18. start \in 1..(Len(list') + 1)
  BY <1>10, <1>11
<1> QED BY <1>10, <1>17, <1>18 DEF CodeFrom

-----------------------------------------------------------------------------
(* The end of a function.                                                  *)

Create(frame)  == new_binary("SUB", operand_reg("RSP"), operand_imm(frame))
Destroy(frame) == new_binary("ADD", operand_reg("RSP"), operand_imm(frame))

\* The frame is made right behind the prologue.
LEMMA EpilogueFrame ==
  ASSUME IInv, CodeInv, compile_NFUN_end, NEW start \in 1..(Len(list) + 1), Begun(start)
  PROVE  /\ InFunction
         /\ start + 2 <= Len(list)
         /\ list[start] = functions[next_func - 1].ir_list_head
         /\ list[start + 2] = LastPending
         /\ \A e \in 1..Len(ir_stack) : ir_stack[e] = LastPending
         /\ func_return \in 1..Len(heap) /\ heap'[func_return] = new_empty
<1>1. /\ walk # <<>> /\ Top = walk[1] /\ Top.node.type = "NFUN" /\ Top.stage = COMPILED_RIGHT
      /\ Len(ir_stack) = 1 /\ LastPending = ir_stack[1] /\ func_return \in 1..Len(heap)
  BY EpilogueState
<1>2. InFunction
  BY <1>1 DEF InFunction, COMPILED_RIGHT, COMPILING_LEFT
<1>3. \A e \in 1..Len(ir_stack) : ir_stack[e] = LastPending
  <2>1. \A e \in 1..1 : e = 1
    OBVIOUS
  <2> QED BY <1>1, <2>1
<1>4. heap'[func_return] = new_empty
  <2>1. heap[func_return] = new_empty
    BY <1>1, HandlerState DEF CodeInv, ListInv, NIL
  <2>2. \A id \in 1..Len(heap) : heap'[id] = heap[id]
    BY EpilogueCode
  <2> QED BY <1>1, <2>1, <2>2
<1> QED BY <1>1, <1>2, <1>3, <1>4 DEF Begun

\* What the function's code is made of in the end, from its head to its return.
FunctionCode(start, frame, last) ==
  /\ last \in Nat /\ start + 5 <= last
  /\ KeptBelow(start)
  /\ list'[start] = functions[next_func - 1].ir_list_head
  /\ \A i \in start..last :
       \/ /\ i # last
          /\ \E j \in start..Len(list) : list'[i] = list[j] /\ At(i)' = At(j)
       \/ i # last /\ At(i)' = new_empty
       \/ i # last /\ At(i)' = new_pop_reg("RBP")
       \/ i # last /\ frame > 0 /\ At(i)' \in {Create(frame), Destroy(frame)}
       \/ i = last /\ At(i)' = new_ret
  /\ \A j \in start..Len(list) : \E i \in start..last : list'[i] = list[j]
  /\ \E i \in start..last : list'[i] = func_return
  /\ frame > 0 => At(start + 3)' = Create(frame) /\ At(last - 2)' = Destroy(frame)

\* That is what the epilogue makes it.
LEMMA EpilogueNodes ==
  ASSUME IInv, CodeInv, compile_NFUN_end, NEW start \in 1..(Len(list) + 1), Begun(start),
         NEW frame \in Nat, frame = stack_frame_size - SLOT, NEW last, last = Len(list')
  PROVE  FunctionCode(start, frame, last)
<1> DEFINE n == Len(heap)
           l == Len(list)
<1>1. PICK at \in 1..l, by \in {0, 1} :
        /\ list[at] = LastPending
        /\ by = (IF frame > 0 THEN 1 ELSE 0)
        /\ Len(heap') = n + 2 * by + 2
        /\ \A id \in 1..n : heap'[id] = heap[id]
        /\ \A i \in 1..at : list'[i] = list[i]
        /\ \A i \in (at + 1)..l : list'[i + by] = list[i]
        /\ list'[l + by + 1] = func_return
        /\ by = 1 => /\ list'[at + 1] = n + 1 /\ heap'[n + 1] = Create(frame)
                     /\ list'[l + by + 2] = n + 2 /\ heap'[n + 2] = Destroy(frame)
        /\ Len(list') = l + by + by + 3
        /\ list'[l + by + by + 2] = n + 2 * by + 1
        /\ heap'[n + 2 * by + 1] = new_pop_reg("RBP")
        /\ list'[l + by + by + 3] = n + 2 * by + 2
        /\ heap'[n + 2 * by + 2] = new_ret
  BY EpilogueCode DEF Create, Destroy
<1>2. /\ n \in Nat /\ l \in Nat /\ list \in Seq(1..n) /\ start \in Nat /\ start >= 1
      /\ start + 2 <= l /\ heap'[func_return] = new_empty
      /\ list[start] = functions[next_func - 1].ir_list_head
  BY EpilogueFrame, HandlerState
<1>3. at = start + 2
  <2>1. list[start + 2] = LastPending
    BY EpilogueFrame
  <2>2. start + 2 \in 1..l
    <3> HIDE DEF l
    <3> QED BY <1>2
  <2>3. \A i, j \in 1..l : list[i] = list[j] => i = j
    BY DEF CodeInv, ListInv
  <2> HIDE DEF l
  <2> QED BY <1>1, <2>1, <2>2, <2>3
<1>4. /\ frame > 0 => by = 1 /\ last = l + 5
      /\ ~ (frame > 0) => by = 0 /\ last = l + 3
  BY <1>1, <1>2
<1>5. \A j \in 1..l : list[j] \in 1..n /\ At(j) = heap[list[j]] /\ heap'[list[j]] = heap[list[j]]
  <2>1. ASSUME NEW j \in 1..l PROVE list[j] \in 1..n
    <3>1. list \in Seq(1..n)
      BY <1>2, Zenon
    <3>2. j \in 1..Len(list)
      OBVIOUS
    <3> HIDE DEF n, l
    <3> QED BY <3>1, <3>2, ElementOfSeq, Zenon
  <2> QED BY <1>1, <2>1 DEF At
<1> HIDE DEF n, l
<1>6. last \in Nat /\ start + 5 <= last
  BY <1>2, <1>4
<1>7. KeptBelow(start)
  <2>1. \A i \in 1..(start - 1) : i \in 1..l /\ i \in 1..at
    BY <1>2, <1>3
  <2> QED BY <1>1, <1>5, <2>1 DEF KeptBelow
<1>8. list'[start] = functions[next_func - 1].ir_list_head
  <2>1. start \in 1..at
    BY <1>2, <1>3
  <2> QED BY <1>1, <1>2, <2>1
<1>9. ASSUME NEW j \in start..l
      PROVE  /\ j \in 1..l
             /\ j <= at => list'[j] = list[j] /\ j \in start..last /\ j # last
             /\ j > at => list'[j + by] = list[j] /\ j + by \in start..last /\ j + by # last
  <2>1. /\ j \in 1..l
        /\ j <= at => j \in 1..at /\ j \in start..last /\ j # last
        /\ j > at => j \in (at + 1)..l /\ j + by \in start..last /\ j + by # last
    BY <1>2, <1>3, <1>4
  <2> QED BY <1>1, <2>1
<1>10. \A j \in start..l : \E i \in start..last : list'[i] = list[j]
  <2> SUFFICES ASSUME NEW j \in start..l PROVE \E i \in start..last : list'[i] = list[j]
    OBVIOUS
  <2>1. j <= at \/ j > at
    BY <1>2, <1>3
  <2> QED BY <1>9, <2>1
<1>11. \E i \in start..last : list'[i] = func_return
  <2>1. l + by + 1 \in start..last
    <3> HIDE DEF l
    <3>1. by \in {0, 1} /\ l \in Nat /\ start \in Nat /\ start + 2 <= l
      BY <1>2
    <3>2. (by = 1 /\ last = l + 5) \/ (by = 0 /\ last = l + 3)
      BY <1>4
    <3> QED BY ONLY <3>1, <3>2
  <2> QED BY <1>1, <2>1
<1>12. ASSUME frame > 0
       PROVE  /\ At(start + 3)' = Create(frame) /\ At(last - 2)' = Destroy(frame)
              /\ list'[start + 3] = n + 1 /\ list'[last - 2] = n + 2
  <2>1. by = 1 /\ start + 3 = at + 1 /\ last - 2 = l + by + 2
    BY <1>2, <1>3, <1>4, <1>12
  <2> QED BY <1>1, <2>1 DEF At
<1>13. /\ heap'[list'[l + by + 1]] = new_empty
       /\ At(last - 1)' = new_pop_reg("RBP") /\ At(last)' = new_ret
  <2>1. last = l + by + by + 3 /\ last - 1 = l + by + by + 2
    BY <1>2, <1>4
  <2> QED BY <1>1, <1>2, <2>1 DEF At
<1> DEFINE Part(i) ==
              \/ /\ i # last
                 /\ \E j \in start..Len(list) : list'[i] = list[j] /\ At(i)' = At(j)
              \/ i # last /\ At(i)' = new_empty
              \/ i # last /\ At(i)' = new_pop_reg("RBP")
              \/ i # last /\ frame > 0 /\ At(i)' \in {Create(frame), Destroy(frame)}
              \/ i = last /\ At(i)' = new_ret
<1>14. ASSUME NEW i \in start..last
       PROVE  \/ i \in start..at
              \/ frame > 0 /\ i = start + 3
              \/ i - by \in (at + 1)..l /\ i = (i - by) + by
              \/ i = l + by + 1
              \/ frame > 0 /\ i = last - 2
              \/ i = last - 1
              \/ i = last
  BY <1>2, <1>3, <1>4
<1>15. ASSUME NEW i \in start..last PROVE Part(i)
  <2>1. CASE i \in start..at
    <3>1. i \in start..l /\ i <= at
      BY <1>2, <1>3, <2>1
    <3>2. list'[i] = list[i] /\ i # last /\ i \in 1..l
      BY <1>9, <3>1
    <3>3. At(i)' = At(i)
      BY <1>5, <3>2 DEF At
    <3> QED BY <3>1, <3>2, <3>3 DEF l
  <2>2. CASE frame > 0 /\ i = start + 3
    BY <1>2, <1>4, <1>12, <2>2
  <2>3. CASE i - by \in (at + 1)..l /\ i = (i - by) + by
    <3>1. PICK j \in (at + 1)..l : i = j + by
      BY <2>3
    <3>2. j \in start..l /\ j > at
      BY <1>2, <1>3, <3>1
    <3>3. list'[i] = list[j] /\ i # last /\ j \in 1..l
      BY <1>9, <3>1, <3>2
    <3>4. At(i)' = At(j)
      BY <1>5, <3>3 DEF At
    <3> QED BY <3>2, <3>3, <3>4 DEF l
  <2>4. CASE i = l + by + 1
    <3>1. i # last
      <4>1. by \in {0, 1} /\ l \in Nat
        BY <1>2
      <4>2. (by = 1 /\ last = l + 5) \/ (by = 0 /\ last = l + 3)
        BY <1>4
      <4> QED BY ONLY <2>4, <4>1, <4>2
    <3> QED BY <1>13, <2>4, <3>1 DEF At
  <2>5. CASE frame > 0 /\ i = last - 2
    BY <1>6, <1>12, <2>5
  <2>6. CASE i = last - 1
    BY <1>6, <1>13, <2>6
  <2>7. CASE i = last
    BY <1>13, <2>7
  <2> HIDE DEF Part
  <2> QED BY <1>14, <2>1, <2>2, <2>3, <2>4, <2>5, <2>6, <2>7
<1> QED BY <1>6, <1>7, <1>8, <1>10, <1>11, <1>12, <1>15 DEF l, FunctionCode

\* With its end, the function's code is complete.
LEMMA EpilogueRegion ==
  ASSUME IInv, CodeInv, compile_NFUN_end, NEW start \in 1..(Len(list) + 1), Begun(start),
         NEW last, last = Len(list'), NEW k, k = next_func - 1
  PROVE  Region(k, start, last)' /\ FrameAt(start)' = stack_frame_size - SLOT
<1>1. PICK frame \in Nat : frame = stack_frame_size - SLOT
  BY EpilogueState
<1>2. /\ last \in Nat /\ start + 5 <= last
      /\ KeptBelow(start)
      /\ list'[start] = functions[next_func - 1].ir_list_head
      /\ \A i \in start..last :
              \/ /\ i # last
                 /\ \E j \in start..Len(list) : list'[i] = list[j] /\ At(i)' = At(j)
              \/ i # last /\ At(i)' = new_empty
              \/ i # last /\ At(i)' = new_pop_reg("RBP")
              \/ i # last /\ frame > 0 /\ At(i)' \in {Create(frame), Destroy(frame)}
              \/ i = last /\ At(i)' = new_ret
      /\ \A j \in start..Len(list) : \E i \in start..last : list'[i] = list[j]
      /\ \E i \in start..last : list'[i] = func_return
      /\ frame > 0 => At(start + 3)' = Create(frame) /\ At(last - 2)' = Destroy(frame)
  <2>1. FunctionCode(start, frame, last)
    BY <1>1, EpilogueNodes
  <2> QED BY <2>1 DEF FunctionCode
<1>3. FrameSoFar = stack_frame_size
  <2>1. Len(name_scope) = 3
    <3>1. walk # <<>> /\ Top.node.type = "NFUN" /\ Top.stage = 3
      BY EpilogueState DEF COMPILED_RIGHT
    <3>2. Len(name_scope) = IF Top.stage = 0 THEN 1 ELSE IF Top.stage = 1 THEN 2 ELSE 3
      BY <3>1, FunctionScopes
    <3> QED BY <3>1, <3>2
  <2> QED BY <2>1 DEF FrameSoFar
<1>4. ASSUME NEW j \in start..Len(list)
      PROVE  /\ At(j).operation # "RET"
             /\ At(j).operation = "SUB" => At(j).operand1 # operand_reg("RSP")
             /\ IsLocalAccess(At(j)) => SlotOf(At(j)) \in SLOT..frame
             /\ At(j).operation = "JMP" =>
                  \/ At(j).jump_target = func_return
                  \/ \E m \in start..Len(list) : list[m] = At(j).jump_target
  <2>1. Unfinished(At(j), list[j], start)
    BY DEF Begun
  <2>2. At(j).operation = "JMP" => ~ \E e \in 1..Len(ir_stack) : ir_stack[e] = list[j]
    <3>1. \A e \in 1..Len(ir_stack) : ir_stack[e] = LastPending
      BY EpilogueFrame
    <3>2. heap[LastPending].operation = "MOV"
      BY EpilogueState
    <3> QED BY <3>1, <3>2 DEF At
  <2> QED BY <1>1, <1>3, <2>1, <2>2 DEF Unfinished
<1>5. /\ new_empty.operation = "NOP" /\ new_pop_reg("RBP").operation = "POP"
      /\ new_ret.operation = "RET"
      /\ Create(frame).operation = "SUB" /\ Create(frame).operand1 = operand_reg("RSP")
      /\ Create(frame).operand2.immediate = frame
      /\ Destroy(frame).operation = "ADD"
  BY DEF new_empty, new_pop_reg, new_ret, Create, Destroy, new_unary, new_binary, instruction,
         operand_imm
<1>6. /\ ~ IsLocalAccess(new_empty) /\ ~ IsLocalAccess(new_pop_reg("RBP"))
      /\ ~ IsLocalAccess(new_ret) /\ ~ IsLocalAccess(Create(frame))
      /\ ~ IsLocalAccess(Destroy(frame))
  <2>1. "MEM" \notin {"REG"} /\ "MEM" \in {"MEM", "IMM", "REG"} /\ "MEM" \notin {}
    OBVIOUS
  <2> QED BY <2>1 DEF new_empty, new_pop_reg, new_ret, Create, Destroy, new_unary, new_binary,
                      instruction, IsLocalAccess, operand_none, operand_reg
<1>7. FrameAt(start)' = frame
  <2>1. CASE frame > 0
    BY <1>2, <1>5, <2>1 DEF FrameAt
  <2>2. CASE ~ (frame > 0)
    <3>1. start + 3 \in start..last /\ start + 3 # last
      BY <1>2
    <3>2. \/ \E j \in start..Len(list) : At(start + 3)' = At(j)
          \/ At(start + 3)' = new_empty
          \/ At(start + 3)' = new_pop_reg("RBP")
      BY <1>2, <2>2, <3>1
    <3>3. At(start + 3)'.operation = "SUB" => At(start + 3)'.operand1 # operand_reg("RSP")
      BY <1>4, <1>5, <3>2
    <3>4. frame = 0
      BY <2>2
    <3> QED BY <3>3, <3>4 DEF FrameAt
  <2> QED BY <2>1, <2>2
<1>8. At(last)' = new_ret
  <2>1. last \in start..last
    BY <1>2
  <2> QED BY <1>2, <2>1
<1>9. ASSUME NEW i \in start..(last - 1) PROVE At(i)'.operation # "RET"
  <2>1. i \in start..last /\ i # last
    BY <1>2
  <2> QED BY <1>2, <1>4, <1>5, <2>1
<1>10. ASSUME NEW i \in start..last, At(i)'.operation = "JMP"
       PROVE  \E m \in start..last : list'[m] = At(i)'.jump_target
  <2>1. PICK j \in start..Len(list) : At(i)' = At(j)
    BY <1>2, <1>5, <1>10
  <2>2. \/ At(j).jump_target = func_return
        \/ \E m \in start..Len(list) : list[m] = At(j).jump_target
    BY <1>4, <1>10, <2>1
  <2> QED BY <1>2, <2>1, <2>2
<1>11. ASSUME NEW i \in start..last, IsLocalAccess(At(i)')
       PROVE  SlotOf(At(i)') \in SLOT..frame
  <2>1. PICK j \in start..Len(list) : At(i)' = At(j)
    BY <1>2, <1>6, <1>11
  <2> QED BY <1>4, <1>11, <2>1
<1>12. functions' = functions
  BY EpilogueState DEF control
<1> QED BY <1>1, <1>2, <1>5, <1>7, <1>8, <1>9, <1>10, <1>11, <1>12 DEF Region, Destroy

\* When a function ends its code joins the complete ones.
LEMMA EpilogueKeepsPlaces ==
  ASSUME IInv, CodeInv, compile_NFUN_end, NEW start \in 1..(Len(list) + 1), CodeFrom(start)
  PROVE  \E later \in 1..(Len(list') + 1) : CodeFrom(later)'
<1>1. Begun(start) /\ Finished(start)
  BY DEF CodeFrom
<1>2. PICK last : last = Len(list')
  OBVIOUS
<1>3. PICK k : k = next_func - 1
  OBVIOUS
<1>4. /\ last \in Nat /\ start \in Nat /\ start >= 1 /\ start + 5 <= last /\ KeptBelow(start)
  <2>1. PICK frame \in Nat : frame = stack_frame_size - SLOT
    BY EpilogueState
  <2>2. FunctionCode(start, frame, last)
    BY <1>1, <1>2, <2>1, EpilogueNodes
  <2> QED BY <2>2, HandlerState DEF FunctionCode
<1>5. Region(k, start, last)'
  BY <1>1, <1>2, <1>3, EpilogueRegion
<1>6. PICK later \in Nat : later = last + 1
  BY <1>4
<1>7. \A i \in start..last : Placed(k, later, i)'
  <2>1. last \in 1..(later - 1) /\ start \in 1..last
    BY <1>4, <1>6
  <2> QED BY <1>5, <2>1 DEF Placed
<1>8. /\ walk # <<>> /\ walk[1].node.type = "NFUN" /\ walk' = <<>>
      /\ functions' = functions /\ next_func' = next_func
  BY EpilogueState DEF control
<1>9. k \in 1..Len(functions) /\ functions[k].node # NULL
  BY <1>3, <1>8, FunctionCompiled
<1>10. Compiled' = Compiled \cup {k}
  <2>1. ASSUME NEW c \in 1..Len(functions), functions[c].node # NULL
        PROVE  c \in Compiled' <=> c \in Compiled \/ c = k
    BY <1>3, <1>8, <2>1 DEF Compiled
  <2>2. ASSUME NEW c, c \in Compiled' \/ c \in Compiled \/ c = k
        PROVE  c \in 1..Len(functions) /\ functions[c].node # NULL
    BY <1>8, <1>9, <2>2 DEF Compiled
  <2> QED BY <2>1, <2>2
<1>11. ASSUME NEW c \in Compiled' PROVE \E i \in 1..(later - 1) : Placed(c, later, i)'
  <2>1. CASE c = k
    <3>1. start \in start..last /\ start \in 1..(later - 1)
      BY <1>4, <1>6
    <3> QED BY <1>7, <2>1, <3>1
  <2>2. CASE c \in Compiled
    <3>1. PICK i \in 1..(start - 1) : Placed(c, start, i)
      BY <1>1, <2>2 DEF Finished
    <3>2. Placed(c, later, i)'
      BY <1>4, <1>6, <1>8, <3>1, PlacedKept
    <3>3. i \in 1..(later - 1)
      BY <1>4, <1>6
    <3> QED BY <3>2, <3>3
  <2> QED BY <1>10, <2>1, <2>2
<1>12. ASSUME NEW i \in 1..(later - 1), At(i)'.operation = "JMP"
       PROVE  \E c \in Compiled' : Placed(c, later, i)'
  <2>1. CASE i < start
    <3>1. i \in 1..(start - 1)
      BY <1>4, <2>1
    <3>2. At(i)' = At(i)
      BY <1>4, <3>1 DEF KeptBelow, At
    <3>3. PICK c \in Compiled : Placed(c, start, i)
      BY <1>1, <1>12, <3>1, <3>2 DEF Finished
    <3>4. Placed(c, later, i)'
      BY <1>4, <1>6, <1>8, <3>3, PlacedKept
    <3> QED BY <1>10, <3>4
  <2>2. CASE ~ (i < start)
    <3>1. i \in start..last
      BY <1>4, <1>6, <2>2
    <3> QED BY <1>7, <1>10, <3>1
  <2> QED BY <2>1, <2>2
<1>13. Finished(later)'
  BY <1>11, <1>12 DEF Finished
<1>14. Begun(later)'
  <2>1. ~ InFunction'
    BY <1>8 DEF InFunction
  <2>2. ir_stack' = <<>>
    <3>1. Len(ir_stack) = 1 /\ ir_stack' = SubSeq(ir_stack, 1, Len(ir_stack) - 1)
          /\ ir_stack \in Seq(1..Len(heap))
      BY EpilogueState, HandlerState DEF compile_NFUN_end
    <3>2. ir_stack' = SubSeq(ir_stack, 1, 0)
      BY <3>1
    <3> QED BY <3>1, <3>2
  <2>3. (\A e \in 1..Len(ir_stack') : FALSE) /\ (\A i \in later..Len(list') : FALSE)
    BY <1>2, <1>4, <1>6, <2>2
  <2> QED BY <1>2, <1>6, <2>1, <2>3 DEF Begun
<1> QED BY <1>2, <1>4, <1>6, <1>13, <1>14 DEF CodeFrom

-----------------------------------------------------------------------------
(* The driver.                                                             *)

\* The steps between two trees.
LEMMA DrivingKeepsPlaces ==
  ASSUME IInv, IInv', CodeInv, Driver, NEW start, CodeFrom(start)
  PROVE  \E later \in 1..(Len(list') + 1) : CodeFrom(later)'
<1>1. /\ walk = <<>> /\ UNCHANGED ir_stack
      /\ phase = "declarations" \/ phase = "functions"
  BY DEF Driver, extract_variable, extract_function, emit_entry, compile_next_function,
         all_compiled, Extracting
<1>2. /\ Len(list) \in Nat /\ list \in Seq(1..Len(heap)) /\ ir_stack \in Seq(1..Len(heap))
      /\ Len(ir_stack) = 0 /\ heap \in Seq(IrNode) /\ Len(heap) \in Nat
      /\ functions \in Seq(Function) /\ Len(functions) \in Nat /\ next_func \in Nat
      /\ phase = "declarations" => next_func = 1
  <2>1. functions \in Seq(Function) /\ next_func \in Nat
    BY DEF IInv, TypeOK
  <2>2. phase = "declarations" => next_func = 1
    BY DEF CodeInv, FunctionOrder
  <2> QED BY <1>1, <2>1, <2>2, HandlerState, NothingOpenBetween
<1>3. ir_stack' = <<>>
  <2>1. ir_stack = <<>>
    BY <1>2
  <2> QED BY <1>1, <2>1
<1>4. ~ InFunction
  BY <1>1 DEF InFunction
<1>5. ASSUME ~ InFunction', Compiled' = Compiled, Len(list') \in Nat, Len(list) <= Len(list'),
             \A k \in 1..Len(functions) : functions'[k].ir_list_head = functions[k].ir_list_head,
             \A i \in 1..Len(list) : list'[i] = list[i],
             \A id \in 1..Len(heap) : heap'[id] = heap[id],
             \A i \in (Len(list) + 1)..Len(list') : At(i)'.operation # "JMP"
      PROVE  \E later \in 1..(Len(list') + 1) : CodeFrom(later)'
  <2>1. KeptBelow(Len(list) + 1)
    <3>1. ASSUME NEW i \in 1..((Len(list) + 1) - 1)
          PROVE  list'[i] = list[i] /\ heap'[list[i]] = heap[list[i]]
      <4>1. i \in 1..Len(list)
        BY <1>2
      <4>2. list[i] \in 1..Len(heap)
        BY <1>2, <4>1
      <4> QED BY <1>5, <4>1, <4>2
    <3> QED BY <3>1 DEF KeptBelow
  <2>2. \A k \in Compiled : functions'[k].ir_list_head = functions[k].ir_list_head
    BY <1>5 DEF Compiled
  <2> QED BY <1>2, <1>3, <1>4, <1>5, <2>1, <2>2, OutsideKept
<1>6. CASE extract_variable \/ compile_next_function \/ all_compiled
  <2>1. UNCHANGED <<heap, list, functions>>
    BY <1>6 DEF extract_variable, compile_next_function, all_compiled, code
  <2>2. \A i \in (Len(list) + 1)..Len(list) : FALSE
    BY <1>2
  <2>3. /\ ~ InFunction'
        /\ Compiled' = Compiled
    <3>1. CASE extract_variable
      <4> DEFINE node == cursor.left
      <4>1. walk' = Enter(walk, node) /\ next_func' = next_func /\ next_func = 1
        BY <1>2, <3>1 DEF extract_variable, Extracting
      <4> HIDE DEF node
      <4>2. walk' = <<>> \/ walk' = << [node |-> node, stage |-> COMPILING_LEFT] >>
        BY <1>1, <4>1 DEF Enter
      <4>3. ~ InFunction'
        BY <4>2 DEF InFunction, COMPILING_LEFT
      <4>4. Compiled = {}
        BY <4>1, NoneCompiled
      <4>5. Compiled' = {}
        BY <2>1, <4>1 DEF Compiled
      <4> QED BY <4>3, <4>4, <4>5
    <3>2. CASE compile_next_function
      <4> DEFINE node == functions[next_func].node
      <4>1. walk' = Enter(walk, node) /\ next_func' = next_func + 1
        BY <3>2 DEF compile_next_function
      <4>2. \/ node = NULL /\ walk' = <<>>
            \/ node # NULL /\ walk' = << [node |-> node, stage |-> COMPILING_LEFT] >>
        <5> HIDE DEF node
        <5> QED BY <1>1, <4>1 DEF Enter
      <4>3. ~ InFunction'
        <5> HIDE DEF node
        <5> QED BY <4>2 DEF InFunction, COMPILING_LEFT
      <4>4. walk' = <<>> => functions[next_func].node = NULL
        <5>1. << [node |-> node, stage |-> COMPILING_LEFT] >> # <<>>
          OBVIOUS
        <5> QED BY <4>2, <5>1
      <4> HIDE DEF node
      <4>5. ASSUME NEW k \in 1..Len(functions), functions[k].node # NULL
            PROVE  (k < next_func' - 1 \/ (k = next_func' - 1 /\ walk' = <<>>))
                     <=> (k < next_func - 1 \/ (k = next_func - 1 /\ walk = <<>>))
        BY <1>1, <1>2, <4>1, <4>4, <4>5
      <4>6. \A k \in 1..Len(functions) : k \in Compiled' <=> k \in Compiled
        <5> SUFFICES ASSUME NEW k \in 1..Len(functions)
                     PROVE  k \in Compiled' <=> k \in Compiled
          OBVIOUS
        <5>1. CASE functions[k].node = NULL
          BY <2>1, <5>1 DEF Compiled
        <5>2. CASE functions[k].node # NULL
          BY <2>1, <4>5, <5>2 DEF Compiled
        <5> QED BY <5>1, <5>2
      <4>7. Compiled \subseteq 1..Len(functions) /\ Compiled' \subseteq 1..Len(functions)
        BY <2>1 DEF Compiled
      <4>8. Compiled' = Compiled
        BY <4>6, <4>7
      <4> QED BY <4>3, <4>8
    <3>3. CASE all_compiled
      BY <1>4, <3>3 DEF all_compiled, InFunction, Compiled
    <3> QED BY <1>6, <3>1, <3>2, <3>3
  <2> QED BY <1>2, <1>5, <2>1, <2>2, <2>3
<1>7. CASE extract_function \/ emit_entry
  <2>1. walk' = <<>> /\ next_func' = next_func /\ next_func = 1
    BY <1>1, <1>2, <1>7 DEF extract_function, emit_entry, Extracting
  <2>2. ~ InFunction' /\ Compiled' = {} /\ Compiled = {}
    BY <2>1, NoneCompiled DEF InFunction, Compiled
  <2>3. CASE extract_function
    <3> DEFINE new == function(cursor.left, Len(heap) + 1, cursor.left.value,
                               ChainOf(cursor.left.left))
    <3>1. heap' = Append(heap, new_empty) /\ functions' = Append(functions, new) /\ list' = list
      BY <2>3 DEF extract_function
    <3> HIDE DEF new
    <3>2. /\ \A id \in 1..Len(heap) : heap'[id] = heap[id]
          /\ \A k \in 1..Len(functions) : functions'[k] = functions[k]
      BY <1>2, <3>1
    <3>3. \A i \in (Len(list) + 1)..Len(list) : FALSE
      BY <1>2
    <3> QED BY <1>2, <1>5, <2>2, <3>1, <3>2, <3>3
  <2>4. CASE emit_entry
    <3>1. /\ AppendsFresh /\ functions' = functions
          /\ \A id \in 1..Len(heap) : heap'[id] = heap[id]
          /\ \A id \in Fresh : heap'[id].operation # "JMP"
      BY <2>4, EntryCode DEF emit_entry
    <3>2. /\ Len(list') \in Nat /\ Len(list) <= Len(list')
          /\ \A i \in 1..Len(list) : list'[i] = list[i]
          /\ \A i \in (Len(list) + 1)..Len(list') : list'[i] \in Fresh
      BY <3>1, ListGrown
    <3>3. \A i \in (Len(list) + 1)..Len(list') : At(i)'.operation # "JMP"
      BY <3>1, <3>2 DEF At
    <3> QED BY <1>5, <2>2, <3>1, <3>2, <3>3
  <2> QED BY <1>7, <2>3, <2>4
<1> QED BY <1>6, <1>7 DEF Driver

\* A failed assertion, or nothing, moves no code.
LEMMA IdlingKeepsPlaces ==
  ASSUME Failure \/ UNCHANGED vars, RegionInv
  PROVE  RegionInv'
<1>1. UNCHANGED <<next_func, functions, walk, name_scope, stack_frame_size, func_return,
                  ir_stack, heap, list>>
  BY DEF vars, control, scoping, code, returns, Failure, Fail, UndefinedVariable,
         UndefinedFunction, WrongArgumentCount, MissingReturn, Redefinition, MissingMain
<1>2. CallsLead'
  BY <1>1 DEF RegionInv, CallsLead, At
<1>3. PICK start \in 1..(Len(list) + 1) : CodeFrom(start)
  BY DEF RegionInv
<1>4. \A k, first, last : Region(k, first, last)' <=> Region(k, first, last)
  BY <1>1 DEF Region, At, FrameAt
<1>5. \A k, i : Placed(k, start, i)' <=> Placed(k, start, i)
  BY <1>4 DEF Placed
<1>6. Compiled' = Compiled
  BY <1>1 DEF Compiled
<1>7. Finished(start)'
  BY <1>1, <1>3, <1>5, <1>6 DEF CodeFrom, Finished, At
<1>8. InFunction' <=> InFunction
  BY <1>1 DEF InFunction
<1>9. FrameSoFar' = FrameSoFar
  BY <1>1 DEF FrameSoFar
<1>10. \A i \in start..Len(list) : Unfinished(At(i), list[i], start)'
  BY <1>1, <1>3, <1>9 DEF CodeFrom, Begun, Unfinished, At
<1>11. Begun(start)'
  BY <1>1, <1>3, <1>8, <1>10 DEF CodeFrom, Begun, At
<1> QED BY <1>1, <1>2, <1>3, <1>7, <1>11 DEF RegionInv, CodeFrom

-----------------------------------------------------------------------------
(* Where calls lead.                                                       *)

\* Calls lead to functions when those emitted do and the others are kept.
LEMMA CallsKept ==
  ASSUME CallsLead,
         \A k \in 1..Len(functions) :
           k \in 1..Len(functions') /\ functions'[k].ir_list_head = functions[k].ir_list_head,
         \A i \in 1..Len(list') : At(i)'.operation = "CALL" =>
           \/ \E j \in 1..Len(list) : At(i)' = At(j)
           \/ \E k \in 1..Len(functions) : At(i)'.jump_target = functions[k].ir_list_head
  PROVE  CallsLead'
<1>1. ASSUME NEW i \in 1..Len(list'), At(i)'.operation = "CALL"
      PROVE  \E k \in 1..Len(functions') : At(i)'.jump_target = functions'[k].ir_list_head
  <2>1. PICK k \in 1..Len(functions) : At(i)'.jump_target = functions[k].ir_list_head
    BY <1>1 DEF CallsLead
  <2> QED BY <2>1
<1> QED BY <1>1 DEF CallsLead

\* Handlers of a body call only functions of the table.
LEMMA BodyKeepsCalls ==
  ASSUME IInv, CodeInv, BodyHandler, CallsLead
  PROVE  CallsLead'
<1>1. functions' = functions
  BY BodyUnchanged DEF control
<1>2. AppendsFresh /\ NewNodes
  <2>1. HandleNode
    BY DEF BodyHandler, Straight, HandleNode
  <2> QED BY <2>1, HandlersKeep, HandlersEmit DEF Emission
<1>3. ASSUME NEW i \in 1..Len(list'), At(i)'.operation = "CALL"
      PROVE  \/ \E j \in 1..Len(list) : At(i)' = At(j)
             \/ \E k \in 1..Len(functions) : At(i)'.jump_target = functions[k].ir_list_head
  <2>1. CASE i \in 1..Len(list)
    <3>1. new_empty.operation = "NOP"
      BY DEF new_empty, instruction
    <3>2. \A target : [At(i) EXCEPT !.jump_target = target].operation = At(i).operation
      <4>1. At(i) \in IrNode
        BY <2>1, HandlerState DEF At
      <4> QED BY <4>1 DEF IrNode
    <3>3. \/ At(i)' = At(i) \/ At(i)' = new_empty
          \/ /\ At(i).operation = "JMP"
             /\ \E target \in Fresh : At(i)' = [At(i) EXCEPT !.jump_target = target]
      BY <2>1, OldNodes
    <3>4. At(i)' = At(i)
      BY ONLY <1>3, <3>1, <3>2, <3>3
    <3> QED BY <2>1, <3>4
  <2>2. CASE i \notin 1..Len(list)
    <3>1. i \in (Len(list) + 1)..Len(list')
      BY <1>2, <2>2, ListGrown
    <3>2. list'[i] \in Fresh
      BY <1>2, <3>1, ListGrown
    <3> QED BY <1>2, <1>3, <3>2 DEF NewNodes, Ordinary, At
  <2> QED BY <2>1, <2>2
<1> QED BY <1>1, <1>3, CallsKept

\* A function begins without a call.
LEMMA PrologueKeepsCalls ==
  ASSUME IInv, CodeInv, compile_NFUN_begin, CallsLead
  PROVE  CallsLead'
<1> DEFINE n == Len(list)
           h == Len(heap)
           head == functions[next_func - 1].ir_list_head
           mov == new_binary("MOV", operand_reg("RBP"), operand_reg("RSP"))
<1>1. /\ walk # <<>> /\ Top = walk[1] /\ UNCHANGED control
      /\ Top.node.type = "NFUN" /\ Top.stage = COMPILING_LEFT
      /\ \A id \in 1..h : heap'[id] = heap[id]
      /\ heap'[h + 1] = new_push_reg("RBP") /\ heap'[h + 2] = mov
      /\ Len(list') = n + 3 /\ \A i \in 1..n : list'[i] = list[i]
      /\ list'[n + 1] = head /\ list'[n + 2] = h + 1 /\ list'[n + 3] = h + 2
  BY PrologueCode
<1>2. n \in Nat /\ h \in Nat /\ list \in Seq(1..h)
  BY HandlerState
<1>3. heap'[head] = new_empty
  <2>1. next_func - 1 \in 1..Len(functions) /\ head \in 1..h
    BY <1>1, FunctionCompiled
  <2>2. Waiting(next_func - 1)
    BY <1>1 DEF Waiting
  <2>3. heap[head] = new_empty
    BY <2>1, <2>2 DEF CodeInv, ListInv
  <2> QED BY <1>1, <2>1, <2>3
<1>4. new_empty.operation = "NOP" /\ new_push_reg("RBP").operation = "PUSH" /\ mov.operation = "MOV"
  BY DEF new_empty, new_push_reg, new_unary, new_binary, instruction
<1>5. functions' = functions
  BY <1>1 DEF control
<1> HIDE DEF n, h, head, mov
<1>6. ASSUME NEW i \in 1..Len(list'), At(i)'.operation = "CALL"
      PROVE  \E j \in 1..Len(list) : At(i)' = At(j)
  <2>1. CASE i \in 1..n
    <3>1. list[i] \in 1..h
      BY <1>2, <2>1 DEF n
    <3> QED BY <1>1, <2>1, <3>1 DEF At, n
  <2>2. CASE i \notin 1..n
    <3>1. i = n + 1 \/ i = n + 2 \/ i = n + 3
      BY <1>1, <1>2, <2>2
    <3>2. heap'[list'[i]] = new_empty \/ heap'[list'[i]] = new_push_reg("RBP")
          \/ heap'[list'[i]] = mov
      BY <1>1, <1>3, <3>1
    <3> QED BY <1>4, <1>6, <3>2 DEF At
  <2> QED BY <2>1, <2>2
<1> QED BY <1>5, <1>6, CallsKept

\* Nor does its end call.
LEMMA EpilogueKeepsCalls ==
  ASSUME IInv, CodeInv, compile_NFUN_end, CallsLead,
         NEW start \in 1..(Len(list) + 1), CodeFrom(start)
  PROVE  CallsLead'
<1>1. PICK last : last = Len(list')
  OBVIOUS
<1>2. PICK frame \in Nat : frame = stack_frame_size - SLOT
  BY EpilogueState
<1>3. FunctionCode(start, frame, last)
  <2>1. Begun(start)
    BY DEF CodeFrom
  <2> QED BY <1>1, <1>2, <2>1, EpilogueNodes
<1>4. Len(list) \in Nat /\ start \in Nat /\ start >= 1
  BY HandlerState
<1>5. functions' = functions
  BY DEF compile_NFUN_end, control
<1>6. /\ new_empty.operation = "NOP" /\ new_pop_reg("RBP").operation = "POP"
      /\ Create(frame).operation = "SUB" /\ Destroy(frame).operation = "ADD"
      /\ new_ret.operation = "RET"
  BY DEF new_empty, new_pop_reg, new_ret, Create, Destroy, new_unary, new_binary, instruction
<1>7. ASSUME NEW i \in 1..Len(list'), At(i)'.operation = "CALL"
      PROVE  \E j \in 1..Len(list) : At(i)' = At(j)
  <2>1. CASE i < start
    <3>1. i \in 1..(start - 1) /\ i \in 1..Len(list)
      BY <1>4, <2>1
    <3>2. list'[i] = list[i] /\ heap'[list[i]] = heap[list[i]]
      BY <1>3, <3>1 DEF FunctionCode, KeptBelow
    <3> QED BY <3>1, <3>2 DEF At
  <2>2. CASE i >= start
    <3>1. i \in start..last
      BY <1>1, <1>4, <2>2
    <3>2. \E j \in start..Len(list) : At(i)' = At(j)
      BY <1>3, <1>6, <1>7, <3>1 DEF FunctionCode
    <3>3. \A j \in start..Len(list) : j \in 1..Len(list)
      BY <1>4
    <3> QED BY <3>2, <3>3
  <2> QED BY <1>4, <2>1, <2>2
<1> QED BY <1>5, <1>7, CallsKept

\* The driver adds functions to call, and one call.
LEMMA DrivingKeepsCalls ==
  ASSUME IInv, CodeInv, Driver, CallsLead
  PROVE  CallsLead'
<1>1. /\ list \in Seq(1..Len(heap)) /\ heap \in Seq(IrNode) /\ Len(heap) \in Nat
      /\ functions \in Seq(Function) /\ Len(functions) \in Nat
  <2>1. functions \in Seq(Function)
    BY DEF IInv, TypeOK
  <2> QED BY <2>1, HandlerState
<1>2. CASE extract_variable \/ compile_next_function \/ all_compiled
  BY <1>2 DEF extract_variable, compile_next_function, all_compiled, code, CallsLead, At
<1>3. CASE extract_function
  <2> DEFINE new == function(cursor.left, Len(heap) + 1, cursor.left.value,
                             ChainOf(cursor.left.left))
  <2>1. heap' = Append(heap, new_empty) /\ functions' = Append(functions, new) /\ list' = list
    BY <1>3 DEF extract_function
  <2> HIDE DEF new
  <2>2. /\ \A id \in 1..Len(heap) : heap'[id] = heap[id]
        /\ \A k \in 1..Len(functions) : k \in 1..Len(functions') /\ functions'[k] = functions[k]
    BY <1>1, <2>1
  <2>3. \A i \in 1..Len(list') : i \in 1..Len(list) /\ At(i)' = At(i)
    <3> SUFFICES ASSUME NEW i \in 1..Len(list') PROVE i \in 1..Len(list) /\ At(i)' = At(i)
      OBVIOUS
    <3>1. i \in 1..Len(list) /\ list[i] \in 1..Len(heap)
      BY <1>1, <2>1
    <3> QED BY <2>1, <2>2, <3>1 DEF At
  <2> QED BY <2>2, <2>3, CallsKept
<1>4. CASE emit_entry
  <2>1. AppendsFresh /\ functions' = functions
    BY <1>4, EntryCode DEF emit_entry
  <2>2. ASSUME NEW i \in 1..Len(list'), At(i)'.operation = "CALL"
        PROVE  \/ \E j \in 1..Len(list) : At(i)' = At(j)
               \/ \E k \in 1..Len(functions) : At(i)'.jump_target = functions[k].ir_list_head
    <3>1. CASE i \in 1..Len(list)
      <4>1. list[i] \in 1..Len(heap) /\ list'[i] = list[i]
        BY <1>1, <2>1, <3>1, ListGrown
      <4> QED BY <1>4, <3>1, <4>1, EntryCode DEF At
    <3>2. CASE i \notin 1..Len(list)
      <4>1. i \in (Len(list) + 1)..Len(list')
        BY <2>1, <3>2, ListGrown
      <4>2. list'[i] \in Fresh
        BY <2>1, <4>1, ListGrown
      <4> QED BY <1>4, <2>2, <4>2, EntryCode DEF At
    <3> QED BY <3>1, <3>2
  <2> QED BY <2>1, <2>2, CallsKept
<1> QED BY <1>2, <1>3, <1>4 DEF Driver

-----------------------------------------------------------------------------
(* The inductive invariant.                                                *)

\* At first nothing is compiled, and the list is its first, empty node.
LEMMA InitialRegion ==
  ASSUME Init
  PROVE  RegionInv
<1>1. /\ next_func = 1 /\ walk = <<>> /\ ir_stack = <<>>
      /\ heap = [i \in 1..5 |-> new_empty] /\ list = << 5 >>
  BY DEF Init
<1>2. Len(list) = 1 /\ list[1] = 5 /\ Len(ir_stack) = 0
  BY <1>1
<1>3. \A i \in 1..Len(list) : At(i).operation = "NOP"
  <2>1. heap[5] = new_empty
    BY <1>1
  <2>2. \A i \in 1..1 : i = 1
    OBVIOUS
  <2> QED BY <1>2, <2>1, <2>2 DEF At, new_empty, instruction
<1>4. CallsLead
  BY <1>3 DEF CallsLead
<1>5. Compiled = {}
  BY <1>1, NoneCompiled
<1>6. ~ InFunction
  BY <1>1 DEF InFunction
<1>7. (\A i \in 2..Len(list) : FALSE) /\ (\A i \in 1..(2 - 1) : i \in 1..Len(list))
      /\ (\A e \in 1..Len(ir_stack) : FALSE)
  BY <1>2
<1>8. Finished(2)
  BY <1>3, <1>5, <1>7 DEF Finished
<1>9. Begun(2)
  BY <1>2, <1>6, <1>7 DEF Begun
<1>10. 2 \in 1..(Len(list) + 1)
  BY <1>2
<1> QED BY <1>4, <1>8, <1>9, <1>10 DEF RegionInv, CodeFrom

\* Every step keeps the code of every function in its place.
LEMMA RegionStep ==
  ASSUME IInv, IInv', CodeInv, RegionInv, [Next]_vars
  PROVE  RegionInv'
<1>1. PICK start \in 1..(Len(list) + 1) : CodeFrom(start)
  BY DEF RegionInv
<1>2. CallsLead
  BY DEF RegionInv
<1>3. CASE HandleNode
  <2>1. CASE BodyHandler
    BY <1>1, <1>2, <2>1, BodyKeepsPlaces, BodyKeepsCalls DEF RegionInv
  <2>2. CASE compile_NFUN_begin
    BY <1>1, <1>2, <2>2, PrologueKeepsPlaces, PrologueKeepsCalls DEF RegionInv
  <2>3. CASE compile_NFUN_end
    BY <1>1, <1>2, <2>3, EpilogueKeepsPlaces, EpilogueKeepsCalls DEF RegionInv
  <2>4. BodyHandler \/ compile_NFUN_begin \/ compile_NFUN_end
    BY <1>3 DEF HandleNode, BodyHandler, Straight
  <2> QED BY <2>1, <2>2, <2>3, <2>4
<1>4. CASE Driver
  BY <1>1, <1>2, <1>4, DrivingKeepsPlaces, DrivingKeepsCalls DEF RegionInv
<1>5. CASE Failure \/ UNCHANGED vars
  BY <1>5, IdlingKeepsPlaces
<1> QED BY <1>3, <1>4, <1>5 DEF Next, CodeGenStep, Returned

\* In every state, for every program, each compiled function is one stretch of
\* the list with one return at its end, and a pending jump, a call or a slot
\* beyond the frame is never left in it.
THEOREM RegionInvariance == Spec => [](IInv /\ CodeInv /\ RegionInv)
<1>1. Init => RegionInv
  BY InitialRegion
<1>2. IInv /\ IInv' /\ CodeInv /\ RegionInv /\ [Next]_vars => RegionInv'
  BY RegionStep
<1> QED BY <1>1, <1>2, CodeInvariance, PTL DEF Spec

-----------------------------------------------------------------------------
(* The finished list.                                                      *)

\* The positions of a function's code are those between its head and the
\* first return behind it.
LEMMA CodePlaced ==
  ASSUME CodeInv, NEW k, NEW last \in 1..Len(list), NEW first \in 1..last,
         Region(k, first, last)
  PROVE  /\ Position(functions[k].ir_list_head) = first
         /\ Code(k) = first..last
<1> DEFINE head == functions[k].ir_list_head
           Ends(i) == /\ heap[list[i]].operation = "RET"
                      /\ \A j \in first..(i - 1) : heap[list[j]].operation # "RET"
<1>1. /\ list[first] = head /\ heap[list[last]].operation = "RET"
      /\ \A i \in first..(last - 1) : heap[list[i]].operation # "RET"
  BY DEF Region, At
<1>2. first \in 1..Len(list) /\ last \in first..Len(list)
  OBVIOUS
<1>3. \A i, j \in 1..Len(list) : list[i] = list[j] => i = j
  BY DEF CodeInv, ListInv
<1> HIDE DEF head
<1>4. Position(head) = first
  <2>1. \A i \in 1..Len(list) : list[i] = head <=> i = first
    BY <1>1, <1>2, <1>3
  <2> QED BY <1>2, <2>1 DEF Position
<1>5. ASSUME NEW i \in first..Len(list)
      PROVE  Ends(i) <=> i = last
  <2>1. i < last => i \in first..(last - 1)
    BY <1>2
  <2>2. i > last => last \in first..(i - 1)
    BY <1>2
  <2>3. i < last \/ i = last \/ i > last
    BY <1>2
  <2> QED BY <1>1, <2>1, <2>2, <2>3
<1>6. (CHOOSE i \in first..Len(list) : Ends(i)) = last
  <2> HIDE DEF Ends
  <2> QED BY <1>2, <1>5
<1> QED BY <1>4, <1>6 DEF Code, head

\* Every compiled function has such a stretch.
LEMMA CompiledPlaced ==
  ASSUME IInv, CodeInv, RegionInv, NEW k \in Compiled
  PROVE  \E last \in 1..Len(list) : \E first \in 1..last :
           /\ Region(k, first, last)
           /\ Position(functions[k].ir_list_head) = first
           /\ Code(k) = first..last
<1>1. PICK start \in 1..(Len(list) + 1) : CodeFrom(start)
  BY DEF RegionInv
<1>2. PICK i \in 1..(start - 1) : Placed(k, start, i)
  BY <1>1 DEF CodeFrom, Finished
<1>3. PICK last \in 1..(start - 1) : \E first \in 1..last : Region(k, first, last)
  BY <1>2 DEF Placed
<1>4. last \in 1..Len(list)
  BY HandlerState
<1> QED BY <1>3, <1>4, CodePlaced

\* The frame reserved for a compiled function holds its locals.
LEMMA FramesCover ==
  ASSUME IInv, CodeInv, RegionInv
  PROVE  LocalsInsideFrame
<1> SUFFICES ASSUME NEW k \in Compiled
             PROVE  /\ \A i \in Code(k) :
                         IsLocalAccess(At(i)) => SlotOf(At(i)) \in SLOT..ReservedFrame(k)
                    /\ LET destroy == At(Position(functions[k].ir_list_head)
                                           + Cardinality(Code(k)) - 3)
                       IN  ReservedFrame(k) > 0 =>
                             destroy = new_binary("ADD", operand_reg("RSP"),
                                                  operand_imm(ReservedFrame(k)))
  BY DEF LocalsInsideFrame
<1>1. PICK last \in 1..Len(list) : \E first \in 1..last :
        /\ Region(k, first, last)
        /\ Position(functions[k].ir_list_head) = first
        /\ Code(k) = first..last
  BY CompiledPlaced
<1>2. PICK first \in 1..last :
        /\ Region(k, first, last)
        /\ Position(functions[k].ir_list_head) = first
        /\ Code(k) = first..last
  BY <1>1
<1>3. ReservedFrame(k) = FrameAt(first)
  BY <1>2 DEF ReservedFrame
<1>4. Cardinality(Code(k)) = last - first + 1
  <2>1. first \in Int /\ last \in Int /\ first <= last
    OBVIOUS
  <2> QED BY <1>2, <2>1, FS_Interval
<1>5. Position(functions[k].ir_list_head) + Cardinality(Code(k)) - 3 = last - 2
  BY <1>2, <1>4
<1> QED BY <1>2, <1>3, <1>5 DEF Region

\* When every function is compiled, control stays where it should.
LEMMA JumpsClosed ==
  ASSUME IInv, CodeInv, RegionInv
  PROVE  ControlFlowClosed
<1> SUFFICES ASSUME phase = "done"
             PROVE  /\ \A i, j \in 1..Len(list) : list[i] = list[j] => i = j
                    /\ \A k \in Compiled : \A i \in Code(k) : At(i).operation = "JMP" =>
                         \E j \in Code(k) : list[j] = At(i).jump_target
                    /\ \A i \in 1..Len(list) :
                         /\ At(i).operation = "JMP" => \E k \in Compiled : i \in Code(k)
                         /\ At(i).operation = "CALL" =>
                              \E k \in 1..Len(functions) :
                                At(i).jump_target = functions[k].ir_list_head
                    /\ \A k \in 1..Len(functions) :
                         functions[k].node = NULL \/ Listed(functions[k].ir_list_head)
  BY DEF ControlFlowClosed
<1>1. \A i, j \in 1..Len(list) : list[i] = list[j] => i = j
  BY DEF CodeInv, ListInv
<1>2. ASSUME NEW k \in Compiled, NEW i \in Code(k), At(i).operation = "JMP"
      PROVE  \E j \in Code(k) : list[j] = At(i).jump_target
  BY <1>2, CompiledPlaced DEF Region
<1>3. walk = <<>> /\ next_func > Len(functions)
  BY DEF CodeInv, FunctionOrder
<1>4. PICK start \in 1..(Len(list) + 1) : CodeFrom(start)
  BY DEF RegionInv
<1>5. start = Len(list) + 1 /\ Len(list) \in Nat
  <2>1. ~ InFunction
    BY <1>3 DEF InFunction
  <2> QED BY <1>4, <2>1, HandlerState DEF CodeFrom, Begun
<1>6. ASSUME NEW i \in 1..Len(list), At(i).operation = "JMP"
      PROVE  \E k \in Compiled : i \in Code(k)
  <2>1. i \in 1..(start - 1)
    BY <1>5
  <2>2. PICK k \in Compiled : Placed(k, start, i)
    BY <1>4, <1>6, <2>1 DEF CodeFrom, Finished
  <2>3. PICK last \in 1..(start - 1) : \E first \in 1..last :
          Region(k, first, last) /\ i \in first..last
    BY <2>2 DEF Placed
  <2>4. last \in 1..Len(list)
    BY <1>5
  <2> QED BY <2>3, <2>4, CodePlaced
<1>7. \A i \in 1..Len(list) : At(i).operation = "CALL" =>
        \E k \in 1..Len(functions) : At(i).jump_target = functions[k].ir_list_head
  BY DEF RegionInv, CallsLead
<1>8. ASSUME NEW k \in 1..Len(functions), functions[k].node # NULL
      PROVE  Listed(functions[k].ir_list_head)
  <2>1. k \in Compiled
    <3>1. next_func \in Nat /\ Len(functions) \in Nat
      <4>1. next_func \in Nat /\ functions \in Seq(Function)
        BY DEF IInv, TypeOK
      <4> QED BY <4>1
    <3>2. k < next_func - 1 \/ k = next_func - 1
      BY <1>3, <3>1
    <3> QED BY <1>3, <1>8, <3>2 DEF Compiled
  <2>2. PICK last \in 1..Len(list) : \E first \in 1..last : Region(k, first, last)
    BY <2>1, CompiledPlaced
  <2>3. PICK first \in 1..last : Region(k, first, last)
    BY <2>2
  <2>4. first \in 1..Len(list) /\ list[first] = functions[k].ir_list_head
    BY <2>3 DEF Region
  <2> QED BY <2>4 DEF Listed
<1> QED BY <1>1, <1>2, <1>6, <1>7, <1>8

\* For every program, when the compiler is done every jump is patched and stays
\* inside its function, every call goes to a function's head, and every
\* function that can be called is linked.
THEOREM ClosedControlFlow == Spec => []ControlFlowClosed
<1>1. IInv /\ CodeInv /\ RegionInv => ControlFlowClosed
  BY JumpsClosed
<1> QED BY <1>1, RegionInvariance, PTL

\* For every program, a function's frame covers every slot its code uses, and
\* the epilogue releases what the prologue reserved.
THEOREM LocalsInFrames == Spec => []LocalsInsideFrame
<1>1. IInv /\ CodeInv /\ RegionInv => LocalsInsideFrame
  BY FramesCover
<1> QED BY <1>1, RegionInvariance, PTL
=============================================================================

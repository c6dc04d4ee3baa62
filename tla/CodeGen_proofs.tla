---------------------------- MODULE CodeGen_proofs ----------------------------
(***************************************************************************)
(* The invariants of the code generator, for every syntax tree: the        *)
(* invariant IInv of module CodeGenInv is inductive.  The lemmas before it *)
(* are facts about the trees, the recursion, emitted nodes, lookups and    *)
(* scopes.                                                                 *)
(***************************************************************************)
EXTENDS CodeGenInv, FiniteSetTheorems, SequenceTheorems, WellFoundedInduction, TLAPS

(* A scan of a finite sequence finds its first, or its last, match: what   *)
(* the lookups of the compiler rely on when they CHOOSE an index.          *)

\* A family of sets of indices has a member that includes no other member.
LEMMA SmallestSet ==
  ASSUME NEW n \in Nat, NEW F, \A X \in F : X \subseteq 1..n, F # {}
  PROVE  \E X \in F : \A Y \in F : Y \subseteq X => Y = X
<1> DEFINE R == StrictSubsetOrdering(1..n)
<1>1. IsWellFoundedOn(R, SUBSET (1..n))
  <2>1. IsFiniteSet(1..n)
    BY FS_Interval
  <2>2. FiniteSubsetsOf(1..n) = SUBSET (1..n)
    BY <2>1, FS_FiniteSubsetsOfFinite
  <2>3. IsWellFoundedOn(R, FiniteSubsetsOf(1..n))
    BY FS_StrictSubsetOrderingWellFounded
  <2> QED BY <2>2, <2>3
<1>2. \E X \in F : \A Y \in F : <<Y, X>> \notin R
  <2>1. F \subseteq SUBSET (1..n)
    OBVIOUS
  <2> QED BY <1>1, <2>1, WFMin
<1> QED BY <1>2 DEF StrictSubsetOrdering

\* A non-empty set of indices has a last one.
LEMMA LastIndex ==
  ASSUME NEW n \in Nat, NEW T \in SUBSET (1..n), T # {}
  PROVE  \E i \in T : \A j \in (i + 1)..n : j \notin T
<1> DEFINE F == {i..n : i \in T}
<1>1. (\A X \in F : X \subseteq 1..n) /\ F # {}
  <2>1. ASSUME NEW X \in F PROVE X \subseteq 1..n
    <3>1. PICK i \in T : X = i..n
      OBVIOUS
    <3> QED BY <3>1
  <2>2. PICK i \in T : TRUE
    OBVIOUS
  <2>3. i..n \in F
    BY <2>2
  <2> QED BY <2>1, <2>3
<1> HIDE DEF F
<1>2. PICK X \in F : \A Y \in F : Y \subseteq X => Y = X
  BY <1>1, SmallestSet
<1>3. PICK i \in T : X = i..n
  BY <1>2 DEF F
<1>4. ASSUME NEW j \in (i + 1)..n, j \in T PROVE FALSE
  <2>1. j..n \in F /\ j..n \subseteq i..n
    BY <1>4 DEF F
  <2>2. i \in i..n /\ i \notin j..n
    BY <1>4
  <2> QED BY <1>2, <1>3, <2>1, <2>2
<1> QED BY <1>4

\* A non-empty set of indices has a first one.
LEMMA FirstIndex ==
  ASSUME NEW n \in Nat, NEW T \in SUBSET (1..n), T # {}
  PROVE  \E i \in T : \A j \in 1..(i - 1) : j \notin T
<1> DEFINE F == {1..i : i \in T}
<1>1. (\A X \in F : X \subseteq 1..n) /\ F # {}
  <2>1. ASSUME NEW X \in F PROVE X \subseteq 1..n
    <3>1. PICK i \in T : X = 1..i
      OBVIOUS
    <3> QED BY <3>1
  <2>2. PICK i \in T : TRUE
    OBVIOUS
  <2>3. 1..i \in F
    BY <2>2
  <2> QED BY <2>1, <2>3
<1> HIDE DEF F
<1>2. PICK X \in F : \A Y \in F : Y \subseteq X => Y = X
  BY <1>1, SmallestSet
<1>3. PICK i \in T : X = 1..i
  BY <1>2 DEF F
<1>4. ASSUME NEW j \in 1..(i - 1), j \in T PROVE FALSE
  <2>1. 1..j \in F /\ 1..j \subseteq 1..i
    BY <1>4 DEF F
  <2>2. i \in 1..i /\ i \notin 1..j
    BY <1>4
  <2> QED BY <1>2, <1>3, <2>1, <2>2
<1> QED BY <1>4

\* The first n elements of a sequence.
LEMMA FrontOf ==
  ASSUME NEW S, NEW s \in Seq(S), NEW n \in 0..Len(s)
  PROVE  /\ SubSeq(s, 1, n) \in Seq(S)
         /\ Len(SubSeq(s, 1, n)) = n
         /\ \A i \in 1..n : SubSeq(s, 1, n)[i] = s[i]
<1>1. \A i \in 1..n : s[i] \in S
  OBVIOUS
<1>2. 1 \in Int /\ n \in Int
  OBVIOUS
<1>3. /\ SubSeq(s, 1, n) \in Seq(S)
      /\ Len(SubSeq(s, 1, n)) = IF 1 <= n THEN n - 1 + 1 ELSE 0
  BY <1>1, <1>2, SubSeqProperties
<1>4. \A i \in 1..n : SubSeq(s, 1, n)[i] = s[i]
  OBVIOUS
<1> QED BY <1>3, <1>4

-----------------------------------------------------------------------------

(* Trees.                                                                  *)

\* The fields of a node, and what may be below it.
LEMMA NodeFields ==
  ASSUME NEW n \in Node
  PROVE  /\ n.type \in NodeType
         /\ n.left \in Node \cup {NULL}
         /\ n.right \in Node \cup {NULL}
         /\ TypeOf(n.left) \in LeftChild(n.type)
         /\ TypeOf(n.right) \in RightChild(n.type)
         /\ n.type \in Named => n.value \in Name
         /\ n.type = "CONST" => n.num \in Number
         /\ n.type = "OP" => n.value \in op_type
         /\ n # NULL
         /\ ChainOf(n.left) \in Nat
         /\ ChainOf(n.right) \in Nat
BY NodeAssumption, ChainAssumption

\* A child that is there has its parent's kind of type.
LEMMA ChildTypes ==
  ASSUME NEW n \in Node, NEW c \in Node, c = n.left \/ c = n.right
  PROVE  /\ n.type = "NFUN" => /\ c = n.left => c.type = "ARG"
                               /\ c = n.right => c.type = "BLOCK"
         /\ n.type = "ARG" => c.type = "ARG"
         /\ n.type = "NVAR" => c.type \in ExpressionPart
         /\ n.type \in ExpressionPart => c.type \in ExpressionPart
         /\ n.type \in BodyPart => c.type \in BodyPart
         /\ n.type # "DEFS" => c.type \notin {"DEFS", "NFUN"}
<1>1. TypeOf(c) = c.type /\ c.type # "none"
  BY NodeFields DEF TypeOf, NodeType, Expression, Statement
<1>2. c.type \in LeftChild(n.type) \/ c.type \in RightChild(n.type)
  BY <1>1, NodeFields
<1>3. /\ c = n.left => c.type \in LeftChild(n.type)
      /\ c = n.right => c.type \in RightChild(n.type)
  BY <1>1, NodeFields
<1>4. n.type \in NodeType
  BY NodeFields
<1>5. n.type = "NFUN" => /\ c = n.left => c.type = "ARG"
                         /\ c = n.right => c.type = "BLOCK"
  BY <1>1, <1>3 DEF LeftChild, RightChild
<1>6. n.type = "ARG" => c.type = "ARG"
  BY <1>1, <1>2 DEF LeftChild, RightChild, NodeType, Expression, Statement
<1>7. n.type \in ExpressionPart \cup {"NVAR"} => c.type \in ExpressionPart
  BY <1>1, <1>2 DEF LeftChild, RightChild, ExpressionPart, Expression
<1>8. n.type \in BodyPart => c.type \in BodyPart
  BY <1>1, <1>2 DEF LeftChild, RightChild, BodyPart, Expression, Statement
<1>9. n.type # "DEFS" => c.type \notin {"DEFS", "NFUN"}
  BY <1>1, <1>2, <1>4 DEF LeftChild, RightChild, NodeType, Expression, Statement
<1> QED BY <1>5, <1>6, <1>7, <1>8, <1>9

\* A function has a body.
LEMMA FunctionBody ==
  ASSUME NEW n \in Node, n.type = "NFUN"
  PROVE  n.right # NULL
BY NodeFields DEF TypeOf, RightChild

-----------------------------------------------------------------------------
(* The recursion.                                                          *)

\* One call of a handler at the top of the recursion, and what follows it.
LEMMA ProceedWalk ==
  ASSUME walk \in Seq(Frame), walk # <<>>, Proceed
  PROVE  /\ walk' \in Seq(Frame)
         /\ \A i \in 1..(Len(walk) - 1) : walk'[i] = walk[i]
         /\ Top.stage = COMPILED_RIGHT => Len(walk') = Len(walk) - 1
         /\ Top.stage # COMPILED_RIGHT =>
              /\ Len(walk') \in {Len(walk), Len(walk) + 1}
              /\ walk'[Len(walk)].node = Top.node
              /\ walk'[Len(walk)].stage = Top.stage + 1
         /\ Len(walk') = Len(walk) + 1 =>
              /\ walk'[Len(walk')].stage = COMPILING_LEFT
              /\ \/ /\ Top.stage = COMPILING_LEFT
                    /\ walk'[Len(walk')].node = Top.node.left
                 \/ /\ Top.stage = COMPILING_RIGHT
                    /\ walk'[Len(walk')].node = Top.node.right
         /\ Top.stage = COMPILING_RIGHT /\ Top.node.right # NULL =>
              Len(walk') = Len(walk) + 1
         /\ Top.stage = COMPILING_LEFT /\ Top.node.left # NULL =>
              Len(walk') = Len(walk) + 1
<1> USE DEF COMPILING_LEFT, COMPILED_LEFT, COMPILING_RIGHT, COMPILED_RIGHT
<1> DEFINE n == Len(walk)
<1>1. n \in Nat \ {0} /\ walk[n] \in Frame
  OBVIOUS
<1>2. /\ Top.node \in Node
      /\ Top.stage \in 0..3
      /\ Top.node.left \in Node \cup {NULL}
      /\ Top.node.right \in Node \cup {NULL}
      /\ Top = walk[n]
  BY <1>1, NodeFields DEF Top, Frame, COMPILING_LEFT, COMPILED_RIGHT
<1>3. ASSUME Top.stage # COMPILED_RIGHT
      PROVE  /\ Resumed \in Seq(Frame)
             /\ Len(Resumed) = n
             /\ \A i \in 1..(n - 1) : Resumed[i] = walk[i]
             /\ Resumed[n].node = Top.node
             /\ Resumed[n].stage = Top.stage + 1
  BY <1>1, <1>2, <1>3 DEF Resumed, Frame, COMPILING_LEFT, COMPILED_RIGHT
<1>4. ASSUME NEW c \in Node \cup {NULL}, Top.stage # COMPILED_RIGHT
      PROVE  /\ Enter(Resumed, c) \in Seq(Frame)
             /\ Len(Enter(Resumed, c)) = IF c = NULL THEN n ELSE n + 1
             /\ \A i \in 1..n : Enter(Resumed, c)[i] = Resumed[i]
             /\ c # NULL => Enter(Resumed, c)[n + 1] = [node |-> c, stage |-> COMPILING_LEFT]
  <2>1. CASE c = NULL
    BY <1>1, <1>3, <1>4, <2>1 DEF Enter
  <2>2. CASE c # NULL
    <3>1. [node |-> c, stage |-> COMPILING_LEFT] \in Frame
      BY <1>4, <2>2 DEF Frame, COMPILING_LEFT, COMPILED_RIGHT
    <3> QED BY <1>1, <1>3, <1>4, <2>2, <3>1, AppendProperties DEF Enter
  <2> QED BY <2>1, <2>2
<1>5. CASE Top.stage = COMPILING_LEFT
  <2>1. walk' = Enter(Resumed, Top.node.left)
    BY <1>5 DEF Proceed
  <2>2. /\ walk' \in Seq(Frame)
        /\ Len(walk') = IF Top.node.left = NULL THEN n ELSE n + 1
        /\ \A i \in 1..n : walk'[i] = Resumed[i]
        /\ Top.node.left # NULL =>
             walk'[n + 1] = [node |-> Top.node.left, stage |-> COMPILING_LEFT]
    BY <1>2, <1>4, <1>5, <2>1
  <2>3. \A i \in 1..(n - 1) : walk'[i] = walk[i]
    BY <1>1, <1>3, <1>5, <2>2
  <2>4. walk'[n].node = Top.node /\ walk'[n].stage = Top.stage + 1
    BY <1>1, <1>3, <1>5, <2>2
  <2> QED BY <1>1, <1>5, <2>2, <2>3, <2>4
<1>6. CASE Top.stage = COMPILED_LEFT
  <2>1. walk' = Resumed
    BY <1>6 DEF Proceed
  <2> QED BY <1>1, <1>2, <1>3, <1>6, <2>1
<1>7. CASE Top.stage = COMPILING_RIGHT
  <2>1. walk' = Enter(Resumed, Top.node.right)
    BY <1>7 DEF Proceed
  <2>2. /\ walk' \in Seq(Frame)
        /\ Len(walk') = IF Top.node.right = NULL THEN n ELSE n + 1
        /\ \A i \in 1..n : walk'[i] = Resumed[i]
        /\ Top.node.right # NULL =>
             walk'[n + 1] = [node |-> Top.node.right, stage |-> COMPILING_LEFT]
    BY <1>2, <1>4, <1>7, <2>1
  <2>3. \A i \in 1..(n - 1) : walk'[i] = walk[i]
    BY <1>1, <1>3, <1>7, <2>2
  <2>4. walk'[n].node = Top.node /\ walk'[n].stage = Top.stage + 1
    BY <1>1, <1>3, <1>7, <2>2
  <2> QED BY <1>1, <1>7, <2>2, <2>3, <2>4
<1>8. CASE Top.stage = COMPILED_RIGHT
  <2>1. walk' = SubSeq(walk, 1, n - 1)
    BY <1>8 DEF Proceed
  <2>2. n - 1 \in 0..n
    BY <1>1
  <2>3. /\ SubSeq(walk, 1, n - 1) \in Seq(Frame)
        /\ Len(SubSeq(walk, 1, n - 1)) = n - 1
        /\ \A i \in 1..(n - 1) : SubSeq(walk, 1, n - 1)[i] = walk[i]
    BY <2>2, FrontOf
  <2> QED BY <1>1, <1>8, <2>1, <2>3
<1> QED BY <1>2, <1>5, <1>6, <1>7, <1>8

\* The recursion keeps its shape.
LEMMA ProceedShape ==
  ASSUME walk \in Seq(Frame), walk # <<>>, WalkShape, Proceed
  PROVE  WalkShape'
<1> USE DEF COMPILING_LEFT, COMPILED_LEFT, COMPILING_RIGHT, COMPILED_RIGHT
<1> DEFINE n == Len(walk)
           m == Len(walk')
<1>1. /\ n \in Nat \ {0} /\ m \in Nat
      /\ walk' \in Seq(Frame)
      /\ Top = walk[n]
      /\ Top.node \in Node /\ Top.stage \in 0..3
  <2>1. n \in Nat \ {0} /\ walk[n] \in Frame /\ Top = walk[n]
    BY DEF Top
  <2>2. walk' \in Seq(Frame)
    BY ProceedWalk
  <2> QED BY <2>1, <2>2 DEF Frame
<1>2. \A i \in 1..(n - 1) : walk'[i] = walk[i]
  BY ProceedWalk
<1>3. Top.stage = 3 => m = n - 1
  BY ProceedWalk
<1>4. Top.stage # 3 => /\ m \in {n, n + 1}
                       /\ walk'[n].node = Top.node
                       /\ walk'[n].stage = Top.stage + 1
  BY ProceedWalk
<1>5. m = n + 1 => /\ walk'[m].node \in Node
                   /\ \/ Top.stage = 0 /\ walk'[m].node = Top.node.left
                      \/ Top.stage = 2 /\ walk'[m].node = Top.node.right
  <2>1. m = n + 1 => walk'[m] \in Frame
    BY <1>1
  <2> QED BY <2>1, ProceedWalk DEF Frame
<1>6. walk[1].node.type \in {"NVAR", "NFUN"}
  BY DEF WalkShape
<1>7. CASE n = 1
  <2>1. CASE Top.stage = 3
    BY <1>1, <1>3, <1>7, <2>1 DEF WalkShape
  <2>2. CASE Top.stage # 3 /\ m = 1
    BY <1>1, <1>4, <1>6, <1>7, <2>2 DEF WalkShape
  <2>3. CASE Top.stage # 3 /\ m = 2
    <3>1. /\ walk'[1].node = Top.node
          /\ Top.node.type \in {"NVAR", "NFUN"}
          /\ walk'[1].stage = Top.stage + 1
      BY <1>1, <1>4, <1>6, <1>7, <2>3
    <3>2. Top.node.type = "NVAR" => walk'[2].node.type \in ExpressionPart
      BY <1>1, <1>5, <1>7, <2>3, ChildTypes
    <3>3. Top.node.type = "NFUN" =>
            \/ Top.stage = 0 /\ walk'[2].node.type = "ARG"
            \/ Top.stage = 2 /\ walk'[2].node.type = "BLOCK"
      BY <1>1, <1>5, <1>7, <2>3, ChildTypes
    <3>4. \A i \in 2..m : i = 2
      BY <2>3
    <3> QED BY <1>1, <2>3, <3>1, <3>2, <3>3, <3>4 DEF WalkShape, BodyPart, Statement
  <2> QED BY <1>4, <1>7, <2>1, <2>2, <2>3
<1>8. CASE n > 1
  <2>1. walk'[1] = walk[1] /\ walk' # <<>>
    BY <1>1, <1>2, <1>3, <1>4, <1>8
  <2>2. \A i \in 2..m : \/ i < n /\ walk'[i].node = walk[i].node
                        \/ i = n /\ walk'[i].node = walk[n].node
                        \/ i = n + 1 /\ i = m
    BY <1>1, <1>2, <1>3, <1>4, <1>8
  <2>3. ASSUME NEW T \in {ExpressionPart, {"ARG"}, BodyPart},
               \A i \in 2..n : walk[i].node.type \in T
        PROVE  \A i \in 2..m : walk'[i].node.type \in T
    <3>1. Top.node.type \in T
      BY <1>1, <1>8, <2>3
    <3>2. m = n + 1 => walk'[m].node.type \in T
      BY <1>1, <1>5, <2>3, <3>1, ChildTypes
    <3> QED BY <1>1, <1>8, <2>2, <2>3, <3>2
  <2>4. walk[2].node.type = "BLOCK" /\ m > 1 => walk'[2].node.type = "BLOCK"
    BY <1>1, <1>2, <1>4, <1>3, <1>8
  <2>5. CASE walk[1].node.type = "NVAR"
    BY <1>6, <1>8, <2>1, <2>3, <2>5 DEF WalkShape
  <2>6. CASE walk[1].node.type = "NFUN"
    <3>1. CASE walk[1].stage = 1 /\ \A i \in 2..n : walk[i].node.type = "ARG"
      <4>1. \A i \in 2..m : walk'[i].node.type \in {"ARG"}
        BY <2>3, <3>1
      <4> QED BY <2>1, <2>6, <3>1, <4>1 DEF WalkShape
    <3>2. CASE /\ walk[1].stage = 3
               /\ walk[2].node.type = "BLOCK"
               /\ \A i \in 2..n : walk[i].node.type \in BodyPart
      <4>1. \A i \in 2..m : walk'[i].node.type \in BodyPart
        BY <2>3, <3>2
      <4> QED BY <2>1, <2>4, <2>6, <3>2, <4>1 DEF WalkShape
    <3> QED BY <1>8, <2>6, <3>1, <3>2 DEF WalkShape
  <2> QED BY <1>6, <2>5, <2>6
<1>9. n = 1 \/ n > 1
  <2>1. n \in Nat /\ n # 0
    OBVIOUS
  <2> HIDE DEF n
  <2> QED BY <2>1
<1> QED BY <1>7, <1>8, <1>9

\* The set of open activations grows and shrinks by one at the top.
LEMMA ProceedOpen ==
  ASSUME walk \in Seq(Frame), walk # <<>>, Proceed,
         NEW type, NEW stage \in 1..3
  PROVE  /\ Cardinality(Open(type, stage)) \in Nat
         /\ Top.node.type = type /\ Top.stage >= stage => Cardinality(Open(type, stage)) >= 1
         /\ Cardinality(Open(type, stage))' =
              IF Top.node.type # type THEN Cardinality(Open(type, stage))
              ELSE IF Top.stage = COMPILED_RIGHT THEN Cardinality(Open(type, stage)) - 1
              ELSE IF Top.stage + 1 = stage THEN Cardinality(Open(type, stage)) + 1
              ELSE Cardinality(Open(type, stage))
<1> USE DEF COMPILING_LEFT, COMPILED_LEFT, COMPILING_RIGHT, COMPILED_RIGHT
<1> DEFINE n == Len(walk)
           m == Len(walk')
           S == Open(type, stage)
           T == {i \in 1..m : walk'[i].node.type = type /\ walk'[i].stage >= stage}
<1>0. S' = T
  BY DEF Open
<1>1. /\ n \in Nat \ {0} /\ m \in Nat
      /\ walk' \in Seq(Frame)
      /\ Top = walk[n]
      /\ Top.node \in Node /\ Top.stage \in 0..3
  <2>1. n \in Nat \ {0} /\ walk[n] \in Frame /\ Top = walk[n]
    BY DEF Top
  <2>2. walk' \in Seq(Frame)
    BY ProceedWalk
  <2> QED BY <2>1, <2>2 DEF Frame
<1>2. \A i \in 1..(n - 1) : walk'[i] = walk[i]
  BY ProceedWalk
<1>3. Top.stage = 3 => m = n - 1
  BY ProceedWalk
<1>4. Top.stage # 3 => /\ m \in {n, n + 1}
                       /\ walk'[n].node = Top.node
                       /\ walk'[n].stage = Top.stage + 1
  BY ProceedWalk
<1>5. m = n + 1 => walk'[m].stage = 0
  BY ProceedWalk
<1>6. IsFiniteSet(S) /\ Cardinality(S) \in Nat
  <2>1. IsFiniteSet(1..n) /\ S \subseteq 1..n
    BY <1>1, FS_Interval DEF Open
  <2> QED BY <2>1, FS_Subset, FS_CardinalityType
<1>7. n \in S <=> Top.node.type = type /\ Top.stage >= stage
  BY <1>1 DEF Open
<1>8. n \in S => Cardinality(S) >= 1 /\ Cardinality(S \ {n}) = Cardinality(S) - 1
  <2>1. Cardinality(S) = 0 <=> S = {}
    BY <1>6, FS_EmptySet
  <2>2. n \in S => Cardinality(S \ {n}) = Cardinality(S) - 1
    BY <1>6, FS_RemoveElement
  <2> QED BY <1>6, <2>1, <2>2
<1>9. CASE Top.node.type # type
  <2>1. T = S
    BY <1>1, <1>2, <1>3, <1>4, <1>5, <1>9 DEF Open
  <2> QED BY <1>0, <1>6, <1>7, <1>9, <2>1
<1>10. CASE Top.node.type = type /\ Top.stage = 3
  <2>1. T = S \ {n}
    BY <1>1, <1>2, <1>3, <1>10 DEF Open
  <2>2. n \in S
    BY <1>1, <1>7, <1>10
  <2>3. Cardinality(S)' = Cardinality(S) - 1
    BY <1>0, <1>8, <2>1, <2>2
  <2> QED BY <1>6, <1>8, <1>10, <2>2, <2>3
<1>11. CASE Top.node.type = type /\ Top.stage # 3 /\ Top.stage + 1 = stage
  <2>1. T = S \cup {n}
    BY <1>1, <1>2, <1>4, <1>5, <1>11 DEF Open
  <2>2. n \notin S
    BY <1>1, <1>7, <1>11
  <2>3. Cardinality(T) = Cardinality(S) + 1
    BY <1>6, <2>1, <2>2, FS_AddElement
  <2> QED BY <1>0, <1>1, <1>6, <1>7, <1>11, <2>3
<1>12. CASE Top.node.type = type /\ Top.stage # 3 /\ Top.stage + 1 # stage
  <2>1. T = S
    BY <1>1, <1>2, <1>4, <1>5, <1>12 DEF Open
  <2> QED BY <1>0, <1>6, <1>7, <1>8, <1>12, <2>1
<1> QED BY <1>9, <1>10, <1>11, <1>12

-----------------------------------------------------------------------------
(* The emitted nodes.                                                      *)

\* The operands the generator uses are operands.
LEMMA OperandTypes ==
  /\ operand_none \in ir_operand
  /\ operand_top \in ir_operand
  /\ \A r \in ir_reg : operand_reg(r) \in ir_operand
  /\ \A i \in Int : /\ operand_imm(i) \in ir_operand
                    /\ operand_abs(i) \in ir_operand
                    /\ operand_rbp(i) \in ir_operand
BY DEF operand_none, operand_top, operand_reg, operand_imm, operand_abs, operand_rbp,
       ir_operand, ir_reg

\* Whatever is built from them is a node.
LEMMA InstructionTypes ==
  /\ \A op \in ir_op, d, s \in ir_operand, c \in ir_cond_flags, t \in Nat :
       instruction(op, d, s, c, t) \in IrNode
  /\ \A op \in ir_op, d, s \in ir_operand : new_binary(op, d, s) \in IrNode
  /\ \A op \in ir_op, d \in ir_operand : new_unary(op, d) \in IrNode
  /\ \A c \in ir_cond_flags, t \in Nat : new_jmp(c, t) \in IrNode
  /\ \A t \in Nat : new_call(t) \in IrNode
  /\ \A r \in ir_reg : new_push_reg(r) \in IrNode /\ new_pop_reg(r) \in IrNode
  /\ new_empty \in IrNode /\ new_ret \in IrNode /\ new_syscall \in IrNode
<1>1. \A op \in ir_op, d, s \in ir_operand, c \in ir_cond_flags, t \in Nat :
        instruction(op, d, s, c, t) \in IrNode
  BY DEF instruction, IrNode
<1>2. "NONE" \in ir_cond_flags /\ NIL \in Nat
  BY DEF ir_cond_flags, NIL
<1>3. {"PUSH", "POP", "NOP", "JMP", "CALL", "RET", "SYSCALL"} \subseteq ir_op
  BY DEF ir_op
<1>4. \A op \in ir_op, d, s \in ir_operand : new_binary(op, d, s) \in IrNode
  BY <1>1, <1>2 DEF new_binary
<1>5. \A op \in ir_op, d \in ir_operand : new_unary(op, d) \in IrNode
  BY <1>4, OperandTypes DEF new_unary
<1>6. \A c \in ir_cond_flags, t \in Nat : new_jmp(c, t) \in IrNode
  BY <1>1, <1>3, OperandTypes DEF new_jmp
<1>7. \A t \in Nat : new_call(t) \in IrNode
  BY <1>1, <1>2, <1>3, OperandTypes DEF new_call
<1>8. \A r \in ir_reg : new_push_reg(r) \in IrNode /\ new_pop_reg(r) \in IrNode
  BY <1>3, <1>5, OperandTypes DEF new_push_reg, new_pop_reg
<1>9. new_empty \in IrNode /\ new_ret \in IrNode /\ new_syscall \in IrNode
  BY <1>1, <1>2, <1>3, <1>5, OperandTypes DEF new_empty, new_ret, new_syscall
<1> QED BY <1>1, <1>4, <1>5, <1>6, <1>7, <1>8, <1>9

\* Nodes that do nothing to control, to the frame or to a variable.
DataNode ==
  {node \in IrNode :
     /\ node.operation \notin {"JMP", "CALL", "RET", "SYSCALL"}
     /\ node.operation = "SUB" => node.operand1 # operand_reg("RSP")
     /\ node.operation = "ADD" /\ node.operand1 = operand_reg("RSP") =>
          node.operand2.immediate \in Nat
     /\ "IMM" \notin node.operand1.flags}

DataRegister == {"RAX", "RBX", "RDX", "RDI"}

\* Nodes that work on the four registers and on the top of the stack are such.
LEMMA DataNodes ==
  /\ \A op \in ir_op \ {"JMP", "CALL", "RET", "SYSCALL"} :
       /\ \A r \in DataRegister, s \in ir_operand :
            /\ new_unary(op, operand_reg(r)) \in DataNode
            /\ new_binary(op, operand_reg(r), s) \in DataNode
            /\ \A c \in ir_cond_flags : instruction(op, operand_reg(r), s, c, NIL) \in DataNode
       /\ new_unary(op, operand_top) \in DataNode
       /\ \A s \in ir_operand : new_binary(op, operand_top, s) \in DataNode
  /\ \A r \in ir_reg : new_push_reg(r) \in DataNode /\ new_pop_reg(r) \in DataNode
  /\ new_empty \in DataNode
<1>1. DataRegister \subseteq ir_reg /\ "NONE" \in ir_cond_flags /\ NIL \in Nat
  BY DEF DataRegister, ir_reg, ir_cond_flags, NIL
<1>2. ASSUME NEW op \in ir_op \ {"JMP", "CALL", "RET", "SYSCALL"}, NEW c \in ir_cond_flags,
             NEW d \in ir_operand, NEW s \in ir_operand,
             "IMM" \notin d.flags, op \in {"ADD", "SUB"} => d # operand_reg("RSP")
      PROVE  instruction(op, d, s, c, NIL) \in DataNode
  <2>1. instruction(op, d, s, c, NIL) \in IrNode
    BY <1>1, InstructionTypes
  <2>2. /\ instruction(op, d, s, c, NIL).operation = op
        /\ instruction(op, d, s, c, NIL).operand1 = d
    BY DEF instruction
  <2> QED BY <1>2, <2>1, <2>2 DEF DataNode
<1>3. \A r \in ir_reg : operand_reg(r) \in ir_operand /\ "IMM" \notin operand_reg(r).flags
  BY OperandTypes DEF operand_reg
<1>4. \A r \in DataRegister : operand_reg(r) # operand_reg("RSP")
  BY DEF operand_reg, DataRegister
<1>5. operand_top \in ir_operand /\ "IMM" \notin operand_top.flags
      /\ operand_top # operand_reg("RSP")
  BY OperandTypes DEF operand_top, operand_reg
<1>6. operand_none \in ir_operand /\ "IMM" \notin operand_none.flags
  BY OperandTypes DEF operand_none
<1>7. {"PUSH", "POP", "NOP"} \subseteq ir_op
  BY DEF ir_op
<1>8. \A r \in ir_reg : new_push_reg(r) \in DataNode /\ new_pop_reg(r) \in DataNode
  BY <1>1, <1>2, <1>3, <1>6, <1>7 DEF new_push_reg, new_pop_reg, new_unary, new_binary
<1>9. new_empty \in DataNode
  BY <1>1, <1>2, <1>6, <1>7 DEF new_empty
<1>10. ASSUME NEW op \in ir_op \ {"JMP", "CALL", "RET", "SYSCALL"}
       PROVE  /\ \A r \in DataRegister, s \in ir_operand :
                   /\ new_unary(op, operand_reg(r)) \in DataNode
                   /\ new_binary(op, operand_reg(r), s) \in DataNode
                   /\ \A c \in ir_cond_flags : instruction(op, operand_reg(r), s, c, NIL) \in DataNode
              /\ new_unary(op, operand_top) \in DataNode
              /\ \A s \in ir_operand : new_binary(op, operand_top, s) \in DataNode
  BY <1>1, <1>2, <1>3, <1>4, <1>5, <1>6 DEF new_unary, new_binary
<1> QED BY <1>8, <1>9, <1>10

\* The code of an operator consists of such nodes.
LEMMA DataCode ==
  /\ \A op \in op_type \ {"NOT", "NEG"} : binary_code(op) \in Seq(DataNode)
  /\ \A op \in {"NOT", "NEG"} : unary_code(op) \in Seq(DataNode)
<1> USE DEF ir_reg, ir_op, DataRegister
<1>1. {"RAX", "RBX", "RDX"} \subseteq ir_reg
  OBVIOUS
<1>2. /\ operand_reg("RAX") \in ir_operand
      /\ operand_reg("RBX") \in ir_operand
      /\ operand_reg("RDX") \in ir_operand
      /\ operand_imm(1) \in ir_operand
      /\ operand_imm(1000) \in ir_operand
      /\ operand_top \in ir_operand
  BY <1>1, OperandTypes
<1>3. /\ new_push_reg("RAX") \in DataNode
      /\ new_pop_reg("RAX") \in DataNode
      /\ new_pop_reg("RBX") \in DataNode
  BY <1>1, DataNodes
<1>5. div_code \in Seq(DataNode)
  <2>1. new_binary("XOR", operand_reg("RDX"), operand_reg("RDX")) \in DataNode
    BY <1>2, DataNodes
  <2>2. new_unary("DIV", operand_reg("RBX")) \in DataNode
    BY <1>2, DataNodes
  <2> QED BY <2>1, <2>2 DEF div_code
<1>6. ASSUME NEW op \in {"LT", "GT", "LEQ", "GEQ", "EQ", "NEQ"}
      PROVE  cmp_code(op) \in Seq(DataNode)
  <2>1. new_binary("XOR", operand_reg("RDX"), operand_reg("RDX")) \in DataNode
    BY <1>2, DataNodes
  <2>2. new_binary("CMP", operand_reg("RAX"), operand_reg("RBX")) \in DataNode
    BY <1>2, DataNodes
  <2>3. new_binary("MOV", operand_reg("RAX"), operand_imm(1)) \in DataNode
    BY <1>2, DataNodes
  <2>4. cmp_flags[op] \in ir_cond_flags
    BY DEF cmp_flags, ir_cond_flags
  <2>5. instruction("CMOV", operand_reg("RDX"), operand_reg("RAX"), cmp_flags[op], NIL) \in DataNode
    BY <1>2, <2>4, DataNodes
  <2>6. new_binary("MOV", operand_reg("RAX"), operand_reg("RDX")) \in DataNode
    BY <1>2, DataNodes
  <2> QED BY <2>1, <2>2, <2>3, <2>5, <2>6 DEF cmp_code
<1>7. ASSUME NEW op \in op_type \ {"NOT", "NEG"}
      PROVE  binary_code(op) \in Seq(DataNode)
  <2> DEFINE middle ==
        CASE op \in DOMAIN cmp_flags -> cmp_code(op)
          [] op \in {"ADD", "SUB", "AND", "OR"} ->
               << new_binary(op, operand_reg("RAX"), operand_reg("RBX")) >>
          [] op = "MUL" ->
               << new_binary("MUL", operand_reg("RAX"), operand_reg("RBX")),
                  new_binary("MOV", operand_reg("RBX"), operand_imm(1000)) >> \o div_code
          [] op = "DIV" -> div_code
  <2>0. DOMAIN cmp_flags = {"LT", "GT", "LEQ", "GEQ", "EQ", "NEQ"}
    BY DEF cmp_flags
  <2>5. middle \in Seq(DataNode)
    <3>1. CASE op \in {"LT", "GT", "LEQ", "GEQ", "EQ", "NEQ"}
      <4>1. middle = cmp_code(op)
        BY <2>0, <3>1
      <4> QED BY <1>6, <3>1, <4>1
    <3>2. CASE op \in {"ADD", "SUB", "AND", "OR"}
      <4>1. middle = << new_binary(op, operand_reg("RAX"), operand_reg("RBX")) >>
        BY <2>0, <3>2
      <4>2. new_binary(op, operand_reg("RAX"), operand_reg("RBX")) \in DataNode
        BY <1>2, <3>2, DataNodes
      <4>3. << new_binary(op, operand_reg("RAX"), operand_reg("RBX")) >> \in Seq(DataNode)
        BY <4>2
      <4> HIDE DEF middle
      <4> QED BY <4>1, <4>3
    <3>3. CASE op = "MUL"
      <4>1. middle = << new_binary("MUL", operand_reg("RAX"), operand_reg("RBX")),
                        new_binary("MOV", operand_reg("RBX"), operand_imm(1000)) >> \o div_code
        BY <2>0, <3>3
      <4>2. /\ new_binary("MUL", operand_reg("RAX"), operand_reg("RBX")) \in DataNode
            /\ new_binary("MOV", operand_reg("RBX"), operand_imm(1000)) \in DataNode
        BY <1>2, DataNodes
      <4>3. << new_binary("MUL", operand_reg("RAX"), operand_reg("RBX")),
               new_binary("MOV", operand_reg("RBX"), operand_imm(1000)) >> \in Seq(DataNode)
        BY <4>2
      <4> HIDE DEF middle
      <4> QED BY <1>5, <4>1, <4>3, ConcatProperties
    <3>4. CASE op = "DIV"
      BY <1>5, <2>0, <3>4
    <3> QED BY <3>1, <3>2, <3>3, <3>4 DEF op_type
  <2>6. << new_pop_reg("RBX"), new_pop_reg("RAX") >> \in Seq(DataNode)
    BY <1>3
  <2>7. << new_push_reg("RAX") >> \in Seq(DataNode)
    BY <1>3
  <2>8. binary_code(op) = << new_pop_reg("RBX"), new_pop_reg("RAX") >> \o middle
                            \o << new_push_reg("RAX") >>
    BY DEF binary_code
  <2> HIDE DEF middle
  <2> QED BY <2>5, <2>6, <2>7, <2>8, ConcatProperties
<1>8. ASSUME NEW op \in {"NOT", "NEG"} PROVE unary_code(op) \in Seq(DataNode)
  <2>1. /\ new_unary("NEG", operand_top) \in DataNode
        /\ new_unary("NOT", operand_top) \in DataNode
        /\ new_binary("AND", operand_top, operand_imm(1)) \in DataNode
    BY <1>2, DataNodes
  <2> QED BY <2>1 DEF unary_code
<1> QED BY <1>7, <1>8

\* The fixed pieces of code are sequences of nodes.
LEMMA FixedCodeTypes ==
  /\ test_code \in Seq(IrNode) /\ Len(test_code) = 3
  /\ \A op \in op_type \ {"NOT", "NEG"} : binary_code(op) \in Seq(IrNode)
  /\ \A op \in {"NOT", "NEG"} : unary_code(op) \in Seq(IrNode)
<1>1. test_code \in Seq(IrNode) /\ Len(test_code) = 3
  <2>1. {"RAX"} \subseteq ir_reg /\ "TEST" \in ir_op
    BY DEF ir_reg, ir_op
  <2>2. new_binary("TEST", operand_reg("RAX"), operand_reg("RAX")) \in IrNode
    BY <2>1, OperandTypes, InstructionTypes
  <2>3. new_jmp("EQUAL", NIL) \in IrNode
    BY InstructionTypes DEF ir_cond_flags, NIL
  <2>4. new_pop_reg("RAX") \in IrNode
    BY <2>1, InstructionTypes
  <2> QED BY <2>2, <2>3, <2>4 DEF test_code
<1>2. DataNode \subseteq IrNode
  BY DEF DataNode
<1>3. \A s \in Seq(DataNode) : s \in Seq(IrNode)
  BY <1>2
<1> QED BY <1>1, <1>3, DataCode

\* Emitting keeps the list well formed and puts the new nodes at its end.
LEMMA EmitTyped ==
  ASSUME heap \in Seq(IrNode), list \in Seq(1..Len(heap)), list # <<>>,
         NEW h \in Seq(IrNode), Len(h) = Len(heap),
         NEW nodes \in Seq(IrNode), EmitTo(h, nodes)
  PROVE  /\ heap' \in Seq(IrNode) /\ Len(heap') = Len(heap) + Len(nodes)
         /\ list' \in Seq(1..Len(heap')) /\ list' # <<>>
         /\ Len(list') = Len(list) + Len(nodes)
         /\ \A i \in 1..Len(list) : list'[i] = list[i]
         /\ \A i \in 1..Len(nodes) : list'[Len(list) + i] = Len(heap) + i
<1> DEFINE n == Len(heap)
           k == Len(nodes)
           new == [i \in 1..k |-> n + i]
<1>1. n \in Nat /\ k \in Nat
  OBVIOUS
<1>2. heap' = h \o nodes /\ list' = list \o new
  BY DEF EmitTo
<1>3. heap' \in Seq(IrNode) /\ Len(heap') = n + k
  <2>1. h \o nodes \in Seq(IrNode) /\ Len(h \o nodes) = Len(h) + Len(nodes)
    BY ConcatProperties
  <2> QED BY <1>2, <2>1
<1>4. new \in Seq(1..(n + k)) /\ Len(new) = k
  BY <1>1, IsASeq
<1>5. list \in Seq(1..(n + k))
  <2>1. \A i \in 1..Len(list) : list[i] \in 1..(n + k)
    BY <1>1
  <2> QED BY <2>1, IsASeq
<1>6. /\ list' \in Seq(1..(n + k))
      /\ Len(list') = Len(list) + k
      /\ \A i \in 1..Len(list) : list'[i] = list[i]
      /\ \A i \in 1..k : list'[Len(list) + i] = new[i]
  <2> HIDE DEF new
  <2> DEFINE Indices == 1..(n + k)
  <2>0. list \in Seq(Indices) /\ new \in Seq(Indices)
    BY <1>4, <1>5
  <2>1. list \o new \in Seq(Indices) /\ Len(list \o new) = Len(list) + k
    <3> HIDE DEF Indices
    <3>1. list \o new \in Seq(Indices) /\ Len(list \o new) = Len(list) + Len(new)
      BY <2>0, ConcatProperties
    <3> QED BY <1>4, <3>1
  <2>2. \A i \in 1..(Len(list) + k) :
          (list \o new)[i] = IF i <= Len(list) THEN list[i] ELSE new[i - Len(list)]
    BY <1>4, <1>5, ConcatProperties
  <2> HIDE DEF k, n
  <2>3. Len(list) \in Nat /\ k \in Nat
    BY <1>1
  <2> QED BY <1>2, <2>1, <2>2, <2>3
<1>7. list' # <<>>
  BY <1>1, <1>6
<1> QED BY <1>3, <1>6, <1>7

\* Erasing and patching change the contents of the heap, not its size.
LEMMA DiscardTyped ==
  ASSUME heap \in Seq(IrNode), list \in Seq(1..Len(heap)), list # <<>>, NEW child
  PROVE  Discarding(child) \in Seq(IrNode) /\ Len(Discarding(child)) = Len(heap)
<1>1. ir_tail \in 1..Len(heap)
  BY DEF ir_tail
<1>2. new_empty \in IrNode
  BY InstructionTypes
<1> QED BY <1>1, <1>2, ExceptSeq DEF Discarding

\* Setting the target of a jump keeps the heap a sequence of nodes.
LEMMA PatchTyped ==
  ASSUME NEW h \in Seq(IrNode), NEW jump \in 1..Len(h), NEW target \in Nat
  PROVE  Patch(h, jump, target) \in Seq(IrNode) /\ Len(Patch(h, jump, target)) = Len(h)
<1>1. h[jump] \in IrNode
  OBVIOUS
<1>2. [h[jump] EXCEPT !.jump_target = target] \in IrNode
  BY <1>1 DEF IrNode
<1>3. Patch(h, jump, target) = [h EXCEPT ![jump] = [h[jump] EXCEPT !.jump_target = target]]
  BY <1>1 DEF Patch, IrNode
<1> QED BY <1>2, <1>3, ExceptSeq

-----------------------------------------------------------------------------
(* Lookups.                                                                *)

\* A function that is declared is found.
LEMMA FunctionFound ==
  ASSUME functions \in Seq(Function), NEW name, Defined(name)
  PROVE  \E i \in 1..Len(functions) :
           /\ func_array_find_func(name) = functions[i]
           /\ functions[i].name = name
<1> DEFINE T == {i \in 1..Len(functions) : functions[i].name = name}
<1>1. T \in SUBSET (1..Len(functions)) /\ T # {} /\ Len(functions) \in Nat
  BY DEF Defined
<1>2. PICK i \in T : \A j \in 1..(i - 1) : j \notin T
  BY <1>1, FirstIndex
<1>3. /\ i \in 1..Len(functions)
      /\ functions[i].name = name
      /\ \A j \in 1..(i - 1) : functions[j].name # name
  BY <1>1, <1>2
<1> QED BY <1>3 DEF func_array_find_func

\* A visible variable is found in a table that declares it.
LEMMA VariableFound ==
  ASSUME NEW tables \in Seq(VarTable), NEW name, Visible(tables, name)
  PROVE  \E t \in 1..Len(tables) : \E i \in 1..Len(tables[t].vars) :
           /\ find_var(tables, name).is_global = tables[t].is_global
           /\ find_var(tables, name).addr = tables[t].offset + SLOT * (i - 1)
<1> DEFINE n == Len(tables)
           T == {t \in 1..n : Declares(tables[t], name)}
           IsIt(t) == /\ Declares(tables[t], name)
                      /\ \A j \in (t + 1)..n : ~ Declares(tables[j], name)
           depth == CHOOSE t \in 1..n : IsIt(t)
<1>1. T \in SUBSET (1..n) /\ T # {} /\ n \in Nat
  BY DEF Visible
<1>2. PICK t \in T : \A j \in (t + 1)..n : j \notin T
  BY <1>1, LastIndex
<1>3. t \in 1..n /\ IsIt(t)
  BY <1>1, <1>2
<1>4. depth \in 1..n /\ Declares(tables[depth], name)
  BY <1>3
<1>5. find_var(tables, name) =
        [is_global |-> tables[depth].is_global,
         addr |-> tables[depth].offset + SLOT * (IndexOf(tables[depth], name) - 1)]
  BY DEF find_var
<1> HIDE DEF depth
<1>6. IndexOf(tables[depth], name) \in 1..Len(tables[depth].vars)
  <2> DEFINE vars_of == tables[depth].vars
             U == {i \in 1..Len(vars_of) : vars_of[i] = name}
  <2>1. vars_of \in Seq(Name)
    <3>1. tables[depth] \in VarTable
      BY <1>4
    <3> QED BY <3>1 DEF VarTable
  <2>2. U \in SUBSET (1..Len(vars_of)) /\ U # {} /\ Len(vars_of) \in Nat
    BY <1>4, <2>1 DEF Declares
  <2>3. PICK i \in U : \A j \in 1..(i - 1) : j \notin U
    BY <2>2, FirstIndex
  <2>4. /\ i \in 1..Len(vars_of)
        /\ vars_of[i] = name
        /\ \A j \in 1..(i - 1) : vars_of[j] # name
    BY <2>2, <2>3
  <2> QED BY <2>4 DEF IndexOf
<1> QED BY <1>4, <1>5, <1>6

\* The operand of a visible variable is an operand.
LEMMA VariableOperand ==
  ASSUME NEW tables \in Seq(VarTable), NEW name, Visible(tables, name)
  PROVE  variable_operand(tables, name) \in ir_operand
<1>1. PICK t \in 1..Len(tables) : \E i \in 1..Len(tables[t].vars) :
        find_var(tables, name).addr = tables[t].offset + SLOT * (i - 1)
  BY VariableFound
<1>2. tables[t] \in VarTable
  OBVIOUS
<1>3. find_var(tables, name).addr \in Int
  <2>1. tables[t].offset \in Int /\ tables[t].vars \in Seq(Name)
    BY <1>2 DEF VarTable
  <2> QED BY <1>1, <2>1 DEF SLOT
<1>4. - find_var(tables, name).addr \in Int
  BY <1>3
<1> QED BY <1>3, <1>4, OperandTypes DEF variable_operand

-----------------------------------------------------------------------------
(* The stack of scopes.                                                    *)

\* Declaring a variable changes the innermost table only, and declares it.
LEMMA AddVar ==
  ASSUME NEW tables \in Seq(VarTable), tables # <<>>, NEW name \in Name
  PROVE  /\ add_var(tables, name) \in Seq(VarTable)
         /\ Len(add_var(tables, name)) = Len(tables)
         /\ \A t \in 1..(Len(tables) - 1) : add_var(tables, name)[t] = tables[t]
         /\ add_var(tables, name)[Len(tables)].offset = tables[Len(tables)].offset
         /\ add_var(tables, name)[Len(tables)].is_global = tables[Len(tables)].is_global
         /\ Visible(add_var(tables, name), name)
<1> DEFINE n == Len(tables)
           last == tables[n]
<1>1. n \in 1..Len(tables) /\ last \in VarTable /\ Innermost(tables) = last
  BY DEF Innermost
<1>2. CASE Declares(last, name)
  <2>1. add_var(tables, name) = tables
    BY <1>1, <1>2 DEF add_var
  <2> QED BY <1>1, <1>2, <2>1 DEF Visible
<1>3. CASE ~ Declares(last, name)
  <2> DEFINE more == [last EXCEPT !.vars = Append(last.vars, name)]
  <2>1. last.vars \in Seq(Name)
    BY <1>1 DEF VarTable
  <2>2. /\ Append(last.vars, name) \in Seq(Name)
        /\ Len(Append(last.vars, name)) = Len(last.vars) + 1
        /\ Append(last.vars, name)[Len(last.vars) + 1] = name
    BY <2>1, AppendProperties
  <2>3. /\ more \in VarTable
        /\ more.offset = last.offset
        /\ more.is_global = last.is_global
        /\ more.vars = Append(last.vars, name)
    BY <1>1, <2>2 DEF VarTable
  <2>4. Declares(more, name)
    BY <2>1, <2>2, <2>3 DEF Declares
  <2> HIDE DEF more
  <2>5. add_var(tables, name) = [tables EXCEPT ![n] = more]
    BY <1>1, <1>3 DEF add_var, more
  <2>6. /\ add_var(tables, name) \in Seq(VarTable)
        /\ Len(add_var(tables, name)) = n
        /\ \A t \in 1..n : add_var(tables, name)[t] = IF t = n THEN more ELSE tables[t]
    BY <1>1, <2>3, <2>5, ExceptSeq
  <2> QED BY <1>1, <2>3, <2>4, <2>6 DEF Visible
<1> QED BY <1>2, <1>3

\* A new scope is an empty local table on top of the others.
LEMMA AddTable ==
  ASSUME NEW tables \in Seq(VarTable), NEW offset \in Int
  PROVE  /\ add_table(tables, offset) \in Seq(VarTable)
         /\ Len(add_table(tables, offset)) = Len(tables) + 1
         /\ \A t \in 1..Len(tables) : add_table(tables, offset)[t] = tables[t]
         /\ add_table(tables, offset)[Len(tables) + 1] = var_table(offset, FALSE)
<1>1. << >> \in Seq(Name)
  OBVIOUS
<1>2. var_table(offset, FALSE) \in VarTable
  BY <1>1 DEF var_table, VarTable
<1>3. /\ Append(tables, var_table(offset, FALSE)) \in Seq(VarTable)
      /\ Len(Append(tables, var_table(offset, FALSE))) = Len(tables) + 1
      /\ \A t \in 1..Len(tables) : Append(tables, var_table(offset, FALSE))[t] = tables[t]
      /\ Append(tables, var_table(offset, FALSE))[Len(tables) + 1] = var_table(offset, FALSE)
  <2> DEFINE table == var_table(offset, FALSE)
  <2>1. table \in VarTable
    BY <1>2
  <2> HIDE DEF table
  <2>2. /\ Append(tables, table) \in Seq(VarTable)
        /\ Len(Append(tables, table)) = Len(tables) + 1
        /\ \A t \in 1..Len(tables) : Append(tables, table)[t] = tables[t]
        /\ Append(tables, table)[Len(tables) + 1] = table
    BY <2>1, AppendProperties
  <2> QED BY <2>2 DEF table
<1> QED BY <1>3 DEF add_table

\* Closing a scope leaves the others as they were.
LEMMA PopTable ==
  ASSUME NEW tables \in Seq(VarTable), tables # <<>>
  PROVE  /\ pop_table(tables) \in Seq(VarTable)
         /\ Len(pop_table(tables)) = Len(tables) - 1
         /\ \A t \in 1..(Len(tables) - 1) : pop_table(tables)[t] = tables[t]
<1>1. Len(tables) - 1 \in 0..Len(tables)
  OBVIOUS
<1>2. pop_table(tables) = SubSeq(tables, 1, Len(tables) - 1)
  BY DEF pop_table
<1> QED BY <1>1, <1>2, FrontOf

-----------------------------------------------------------------------------
(* What most handlers leave alone.                                         *)

\* A handler that opens and closes nothing.
Quiet ==
  /\ Top.node.type = "BLOCK" => Top.stage < COMPILING_RIGHT
  /\ Top.node.type \in {"NFUN", "WHILE", "BRANCH"} => Top.stage = COMPILING_RIGHT

\* The heap and the list may grow; nothing is unlinked.
Grows ==
  /\ heap' \in Seq(IrNode)
  /\ Len(heap') >= Len(heap)
  /\ list' \in Seq(1..Len(heap'))
  /\ list' # <<>>
  /\ \A i \in 1..Len(list) : \E j \in 1..Len(list') : list'[j] = list[i]

\* After a quiet handler as many scopes and constructs are open as before.
LEMMA QuietCounts ==
  ASSUME walk \in Seq(Frame), walk # <<>>, Proceed, Quiet
  PROVE  /\ Cardinality(OpenBlocks)' = Cardinality(OpenBlocks)
         /\ Cardinality(OpenParameterScopes)' = Cardinality(OpenParameterScopes)
         /\ Cardinality(OpenBodyScopes)' = Cardinality(OpenBodyScopes)
         /\ Cardinality(Open("WHILE", COMPILED_LEFT))' = Cardinality(Open("WHILE", COMPILED_LEFT))
         /\ Cardinality(Open("WHILE", COMPILING_RIGHT))' = Cardinality(Open("WHILE", COMPILING_RIGHT))
         /\ Cardinality(Open("BRANCH", COMPILED_LEFT))' = Cardinality(Open("BRANCH", COMPILED_LEFT))
<1> USE DEF COMPILING_LEFT, COMPILED_LEFT, COMPILING_RIGHT, COMPILED_RIGHT
<1>1. ASSUME NEW type, NEW stage \in 1..3,
             Top.node.type = type => Top.stage # 3 /\ Top.stage + 1 # stage
      PROVE  Cardinality(Open(type, stage))' = Cardinality(Open(type, stage))
  BY <1>1, ProceedOpen
<1>0. Top.stage \in 0..3
  <2>1. Len(walk) \in Nat \ {0} /\ walk[Len(walk)] \in Frame
    OBVIOUS
  <2> QED BY <2>1 DEF Top, Frame
<1>2. Cardinality(OpenBlocks)' = Cardinality(OpenBlocks)
  <2>1. Top.node.type = "BLOCK" => Top.stage # 3 /\ Top.stage + 1 # 3
    BY <1>0 DEF Quiet
  <2> QED BY <1>1, <2>1 DEF OpenBlocks
<1>3. Cardinality(OpenParameterScopes)' = Cardinality(OpenParameterScopes)
  BY <1>1 DEF OpenParameterScopes, Quiet
<1>4. Cardinality(OpenBodyScopes)' = Cardinality(OpenBodyScopes)
  BY <1>1 DEF OpenBodyScopes, Quiet
<1>5. Cardinality(Open("WHILE", 1))' = Cardinality(Open("WHILE", 1))
  BY <1>1 DEF Quiet
<1>6. Cardinality(Open("WHILE", 2))' = Cardinality(Open("WHILE", 2))
  BY <1>1 DEF Quiet
<1>7. Cardinality(Open("BRANCH", 1))' = Cardinality(Open("BRANCH", 1))
  BY <1>1 DEF Quiet
<1> QED BY <1>2, <1>3, <1>4, <1>5, <1>6, <1>7

\* The function table needs only that the heap does not shrink.
LEMMA KeptTable ==
  ASSUME TypeOK, FunctionTable, Len(heap') >= Len(heap), heap' \in Seq(IrNode),
         UNCHANGED <<cursor, functions>>
  PROVE  FunctionTable'
<1>1. Len(heap) \in Nat /\ Len(heap') \in Nat
  <2>1. heap \in Seq(IrNode)
    BY DEF TypeOK
  <2> QED BY <2>1
<1>2. \A i \in 1..Len(functions) : functions[i].ir_list_head \in 1..Len(heap')
  BY <1>1 DEF FunctionTable
<1> QED BY <1>2 DEF FunctionTable

\* Every handler but the first and the last of a function keeps what is known
\* of the function, if the frame does not shrink and closing a block grows it.
LEMMA KeptCurrent ==
  ASSUME TypeOK, walk # <<>>, WalkShape, CurrentFunction, Proceed,
         UNCHANGED <<functions, func_return>>, stack_frame_size' \in Nat,
         stack_frame_size' >= stack_frame_size,
         Top.node.type = "BLOCK" /\ Top.stage = COMPILED_RIGHT => stack_frame_size' >= SLOT,
         Top.node.type = "NFUN" => Top.stage \in {COMPILED_LEFT, COMPILING_RIGHT}
  PROVE  CurrentFunction'
<1> USE DEF COMPILING_LEFT, COMPILED_LEFT, COMPILING_RIGHT, COMPILED_RIGHT
<1> DEFINE n == Len(walk)
<1>0. walk \in Seq(Frame)
  BY DEF TypeOK
<1>1. walk \in Seq(Frame) /\ n \in Nat \ {0} /\ Top = walk[n] /\ walk[n] \in Frame
  BY <1>0 DEF Top
<1>2. walk' \in Seq(Frame) /\ Len(walk') \in Nat
  <2>1. walk' \in Seq(Frame)
    BY <1>1, ProceedWalk
  <2> QED BY <2>1
<1>10. Top.node \in Node /\ Top.stage \in 0..3
  BY <1>1 DEF Frame
<1>3. ASSUME walk' # <<>>, walk'[1].node.type = "NFUN"
      PROVE  /\ walk[1].node = walk'[1].node
             /\ walk'[1].stage > 0 => walk[1].stage > 0
             /\ walk'[1].stage = 3 /\ Len(walk') = 1 => stack_frame_size' >= SLOT
  <2>1. CASE n = 1
    <3>1. Top.stage # 3
      BY <1>1, <1>2, <1>3, <2>1, ProceedWalk
    <3>2. walk'[1].node = Top.node /\ walk'[1].stage = Top.stage + 1
      BY <1>1, <2>1, <3>1, ProceedWalk
    <3>3. Top.stage = 2 => Len(walk') = 2
      <4>1. Top.node.right # NULL
        BY <1>1, <1>3, <3>2, FunctionBody DEF Frame
      <4> QED BY <1>1, <2>1, <4>1, ProceedWalk
    <3>4. Top.stage \in {1, 2}
      BY <1>3, <3>2
    <3>5. walk[1].node = walk'[1].node
      BY <1>1, <2>1, <3>2
    <3>6. walk[1].stage > 0
      BY <1>1, <2>1, <3>4
    <3>7. ~ (walk'[1].stage = 3 /\ Len(walk') = 1)
      <4>1. CASE Top.stage = 1
        <5>1. walk'[1].stage = 2
          BY <3>2, <4>1
        <5> QED BY <5>1
      <4>2. CASE Top.stage = 2
        <5>1. Len(walk') = 2
          BY <3>3, <4>2
        <5> QED BY <5>1
      <4> QED BY <3>4, <4>1, <4>2
    <3> QED BY <3>5, <3>6, <3>7
  <2>2. CASE n > 1
    <3>1. walk'[1] = walk[1]
      BY <1>1, <2>2, ProceedWalk
    <3>2. walk[1].stage = 3 => walk[2].node.type = "BLOCK"
      BY <1>1, <1>3, <2>2, <3>1 DEF WalkShape
    <3>3. walk[1].stage > 0
      BY <1>1, <1>3, <2>2, <3>1 DEF WalkShape
    <3>4. Len(walk') = 1 => n = 2 /\ Top.stage = 3
      BY <1>1, <2>2, ProceedWalk
    <3>5. walk'[1].stage = 3 /\ Len(walk') = 1 => stack_frame_size' >= SLOT
      <4> HAVE walk'[1].stage = 3 /\ Len(walk') = 1
      <4>1. Top.node.type = "BLOCK" /\ Top.stage = 3
        BY <1>1, <3>1, <3>2, <3>4
      <4> QED BY <4>1
    <3> QED BY <3>1, <3>3, <3>5
  <2>3. n = 1 \/ n > 1
    <3>1. n \in Nat \ {0}
      BY <1>1
    <3> HIDE DEF n
    <3> QED BY <3>1
  <2> QED BY <2>1, <2>2, <2>3
<1>4. walk[1].node.type = "NFUN" /\ walk # <<>> =>
        /\ Defined(walk[1].node.value)
        /\ walk[1].stage > 0 => func_return # NIL
  BY DEF CurrentFunction
<1> QED BY <1>3, <1>4 DEF CurrentFunction, Defined

\* A quiet handler keeps the stack of nodes to patch.
LEMMA KeptPatch ==
  ASSUME walk \in Seq(Frame), walk # <<>>, Proceed, Quiet, PatchStack, Grows, UNCHANGED ir_stack,
         list \in Seq(1..Len(heap))
  PROVE  PatchStack'
<1>1. Cardinality(Open("NFUN", COMPILED_LEFT))' = Cardinality(Open("NFUN", COMPILED_LEFT))
  BY QuietCounts DEF OpenParameterScopes
<1>2. \A i \in 1..Len(ir_stack) : \E j \in 1..Len(list') : list'[j] = ir_stack[i]
  BY DEF PatchStack, Grows
<1> QED BY <1>1, <1>2, QuietCounts DEF PatchStack

\* A quiet handler keeps the stack of scopes in step with the recursion.
LEMMA KeptScopes ==
  ASSUME walk \in Seq(Frame), walk # <<>>, Proceed, Quiet, ScopesMatchWalk,
         UNCHANGED block_depth, Len(name_scope') = Len(name_scope)
  PROVE  ScopesMatchWalk'
BY QuietCounts DEF ScopesMatchWalk
-----------------------------------------------------------------------------
(* Where the recursion is, and how many scopes that means.                 *)

\* A node of a body is compiled inside the two scopes of its function.
LEMMA InsideBody ==
  ASSUME walk \in Seq(Frame), walk # <<>>, WalkShape, ScopesMatchWalk,
         Top.node.type \notin {"NFUN", "ARG"}, walk[1].node.type = "NFUN"
  PROVE  Len(name_scope) >= 3 + Cardinality(OpenBlocks)
<1> USE DEF COMPILING_LEFT, COMPILED_LEFT, COMPILING_RIGHT, COMPILED_RIGHT
<1> DEFINE n == Len(walk)
<1>1. n \in Nat \ {0} /\ Top = walk[n]
  BY DEF Top
<1>2. n > 1
  <2>1. n # 1
    BY <1>1
  <2> HIDE DEF n
  <2> QED BY <1>1, <2>1
<1>3. n \in 2..n
  <2> HIDE DEF n
  <2> QED BY <1>1, <1>2
<1>4. walk[1].stage = 3
  BY <1>1, <1>2, <1>3 DEF WalkShape
<1>5. 1 \in OpenParameterScopes /\ 1 \in OpenBodyScopes
  BY <1>1, <1>4 DEF OpenParameterScopes, OpenBodyScopes, Open
<1>6. ASSUME NEW type, NEW stage \in 1..3
      PROVE  /\ IsFiniteSet(Open(type, stage))
             /\ Cardinality(Open(type, stage)) \in Nat
             /\ Open(type, stage) # {} => Cardinality(Open(type, stage)) >= 1
  <2>1. IsFiniteSet(1..n) /\ Open(type, stage) \subseteq 1..n
    BY <1>1, FS_Interval DEF Open
  <2>2. IsFiniteSet(Open(type, stage)) /\ Cardinality(Open(type, stage)) \in Nat
    BY <2>1, FS_Subset, FS_CardinalityType
  <2>3. Cardinality(Open(type, stage)) = 0 <=> Open(type, stage) = {}
    BY <2>2, FS_EmptySet
  <2> QED BY <2>2, <2>3
<1>7. Cardinality(OpenParameterScopes) \in Nat /\ Cardinality(OpenParameterScopes) >= 1
  BY <1>5, <1>6 DEF OpenParameterScopes
<1>8. Cardinality(OpenBodyScopes) \in Nat /\ Cardinality(OpenBodyScopes) >= 1
  BY <1>5, <1>6 DEF OpenBodyScopes
<1>9. Cardinality(OpenBlocks) \in Nat
  BY <1>6 DEF OpenBlocks
<1> QED BY <1>7, <1>8, <1>9 DEF ScopesMatchWalk

\* With no activation past its first stage, nothing is open.
LEMMA NothingOpen ==
  ASSUME \A i \in 1..Len(walk) : walk[i].stage = COMPILING_LEFT
         \/ walk[i].node.type \notin {"NFUN", "BLOCK", "WHILE", "BRANCH"}
  PROVE  /\ Cardinality(OpenBlocks) = 0
         /\ Cardinality(OpenParameterScopes) = 0
         /\ Cardinality(OpenBodyScopes) = 0
         /\ \A type \in {"NFUN", "BLOCK", "WHILE", "BRANCH"}, stage \in 1..3 :
              Cardinality(Open(type, stage)) = 0
<1> USE DEF COMPILING_LEFT, COMPILED_LEFT, COMPILING_RIGHT, COMPILED_RIGHT
<1>1. ASSUME NEW type \in {"NFUN", "BLOCK", "WHILE", "BRANCH"}, NEW stage \in 1..3
      PROVE  Cardinality(Open(type, stage)) = 0
  <2>1. Open(type, stage) = {}
    BY DEF Open
  <2> QED BY <2>1, FS_EmptySet
<1> QED BY <1>1 DEF OpenBlocks, OpenParameterScopes, OpenBodyScopes

\* Inside a global variable's initializer there is only the global scope.
LEMMA InsideInitializer ==
  ASSUME walk \in Seq(Frame), walk # <<>>, WalkShape, ScopesMatchWalk,
         walk[1].node.type = "NVAR"
  PROVE  Len(name_scope) = 1
<1>1. \A i \in 1..Len(walk) : walk[i].node.type \notin {"NFUN", "BLOCK", "WHILE", "BRANCH"}
  BY DEF WalkShape, ExpressionPart, Expression
<1>2. /\ Cardinality(OpenBlocks) = 0
      /\ Cardinality(OpenParameterScopes) = 0
      /\ Cardinality(OpenBodyScopes) = 0
  BY <1>1, NothingOpen
<1> QED BY <1>2 DEF ScopesMatchWalk

\* A function is at the bottom of the recursion: nothing else is open.
LEMMA AtFunction ==
  ASSUME walk \in Seq(Frame), walk # <<>>, WalkShape, Top.node.type = "NFUN"
  PROVE  /\ Len(walk) = 1
         /\ Top = walk[1]
         /\ Cardinality(OpenBlocks) = 0
         /\ \A type \in {"BLOCK", "WHILE", "BRANCH"}, stage \in 1..3 :
              Cardinality(Open(type, stage)) = 0
         /\ \A stage \in 1..3 : Cardinality(Open("NFUN", stage))
                                  = IF Top.stage >= stage THEN 1 ELSE 0
<1> USE DEF COMPILING_LEFT, COMPILED_LEFT, COMPILING_RIGHT, COMPILED_RIGHT
<1> DEFINE n == Len(walk)
<1>1. n \in Nat \ {0} /\ Top = walk[n]
  BY DEF Top
<1>2. n = 1
  <2>1. CASE n > 1
    <3>1. n \in 2..n
      <4> HIDE DEF n
      <4> QED BY <1>1, <2>1
    <3>2. walk[n].node.type \in ExpressionPart \cup BodyPart \cup {"ARG"}
      BY <1>1, <2>1, <3>1 DEF WalkShape
    <3> QED BY <1>1, <3>2 DEF ExpressionPart, BodyPart, Expression, Statement
  <2>2. n = 1 \/ n > 1
    <3> HIDE DEF n
    <3> QED BY <1>1
  <2> QED BY <2>1, <2>2
<1>3. ASSUME NEW type \in {"BLOCK", "WHILE", "BRANCH"}, NEW stage \in 1..3
      PROVE  Cardinality(Open(type, stage)) = 0
  <2>1. Open(type, stage) = {}
    BY <1>1, <1>2 DEF Open
  <2> QED BY <2>1, FS_EmptySet
<1>4. ASSUME NEW stage \in 1..3
      PROVE  Cardinality(Open("NFUN", stage)) = IF Top.stage >= stage THEN 1 ELSE 0
  <2>1. CASE Top.stage >= stage
    <3>1. Open("NFUN", stage) = {1}
      BY <1>1, <1>2, <2>1 DEF Open
    <3> QED BY <2>1, <3>1, FS_Singleton
  <2>2. CASE ~ (Top.stage >= stage)
    <3>1. Open("NFUN", stage) = {}
      BY <1>1, <1>2, <2>2 DEF Open
    <3> QED BY <2>2, <3>1, FS_EmptySet
  <2> QED BY <2>1, <2>2
<1> QED BY <1>1, <1>2, <1>3, <1>4 DEF OpenBlocks

-----------------------------------------------------------------------------
(* The layout of the scopes.                                               *)

\* Opening a scope behind the others keeps the layout.
LEMMA LayoutOpened ==
  ASSUME name_scope \in Seq(VarTable), name_scope # <<>>, ScopeLayout,
         NEW offset \in Int, name_scope' = add_table(name_scope, offset),
         Len(name_scope) >= 2 =>
           /\ offset >= SLOT
           /\ \A t \in 3..Len(name_scope) : TableEnd(name_scope[t]) <= offset
  PROVE  ScopeLayout'
<1> DEFINE n == Len(name_scope)
           table == var_table(offset, FALSE)
<1>1. n \in Nat \ {0}
  OBVIOUS
<1>2. /\ Len(name_scope') = n + 1
      /\ \A t \in 1..n : name_scope'[t] = name_scope[t]
      /\ name_scope'[n + 1] = table
  BY AddTable
<1>3. table.offset = offset /\ table.vars = <<>> /\ ~ table.is_global
  BY DEF var_table
<1> HIDE DEF n, table
<1>4. name_scope'[1].is_global
  BY <1>1, <1>2 DEF ScopeLayout, LaidOut
<1>5. \A t \in 2..(n + 1) : ~ name_scope'[t].is_global
  BY <1>1, <1>2, <1>3 DEF ScopeLayout, LaidOut, n
<1>6. n + 1 >= 2 => name_scope'[2].vars = <<>>
  BY <1>1, <1>2, <1>3 DEF ScopeLayout, LaidOut, n
<1>7. \A t \in 3..(n + 1) : name_scope'[t].offset >= SLOT
  BY <1>1, <1>2, <1>3 DEF ScopeLayout, LaidOut, n
<1>8. ASSUME NEW t \in 3..(n + 1), NEW u \in (t + 1)..(n + 1)
      PROVE  TableEnd(name_scope'[t]) <= name_scope'[u].offset
  <2>1. t \in 3..n /\ name_scope'[t] = name_scope[t]
    BY <1>1, <1>2
  <2>2. CASE u = n + 1
    BY <1>1, <1>2, <1>3, <2>1, <2>2 DEF n
  <2>3. CASE u # n + 1
    <3>1. u \in (t + 1)..n /\ name_scope'[u] = name_scope[u]
      BY <1>1, <1>2, <2>1, <2>3
    <3> QED BY <2>1, <3>1 DEF ScopeLayout, LaidOut, n
  <2> QED BY <2>2, <2>3
<1> QED BY <1>2, <1>4, <1>5, <1>6, <1>7, <1>8 DEF ScopeLayout, LaidOut

\* Closing scopes, but never the global one, keeps the layout.
LEMMA LayoutClosed ==
  ASSUME name_scope \in Seq(VarTable), ScopeLayout, name_scope' \in Seq(VarTable),
         Len(name_scope') \in 1..Len(name_scope),
         \A t \in 1..Len(name_scope') : name_scope'[t] = name_scope[t]
  PROVE  ScopeLayout'
<1> DEFINE n == Len(name_scope)
           m == Len(name_scope')
<1>1. n \in Nat /\ m \in 1..n
  OBVIOUS
<1> HIDE DEF n, m
<1>2. \A t \in 1..m : name_scope'[t] = name_scope[t]
  BY DEF m
<1>3. name_scope'[1].is_global /\ \A t \in 2..m : ~ name_scope'[t].is_global
  BY <1>1, <1>2 DEF ScopeLayout, LaidOut, n
<1>4. m >= 2 => name_scope'[2].vars = <<>>
  BY <1>1, <1>2 DEF ScopeLayout, LaidOut, n
<1>5. ASSUME NEW t \in 3..m
      PROVE  /\ name_scope'[t].offset >= SLOT
             /\ \A u \in (t + 1)..m : TableEnd(name_scope'[t]) <= name_scope'[u].offset
  <2>1. t \in 3..n /\ name_scope'[t] = name_scope[t]
    BY <1>1, <1>2
  <2>2. \A u \in (t + 1)..m : u \in (t + 1)..n /\ name_scope'[u] = name_scope[u]
    BY <1>1, <1>2
  <2> QED BY <2>1, <2>2 DEF ScopeLayout, LaidOut, n
<1> QED BY <1>3, <1>4, <1>5 DEF ScopeLayout, LaidOut, m

\* Declaring a variable in a scope that is not the parameters' keeps the
\* layout: no other scope lies behind it yet.
LEMMA LayoutDeclared ==
  ASSUME name_scope \in Seq(VarTable), name_scope # <<>>, ScopeLayout,
         Len(name_scope) # 2, NEW name \in Name,
         name_scope' = add_var(name_scope, name)
  PROVE  ScopeLayout'
<1> DEFINE n == Len(name_scope)
<1>1. n \in Nat \ {0}
  OBVIOUS
<1>2. /\ Len(name_scope') = n
      /\ \A t \in 1..(n - 1) : name_scope'[t] = name_scope[t]
      /\ name_scope'[n].offset = name_scope[n].offset
      /\ name_scope'[n].is_global = name_scope[n].is_global
  BY AddVar
<1>3. n # 2
  OBVIOUS
<1> HIDE DEF n
<1>4. \A t \in 1..n : /\ name_scope'[t].offset = name_scope[t].offset
                      /\ name_scope'[t].is_global = name_scope[t].is_global
                      /\ t < n => name_scope'[t] = name_scope[t]
  BY <1>1, <1>2
<1>5. name_scope'[1].is_global /\ \A t \in 2..n : ~ name_scope'[t].is_global
  BY <1>1, <1>4 DEF ScopeLayout, LaidOut, n
<1>6. n >= 2 => name_scope'[2].vars = <<>>
  <2>1. n >= 2 => 2 \in 1..n /\ 2 < n
    BY <1>1, <1>3
  <2> QED BY <1>4, <2>1 DEF ScopeLayout, LaidOut, n
<1>7. ASSUME NEW t \in 3..n
      PROVE  /\ name_scope'[t].offset >= SLOT
             /\ \A u \in (t + 1)..n : TableEnd(name_scope'[t]) <= name_scope'[u].offset
  <2>1. t \in 1..n
    BY <1>1
  <2>2. name_scope'[t].offset >= SLOT
    BY <1>4, <2>1 DEF ScopeLayout, LaidOut, n
  <2>3. ASSUME NEW u \in (t + 1)..n
        PROVE  TableEnd(name_scope'[t]) <= name_scope'[u].offset
    <3>1. u \in 1..n /\ t < n
      BY <1>1
    <3>2. name_scope'[t] = name_scope[t] /\ name_scope'[u].offset = name_scope[u].offset
      BY <1>4, <2>1, <3>1
    <3> QED BY <3>2 DEF ScopeLayout, LaidOut, n
  <2> QED BY <2>2, <2>3
<1> QED BY <1>2, <1>5, <1>6, <1>7 DEF ScopeLayout, LaidOut

\* In a local scope that is not the parameters', the next free slot lies
\* behind every variable of the function.
LEMMA NextOffset ==
  ASSUME NEW tables \in Seq(VarTable), LaidOut(tables), Len(tables) >= 3
  PROVE  /\ get_next_offset(tables) \in Int
         /\ get_next_offset(tables) >= SLOT
         /\ \A t \in 3..Len(tables) :
              TableEnd(tables[t]) <= get_next_offset(tables)
<1> DEFINE n == Len(tables)
           last == tables[n]
<1>1. n \in Nat /\ n >= 3
  OBVIOUS
<1>2. last.offset \in Int /\ Len(last.vars) \in Nat
  <2>1. last \in VarTable
    BY <1>1
  <2>2. last.offset \in Int /\ last.vars \in Seq(Name)
    BY <2>1 DEF VarTable
  <2> QED BY <2>2
<1>3. Innermost(tables) = last
  BY DEF Innermost
<1> HIDE DEF n
<1>4. last.offset >= SLOT
  BY <1>1 DEF LaidOut, n
<1>5. get_next_offset(tables) = TableEnd(last)
  BY <1>2, <1>3, <1>4 DEF get_next_offset, SLOT
<1>6. TableEnd(last) \in Int /\ TableEnd(last) >= last.offset
  BY <1>2 DEF TableEnd, SLOT
<1>7. ASSUME NEW t \in 3..n
      PROVE  TableEnd(tables[t]) <= TableEnd(last)
  <2>1. CASE t = n
    BY <1>6, <2>1
  <2>2. CASE t # n
    <3>1. n \in (t + 1)..n
      BY <1>1, <2>2
    <3>2. TableEnd(tables[t]) <= last.offset
      BY <3>1 DEF LaidOut, n
    <3>3. TableEnd(tables[t]) \in Int
      <4>1. tables[t] \in VarTable
        BY <1>1 DEF n
      <4>2. tables[t].offset \in Int /\ tables[t].vars \in Seq(Name)
        BY <4>1 DEF VarTable
      <4> QED BY <4>2 DEF TableEnd, SLOT
    <3> QED BY <1>2, <1>6, <3>2, <3>3
  <2> QED BY <2>1, <2>2
<1>8. get_next_offset(tables) >= SLOT
  BY <1>2, <1>4, <1>5, <1>6 DEF SLOT
<1> QED BY <1>5, <1>6, <1>7, <1>8 DEF n

-----------------------------------------------------------------------------
(* The handlers.                                                           *)

\* What the invariant says of the types of the handlers' state.
LEMMA HandlerState ==
  ASSUME IInv
  PROVE  /\ walk \in Seq(Frame)
         /\ heap \in Seq(IrNode) /\ Len(heap) \in Nat
         /\ list \in Seq(1..Len(heap)) /\ list # <<>>
         /\ name_scope \in Seq(VarTable) /\ Len(name_scope) \in Nat /\ name_scope # <<>>
         /\ stack_frame_size \in Nat
         /\ func_return \in 0..Len(heap)
         /\ ir_stack \in Seq(1..Len(heap)) /\ Len(ir_stack) \in Nat
<1>1. /\ walk \in Seq(Frame) /\ heap \in Seq(IrNode) /\ list \in Seq(1..Len(heap))
      /\ name_scope \in Seq(VarTable) /\ stack_frame_size \in Nat
      /\ func_return \in 0..Len(heap) /\ ir_stack \in Seq(1..Len(heap))
  BY DEF IInv, TypeOK
<1>2. Len(walk) \in Nat
  BY <1>1
<1>3. ASSUME NEW type, NEW stage PROVE Cardinality(Open(type, stage)) \in Nat
  <2>1. IsFiniteSet(1..Len(walk))
    BY <1>2, FS_Interval
  <2>2. Open(type, stage) \subseteq 1..Len(walk)
    BY DEF Open
  <2> QED BY <2>1, <2>2, FS_Subset, FS_CardinalityType
<1>4. /\ Cardinality(OpenBlocks) \in Nat
      /\ Cardinality(OpenParameterScopes) \in Nat
      /\ Cardinality(OpenBodyScopes) \in Nat
  BY <1>3 DEF OpenBlocks, OpenParameterScopes, OpenBodyScopes
<1>5. Len(name_scope) >= 1
  BY <1>4 DEF IInv, ScopesMatchWalk
<1>6. name_scope # <<>>
  BY <1>5
<1>7. list # <<>>
  BY DEF IInv
<1> QED BY <1>1, <1>6, <1>7

\* Every handler runs at the top of the recursion, goes on with it, and
\* leaves the driver's variables alone.
LEMMA HandlerProceeds ==
  ASSUME HandleNode
  PROVE  walk # <<>> /\ Proceed /\ UNCHANGED control
<1>1. CASE compile_NVAR \/ compile_ASS \/ compile_VAR \/ compile_CONST
  BY <1>1 DEF compile_NVAR, compile_ASS, compile_VAR, compile_CONST, Handling
<1>2. CASE compile_OP_dividend \/ compile_OP \/ compile_CALL \/ compile_RET \/ compile_SEQ
  BY <1>2 DEF compile_OP_dividend, compile_OP, compile_CALL, compile_RET, compile_SEQ, Handling
<1>3. CASE compile_BLOCK_begin \/ compile_BLOCK_end
  BY <1>3 DEF compile_BLOCK_begin, compile_BLOCK_end, Handling
<1>4. CASE compile_WHILE_start \/ compile_WHILE_test \/ compile_WHILE_end
  BY <1>4 DEF compile_WHILE_start, compile_WHILE_test, compile_WHILE_end, Handling
<1>5. CASE compile_BRANCH_test \/ compile_BRANCH_else \/ compile_BRANCH_end
  BY <1>5 DEF compile_BRANCH_test, compile_BRANCH_else, compile_BRANCH_end, Handling
<1>6. CASE compile_NFUN_begin \/ compile_NFUN_body \/ compile_NFUN_end \/ compile_nothing
  BY <1>6 DEF compile_NFUN_begin, compile_NFUN_body, compile_NFUN_end, compile_nothing, Handling
<1> QED BY <1>1, <1>2, <1>3, <1>4, <1>5, <1>6 DEF HandleNode

\* What a handler has to keep for the invariant to hold after it.
LEMMA HandlerStep ==
  ASSUME IInv, walk # <<>>, Proceed, UNCHANGED control, Grows,
         name_scope' \in Seq(VarTable), block_depth' \in Nat, global_var_cnt' \in Nat,
         stack_frame_size' \in Nat, has_return' \in BOOLEAN,
         func_return' \in 0..Len(heap'), ir_stack' \in Seq(1..Len(heap')),
         CurrentFunction', ScopesMatchWalk', PatchStack', ScopeLayout'
  PROVE  IInv'
<1>1. walk \in Seq(Frame)
  BY DEF IInv, TypeOK
<1>2. walk' \in Seq(Frame)
  BY <1>1, ProceedWalk
<1>3. TypeOK'
  BY <1>2 DEF IInv, TypeOK, Grows, control
<1>4. WalkShape'
  BY <1>1, ProceedShape DEF IInv
<1>5. FunctionTable'
  BY KeptTable DEF IInv, Grows, control
<1> QED BY <1>3, <1>4, <1>5 DEF IInv, Grows

\* A quiet handler that touches no scope keeps the invariant.
LEMMA QuietStep ==
  ASSUME IInv, walk # <<>>, Proceed, Quiet, Grows, has_return' \in BOOLEAN,
         UNCHANGED <<control, scoping, func_return, ir_stack>>
  PROVE  IInv'
<1> USE DEF COMPILING_LEFT, COMPILED_LEFT, COMPILING_RIGHT, COMPILED_RIGHT
<1>1. /\ TypeOK /\ walk \in Seq(Frame) /\ list \in Seq(1..Len(heap))
      /\ Len(heap) \in Nat /\ Len(heap') \in Nat
  <2>1. heap \in Seq(IrNode) /\ heap' \in Seq(IrNode)
    BY DEF IInv, TypeOK, Grows
  <2>2. TypeOK /\ walk \in Seq(Frame) /\ list \in Seq(1..Len(heap))
    BY DEF IInv, TypeOK
  <2> QED BY <2>1, <2>2
<1>2. PatchStack'
  BY <1>1, KeptPatch DEF IInv
<1>3. ScopesMatchWalk'
  BY <1>1, KeptScopes DEF IInv, scoping
<1>4. ScopeLayout'
  BY DEF IInv, ScopeLayout, LaidOut, scoping
<1>5. CurrentFunction'
  <2>1. stack_frame_size \in Nat
    BY DEF IInv, TypeOK
  <2>2. stack_frame_size' \in Nat /\ stack_frame_size' >= stack_frame_size
    BY <2>1 DEF scoping
  <2>3. ~ (Top.node.type = "BLOCK" /\ Top.stage = COMPILED_RIGHT)
    BY DEF Quiet
  <2>4. Top.node.type = "NFUN" => Top.stage \in {COMPILED_LEFT, COMPILING_RIGHT}
    BY DEF Quiet
  <2>5. WalkShape /\ CurrentFunction /\ UNCHANGED <<functions, func_return>>
    BY DEF IInv, control
  <2> QED BY <1>1, <2>2, <2>3, <2>4, <2>5, KeptCurrent
<1>6. func_return' \in 0..Len(heap')
  <2>1. func_return \in 0..Len(heap) /\ Len(heap') >= Len(heap)
    BY DEF IInv, TypeOK, Grows
  <2> QED BY <1>1, <2>1
<1>7. ir_stack' \in Seq(1..Len(heap'))
  <2>1. ir_stack \in Seq(1..Len(heap)) /\ Len(heap') >= Len(heap)
    BY DEF IInv, TypeOK, Grows
  <2>2. \A i \in 1..Len(ir_stack) : ir_stack[i] \in 1..Len(heap')
    BY <1>1, <2>1
  <2> QED BY <2>1, <2>2, IsASeq
<1>8. /\ name_scope' \in Seq(VarTable) /\ block_depth' \in Nat /\ global_var_cnt' \in Nat
      /\ stack_frame_size' \in Nat
  BY DEF IInv, TypeOK, scoping
<1> QED BY <1>2, <1>3, <1>4, <1>5, <1>6, <1>7, <1>8, HandlerStep

\* The node a handler looks at.
LEMMA TopTyped ==
  ASSUME walk \in Seq(Frame), walk # <<>>
  PROVE  Top.node \in Node /\ Top.stage \in 0..3
<1>1. Len(walk) \in Nat \ {0} /\ walk[Len(walk)] \in Frame
  OBVIOUS
<1> QED BY <1>1 DEF Top, Frame, COMPILING_LEFT, COMPILED_RIGHT

\* Emitting nodes makes the heap and the list grow.
LEMMA EmitGrows ==
  ASSUME IInv, NEW h \in Seq(IrNode), Len(h) = Len(heap),
         NEW nodes \in Seq(IrNode), EmitTo(h, nodes)
  PROVE  /\ Grows
         /\ Len(heap') = Len(heap) + Len(nodes)
         /\ \A i \in 1..Len(nodes) :
              \E j \in 1..Len(list') : list'[j] = Len(heap) + i
<1>1. /\ heap \in Seq(IrNode) /\ list \in Seq(1..Len(heap)) /\ list # <<>>
      /\ Len(heap) \in Nat /\ Len(list) \in Nat /\ Len(nodes) \in Nat
  BY HandlerState
<1>2. /\ heap' \in Seq(IrNode) /\ Len(heap') = Len(heap) + Len(nodes)
      /\ list' \in Seq(1..Len(heap')) /\ list' # <<>>
      /\ Len(list') = Len(list) + Len(nodes)
      /\ \A i \in 1..Len(list) : list'[i] = list[i]
      /\ \A i \in 1..Len(nodes) : list'[Len(list) + i] = Len(heap) + i
  BY <1>1, EmitTyped
<1>3. \A i \in 1..Len(list) : \E j \in 1..Len(list') : list'[j] = list[i]
  <2> TAKE i \in 1..Len(list)
  <2>1. i \in 1..Len(list')
    BY <1>1, <1>2
  <2> QED BY <1>2, <2>1
<1>4. \A i \in 1..Len(nodes) : \E j \in 1..Len(list') : list'[j] = Len(heap) + i
  <2> TAKE i \in 1..Len(nodes)
  <2>1. Len(list) + i \in 1..Len(list')
    BY <1>1, <1>2
  <2> QED BY <1>2, <2>1
<1>5. Len(heap') >= Len(heap)
  BY <1>1, <1>2
<1> QED BY <1>2, <1>3, <1>4, <1>5 DEF Grows

\* The handlers that open and close nothing.
QuietHandler ==
  \/ compile_ASS \/ compile_VAR \/ compile_CONST \/ compile_OP_dividend \/ compile_OP
  \/ compile_CALL \/ compile_RET \/ compile_SEQ \/ compile_nothing

\* They keep the invariant.
LEMMA QuietHandlersKeep ==
  ASSUME IInv, QuietHandler
  PROVE  IInv'
<1> USE DEF COMPILING_LEFT, COMPILED_LEFT, COMPILING_RIGHT, COMPILED_RIGHT
<1>1. walk # <<>> /\ Proceed /\ UNCHANGED control
  BY HandlerProceeds DEF QuietHandler, HandleNode
<1>2. /\ heap \in Seq(IrNode) /\ name_scope \in Seq(VarTable)
      /\ Top.node \in Node /\ Top.stage \in 0..3
  BY <1>1, HandlerState, TopTyped
<1>3. /\ "POP" \in ir_op /\ "PUSH" \in ir_op /\ "MOV" \in ir_op /\ "MUL" \in ir_op
      /\ "ADD" \in ir_op /\ {"RAX", "RSP"} \subseteq ir_reg /\ "NONE" \in ir_cond_flags
  BY DEF ir_op, ir_reg, ir_cond_flags
<1>4. /\ new_push_reg("RAX") \in IrNode /\ new_pop_reg("RAX") \in IrNode
      /\ operand_reg("RAX") \in ir_operand /\ operand_reg("RSP") \in ir_operand
  BY <1>3, InstructionTypes, OperandTypes
<1>5. ASSUME NEW nodes \in Seq(IrNode), Emit(nodes), Quiet, has_return' \in BOOLEAN,
             UNCHANGED <<scoping, func_return, ir_stack>>
      PROVE  IInv'
  <2>1. Grows
    BY <1>2, <1>5, EmitGrows DEF Emit
  <2> QED BY <1>1, <1>5, <2>1, QuietStep
<1>6. has_return \in BOOLEAN
  BY DEF IInv, TypeOK
<1>7. CASE compile_ASS
  <2> DEFINE nodes == << new_unary("POP", variable_operand(name_scope, Top.node.value)) >>
  <2>1. nodes \in Seq(IrNode)
    BY <1>2, <1>3, <1>7, VariableOperand, InstructionTypes DEF compile_ASS
  <2>2. Emit(nodes) /\ UNCHANGED <<scoping, returns, ir_stack>> /\ Quiet
    BY <1>7 DEF compile_ASS, Handling, Quiet
  <2> HIDE DEF nodes
  <2> QED BY <1>5, <1>6, <2>1, <2>2 DEF returns
<1>8. CASE compile_VAR
  <2> DEFINE nodes == << new_unary("PUSH", variable_operand(name_scope, Top.node.value)) >>
  <2>1. nodes \in Seq(IrNode)
    BY <1>2, <1>3, <1>8, VariableOperand, InstructionTypes DEF compile_VAR
  <2>2. Emit(nodes) /\ UNCHANGED <<scoping, returns, ir_stack>> /\ Quiet
    BY <1>8 DEF compile_VAR, Handling, Quiet
  <2> HIDE DEF nodes
  <2> QED BY <1>5, <1>6, <2>1, <2>2 DEF returns
<1>9. CASE compile_CONST
  <2> DEFINE load  == new_binary("MOV", operand_reg("RAX"), operand_imm(to_fixed(Top.node.num)))
             nodes == << load, new_push_reg("RAX") >>
  <2>1. to_fixed(Top.node.num) \in Int
    <3>1. Top.node.num \in Number
      BY <1>2, <1>9, NodeFields DEF compile_CONST, Handling
    <3> QED BY <3>1 DEF to_fixed, Number
  <2>2. load \in IrNode
    BY <1>3, <1>4, <2>1, OperandTypes, InstructionTypes
  <2>3. Emit(nodes) /\ UNCHANGED <<scoping, returns, ir_stack>> /\ Quiet
    BY <1>9 DEF compile_CONST, Handling, Quiet
  <2> HIDE DEF load
  <2>4. nodes \in Seq(IrNode)
    BY <1>4, <2>2
  <2> HIDE DEF nodes
  <2> QED BY <1>5, <1>6, <2>3, <2>4 DEF returns
<1>10. CASE compile_OP_dividend
  <2> DEFINE scale == new_binary("MUL", operand_reg("RAX"), operand_imm(1000))
             nodes == << new_pop_reg("RAX"), scale, new_push_reg("RAX") >>
  <2>1. scale \in IrNode
    BY <1>3, <1>4, OperandTypes, InstructionTypes
  <2>2. Emit(nodes) /\ UNCHANGED <<scoping, returns, ir_stack>> /\ Quiet
    BY <1>10 DEF compile_OP_dividend, Handling, Quiet
  <2> HIDE DEF scale
  <2>3. nodes \in Seq(IrNode)
    BY <1>4, <2>1
  <2> HIDE DEF nodes
  <2> QED BY <1>5, <1>6, <2>2, <2>3 DEF returns
<1>11. CASE compile_OP
  <2> DEFINE nodes == IF Top.node.value \in {"NOT", "NEG"}
                        THEN unary_code(Top.node.value) ELSE binary_code(Top.node.value)
  <2>1. Top.node.value \in op_type
    BY <1>2, <1>11, NodeFields DEF compile_OP, Handling
  <2>2. Emit(nodes) /\ UNCHANGED <<scoping, returns, ir_stack>> /\ Quiet
    BY <1>11 DEF compile_OP, Handling, Quiet
  <2>3. nodes \in Seq(IrNode)
    BY <2>1, FixedCodeTypes
  <2> HIDE DEF nodes
  <2> QED BY <1>5, <1>6, <2>2, <2>3 DEF returns
<1>12. CASE compile_CALL
  <2> DEFINE func  == func_array_find_func(Top.node.value)
             args  == ChainOf(Top.node.right)
             free  == new_binary("ADD", operand_reg("RSP"), operand_imm(SLOT * args))
             frees == IF args > 0 THEN <<free>> ELSE <<>>
             nodes == << new_call(func.ir_list_head) >> \o frees \o << new_push_reg("RAX") >>
  <2>1. args \in Nat
    BY <1>2, NodeFields
  <2>2. free \in IrNode
    <3>1. SLOT * args \in Int
      BY <2>1 DEF SLOT
    <3>2. operand_imm(SLOT * args) \in ir_operand
      BY <3>1, OperandTypes
    <3> QED BY <1>3, <1>4, <3>2, InstructionTypes
  <2>3. new_call(func.ir_list_head) \in IrNode
    <3>1. func.ir_list_head \in Nat
      <4>1. functions \in Seq(Function)
        BY DEF IInv, TypeOK
      <4>2. \E i \in 1..Len(functions) : func = functions[i]
        BY <1>12, <4>1, FunctionFound DEF compile_CALL
      <4>3. func \in Function
        BY <4>1, <4>2
      <4> QED BY <4>3 DEF Function
    <3> HIDE DEF func
    <3> QED BY <3>1, InstructionTypes
  <2>4. Emit(nodes) /\ UNCHANGED <<scoping, returns, ir_stack>> /\ Quiet
    BY <1>12 DEF compile_CALL, Handling, Quiet, free_arguments
  <2> HIDE DEF func, free
  <2>5. frees \in Seq(IrNode)
    BY <2>2
  <2> HIDE DEF frees
  <2>6. nodes \in Seq(IrNode)
    <3>1. << new_call(func.ir_list_head) >> \in Seq(IrNode) /\ << new_push_reg("RAX") >> \in Seq(IrNode)
      BY <1>4, <2>3
    <3> QED BY <2>5, <3>1, ConcatProperties
  <2> HIDE DEF nodes
  <2> QED BY <1>5, <1>6, <2>4, <2>6 DEF returns
<1>13. CASE compile_RET
  <2> DEFINE nodes == << new_pop_reg("RAX"), new_jmp("NONE", func_return) >>
  <2>1. new_jmp("NONE", func_return) \in IrNode
    <3>1. func_return \in Nat
      BY HandlerState
    <3> QED BY <1>3, <3>1, InstructionTypes
  <2>2. Emit(nodes) /\ UNCHANGED <<scoping, func_return, ir_stack>> /\ Quiet
    BY <1>13 DEF compile_RET, Handling, Quiet
  <2>3. has_return' \in BOOLEAN
    BY <1>13 DEF compile_RET
  <2>4. nodes \in Seq(IrNode)
    BY <1>4, <2>1
  <2> HIDE DEF nodes
  <2> QED BY <1>5, <2>2, <2>3, <2>4
<1>14. CASE compile_SEQ
  <2> DEFINE h == Discarding(Top.node.left)
  <2>1. h \in Seq(IrNode) /\ Len(h) = Len(heap)
    BY HandlerState, DiscardTyped
  <2>2. EmitTo(h, <<>>) /\ UNCHANGED <<scoping, returns, ir_stack>> /\ Quiet
    BY <1>14 DEF compile_SEQ, Handling, Quiet
  <2> HIDE DEF h
  <2>3. <<>> \in Seq(IrNode)
    OBVIOUS
  <2>4. Grows
    BY <2>1, <2>2, <2>3, EmitGrows
  <2> QED BY <1>1, <1>6, <2>2, <2>4, QuietStep DEF returns
<1>15. CASE compile_nothing
  <2>1. Quiet
    BY <1>2, <1>15 DEF compile_nothing, Acts, Quiet
  <2>2. UNCHANGED <<heap, list>>
    BY <1>15 DEF compile_nothing, code
  <2>3. Grows
    BY <2>2, HandlerState DEF Grows
  <2>4. UNCHANGED <<scoping, returns, ir_stack>>
    BY <1>15 DEF compile_nothing
  <2> QED BY <1>1, <1>6, <2>1, <2>3, <2>4, QuietStep DEF returns
<1> QED BY <1>7, <1>8, <1>9, <1>10, <1>11, <1>12, <1>13, <1>14, <1>15 DEF QuietHandler

-----------------------------------------------------------------------------
(* The handlers that open or close something.                              *)

\* The scopes, and the nodes to patch, that the recursion calls for.
OpenScopes == Cardinality(OpenParameterScopes) + Cardinality(OpenBodyScopes)
                + Cardinality(OpenBlocks)
OpenPatches == Cardinality(Open("NFUN", COMPILED_LEFT))
                 + Cardinality(Open("WHILE", COMPILED_LEFT))
                 + Cardinality(Open("WHILE", COMPILING_RIGHT))
                 + Cardinality(Open("BRANCH", COMPILED_LEFT))

\* How a handler's call changes the number of open scopes.
LEMMA ScopesAfter ==
  ASSUME walk \in Seq(Frame), walk # <<>>, Proceed
  PROVE  /\ OpenScopes \in Nat /\ Cardinality(OpenBlocks) \in Nat
         /\ Top.node.type = "BLOCK" /\ Top.stage = COMPILING_RIGHT =>
              /\ Cardinality(OpenBlocks)' = Cardinality(OpenBlocks) + 1
              /\ OpenScopes' = OpenScopes + 1
         /\ Top.node.type = "BLOCK" /\ Top.stage = COMPILED_RIGHT =>
              /\ Cardinality(OpenBlocks) >= 1
              /\ Cardinality(OpenBlocks)' = Cardinality(OpenBlocks) - 1
              /\ OpenScopes' = OpenScopes - 1
         /\ Top.node.type # "BLOCK" => Cardinality(OpenBlocks)' = Cardinality(OpenBlocks)
         /\ Top.node.type = "NFUN" /\ Top.stage \in {COMPILING_LEFT, COMPILED_LEFT} =>
              OpenScopes' = OpenScopes + 1
         /\ Top.node.type = "NFUN" /\ Top.stage = COMPILED_RIGHT =>
              OpenScopes >= 2 /\ OpenScopes' = OpenScopes - 2
         /\ Top.node.type \notin {"NFUN", "BLOCK"} => OpenScopes' = OpenScopes
<1> USE DEF COMPILING_LEFT, COMPILED_LEFT, COMPILING_RIGHT, COMPILED_RIGHT
<1> DEFINE P == Cardinality(OpenParameterScopes)
           B == Cardinality(OpenBodyScopes)
           K == Cardinality(OpenBlocks)
<1>1. /\ P \in Nat
      /\ Top.node.type = "NFUN" /\ Top.stage >= 1 => P >= 1
      /\ P' = IF Top.node.type # "NFUN" THEN P
              ELSE IF Top.stage = 3 THEN P - 1
              ELSE IF Top.stage + 1 = 1 THEN P + 1 ELSE P
  BY ProceedOpen DEF OpenParameterScopes
<1>2. /\ B \in Nat
      /\ Top.node.type = "NFUN" /\ Top.stage >= 2 => B >= 1
      /\ B' = IF Top.node.type # "NFUN" THEN B
              ELSE IF Top.stage = 3 THEN B - 1
              ELSE IF Top.stage + 1 = 2 THEN B + 1 ELSE B
  BY ProceedOpen DEF OpenBodyScopes
<1>3. /\ K \in Nat
      /\ Top.node.type = "BLOCK" /\ Top.stage >= 3 => K >= 1
      /\ K' = IF Top.node.type # "BLOCK" THEN K
              ELSE IF Top.stage = 3 THEN K - 1
              ELSE IF Top.stage + 1 = 3 THEN K + 1 ELSE K
  BY ProceedOpen DEF OpenBlocks
<1>4. Top.stage \in 0..3
  BY TopTyped
<1>5. OpenScopes = P + B + K /\ OpenScopes' = P' + B' + K'
  BY DEF OpenScopes
<1> HIDE DEF P, B, K
<1>6. CASE Top.node.type = "NFUN"
  <2>1. K' = K
    BY <1>3, <1>6
  <2>2. P' \in Int /\ B' \in Int
    BY <1>1, <1>2
  <2>3. PICK p \in Nat, q \in Nat, k \in Nat, p1 \in Int, q1 \in Int :
          p = P /\ q = B /\ k = K /\ p1 = P' /\ q1 = B'
    BY <1>1, <1>2, <1>3, <2>2
  <2>4. OpenScopes = p + q + k /\ OpenScopes' = p1 + q1 + k
    BY <1>5, <2>1, <2>3
  <2>5. Top.stage = 0 => p1 = p + 1 /\ q1 = q
    BY <1>1, <1>2, <1>6, <2>3
  <2>6. Top.stage = 1 => p1 = p /\ q1 = q + 1
    BY <1>1, <1>2, <1>6, <2>3
  <2>7. Top.stage = 3 => p1 = p - 1 /\ q1 = q - 1 /\ p >= 1 /\ q >= 1
    BY <1>1, <1>2, <1>6, <2>3
  <2>8. Top.stage \in {0, 1} => OpenScopes' = OpenScopes + 1
    BY <2>4, <2>5, <2>6
  <2>9. Top.stage = 3 => OpenScopes >= 2 /\ OpenScopes' = OpenScopes - 2
    BY <2>4, <2>7
  <2>10. OpenScopes \in Nat /\ K \in Nat
    BY <2>3, <2>4
  <2> QED BY <1>6, <2>1, <2>8, <2>9, <2>10 DEF K
<1>7. CASE Top.node.type = "BLOCK"
  BY <1>1, <1>2, <1>3, <1>4, <1>5, <1>7 DEF K
<1>8. CASE Top.node.type \notin {"NFUN", "BLOCK"}
  <2>1. P' = P /\ B' = B /\ K' = K
    BY <1>1, <1>2, <1>3, <1>8
  <2> QED BY <1>1, <1>2, <1>3, <1>5, <1>8, <2>1 DEF K
<1> QED BY <1>6, <1>7, <1>8

\* How a handler's call changes the number of nodes to patch.
LEMMA PatchesAfter ==
  ASSUME walk \in Seq(Frame), walk # <<>>, Proceed
  PROVE  /\ OpenPatches \in Nat
         /\ Top.node.type \in {"NFUN", "WHILE", "BRANCH"} /\ Top.stage = COMPILING_LEFT =>
              OpenPatches' = OpenPatches + 1
         /\ Top.node.type = "WHILE" /\ Top.stage = COMPILED_LEFT =>
              OpenPatches' = OpenPatches + 1
         /\ Top.node.type = "WHILE" /\ Top.stage = COMPILED_RIGHT =>
              OpenPatches >= 2 /\ OpenPatches' = OpenPatches - 2
         /\ Top.node.type \in {"NFUN", "BRANCH"} /\ Top.stage \in {COMPILED_LEFT, COMPILING_RIGHT} =>
              OpenPatches >= 1 /\ OpenPatches' = OpenPatches
         /\ Top.node.type \in {"NFUN", "BRANCH"} /\ Top.stage = COMPILED_RIGHT =>
              OpenPatches >= 1 /\ OpenPatches' = OpenPatches - 1
         /\ Top.node.type \notin {"NFUN", "WHILE", "BRANCH"} => OpenPatches' = OpenPatches
<1> USE DEF COMPILING_LEFT, COMPILED_LEFT, COMPILING_RIGHT, COMPILED_RIGHT
<1> DEFINE C(type, stage) == Cardinality(Open(type, stage))
           N == C("NFUN", 1)
           W == C("WHILE", 1)
           V == C("WHILE", 2)
           B == C("BRANCH", 1)
<1>1. ASSUME NEW type, NEW stage \in 1..2
      PROVE  /\ C(type, stage) \in Nat
             /\ Top.node.type = type /\ Top.stage >= stage => C(type, stage) >= 1
             /\ C(type, stage)' = IF Top.node.type # type THEN C(type, stage)
                                  ELSE IF Top.stage = 3 THEN C(type, stage) - 1
                                  ELSE IF Top.stage + 1 = stage THEN C(type, stage) + 1
                                  ELSE C(type, stage)
  BY <1>1, ProceedOpen
<1>2. Top.stage \in 0..3
  BY TopTyped
<1>3. OpenPatches = N + W + V + B /\ OpenPatches' = N' + W' + V' + B'
  BY DEF OpenPatches
<1>4. /\ N \in Nat
      /\ Top.node.type = "NFUN" /\ Top.stage >= 1 => N >= 1
      /\ N' = IF Top.node.type # "NFUN" THEN N
              ELSE IF Top.stage = 3 THEN N - 1 ELSE IF Top.stage = 0 THEN N + 1 ELSE N
  BY <1>1, <1>2
<1>5. /\ W \in Nat
      /\ Top.node.type = "WHILE" /\ Top.stage >= 1 => W >= 1
      /\ W' = IF Top.node.type # "WHILE" THEN W
              ELSE IF Top.stage = 3 THEN W - 1 ELSE IF Top.stage = 0 THEN W + 1 ELSE W
  BY <1>1, <1>2
<1>6. /\ V \in Nat
      /\ Top.node.type = "WHILE" /\ Top.stage >= 2 => V >= 1
      /\ V' = IF Top.node.type # "WHILE" THEN V
              ELSE IF Top.stage = 3 THEN V - 1 ELSE IF Top.stage = 1 THEN V + 1 ELSE V
  BY <1>1, <1>2
<1>7. /\ B \in Nat
      /\ Top.node.type = "BRANCH" /\ Top.stage >= 1 => B >= 1
      /\ B' = IF Top.node.type # "BRANCH" THEN B
              ELSE IF Top.stage = 3 THEN B - 1 ELSE IF Top.stage = 0 THEN B + 1 ELSE B
  BY <1>1, <1>2
<1> HIDE DEF C, N, W, V, B
<1>8. CASE Top.node.type = "NFUN"
  BY <1>2, <1>3, <1>4, <1>5, <1>6, <1>7, <1>8
<1>9. CASE Top.node.type = "WHILE"
  BY <1>2, <1>3, <1>4, <1>5, <1>6, <1>7, <1>9
<1>10. CASE Top.node.type = "BRANCH"
  BY <1>2, <1>3, <1>4, <1>5, <1>6, <1>7, <1>10
<1>11. CASE Top.node.type \notin {"NFUN", "WHILE", "BRANCH"}
  BY <1>2, <1>3, <1>4, <1>5, <1>6, <1>7, <1>11
<1> QED BY <1>8, <1>9, <1>10, <1>11

\* Pushing a node that is linked keeps all of the stack linked.
LEMMA PatchPushed ==
  ASSUME IInv, Grows, NEW id \in 1..Len(heap'), \E j \in 1..Len(list') : list'[j] = id,
         ir_stack' = Append(ir_stack, id)
  PROVE  /\ ir_stack' \in Seq(1..Len(heap'))
         /\ Len(ir_stack') = Len(ir_stack) + 1
         /\ \A i \in 1..Len(ir_stack') : \E j \in 1..Len(list') : list'[j] = ir_stack'[i]
<1> DEFINE S == 1..Len(heap')
           n == Len(ir_stack)
<1>1. ir_stack \in Seq(S) /\ n \in Nat
  <2>1. /\ ir_stack \in Seq(1..Len(heap)) /\ Len(heap) \in Nat /\ n \in Nat
        /\ heap' \in Seq(IrNode) /\ Len(heap') >= Len(heap)
    BY HandlerState DEF Grows
  <2>2. \A i \in 1..Len(ir_stack) : ir_stack[i] \in 1..Len(heap')
    BY <2>1
  <2> QED BY <2>1, <2>2, IsASeq
<1>2. id \in S
  OBVIOUS
<1>3. \A i \in 1..n : \E j \in 1..Len(list') : list'[j] = ir_stack[i]
  BY DEF IInv, PatchStack, Grows
<1> HIDE DEF S
<1>4. /\ Append(ir_stack, id) \in Seq(S)
      /\ Len(Append(ir_stack, id)) = n + 1
      /\ \A i \in 1..n : Append(ir_stack, id)[i] = ir_stack[i]
      /\ Append(ir_stack, id)[n + 1] = id
  BY <1>1, <1>2, AppendProperties
<1> HIDE DEF n
<1>5. \A i \in 1..(n + 1) : i \in 1..n \/ i = n + 1
  BY <1>1
<1>6. \A i \in 1..(n + 1) : \E j \in 1..Len(list') : list'[j] = ir_stack'[i]
  BY <1>3, <1>4, <1>5
<1> QED BY <1>4, <1>6 DEF S, n

\* Popping nodes keeps the rest of the stack linked.
LEMMA PatchPopped ==
  ASSUME IInv, Grows, NEW n \in 0..Len(ir_stack), ir_stack' = SubSeq(ir_stack, 1, n)
  PROVE  /\ ir_stack' \in Seq(1..Len(heap'))
         /\ Len(ir_stack') = n
         /\ \A i \in 1..Len(ir_stack') : \E j \in 1..Len(list') : list'[j] = ir_stack'[i]
<1> DEFINE S == 1..Len(heap')
<1>1. ir_stack \in Seq(S) /\ Len(ir_stack) \in Nat
  <2>1. /\ ir_stack \in Seq(1..Len(heap)) /\ Len(heap) \in Nat /\ Len(ir_stack) \in Nat
        /\ heap' \in Seq(IrNode) /\ Len(heap') >= Len(heap)
    BY HandlerState DEF Grows
  <2>2. \A i \in 1..Len(ir_stack) : ir_stack[i] \in 1..Len(heap')
    BY <2>1
  <2> QED BY <2>1, <2>2, IsASeq
<1>2. \A i \in 1..Len(ir_stack) : \E j \in 1..Len(list') : list'[j] = ir_stack[i]
  BY DEF IInv, PatchStack, Grows
<1> HIDE DEF S
<1>3. /\ SubSeq(ir_stack, 1, n) \in Seq(S)
      /\ Len(SubSeq(ir_stack, 1, n)) = n
      /\ \A i \in 1..n : SubSeq(ir_stack, 1, n)[i] = ir_stack[i]
  BY <1>1, FrontOf
<1>4. \A i \in 1..n : i \in 1..Len(ir_stack)
  BY <1>1
<1>5. \A i \in 1..n : \E j \in 1..Len(list') : list'[j] = ir_stack'[i]
  BY <1>2, <1>3, <1>4
<1> QED BY <1>3, <1>5 DEF S

\* A handler that leaves the function's variables alone, and is not the first
\* or the last one of a function or of a block, keeps what is known of it.
LEMMA CurrentKept ==
  ASSUME IInv, walk # <<>>, Proceed, UNCHANGED <<control, func_return, stack_frame_size>>,
         Top.node.type = "BLOCK" => Top.stage # COMPILED_RIGHT,
         Top.node.type = "NFUN" => Top.stage \in {COMPILED_LEFT, COMPILING_RIGHT}
  PROVE  CurrentFunction'
<1>1. stack_frame_size \in Nat
  BY HandlerState
<1>2. stack_frame_size' \in Nat /\ stack_frame_size' >= stack_frame_size
  BY <1>1
<1>3. TypeOK /\ WalkShape /\ CurrentFunction /\ UNCHANGED <<functions, func_return>>
  BY DEF IInv, control
<1> QED BY <1>2, <1>3, KeptCurrent

\* Where the stack of nodes to patch is not touched it keeps its types.
LEMMA PatchTypesKept ==
  ASSUME IInv, Grows, UNCHANGED ir_stack
  PROVE  /\ ir_stack' \in Seq(1..Len(heap'))
         /\ \A i \in 1..Len(ir_stack') : \E j \in 1..Len(list') : list'[j] = ir_stack'[i]
<1>1. /\ ir_stack \in Seq(1..Len(heap)) /\ Len(heap) \in Nat
      /\ heap' \in Seq(IrNode) /\ Len(heap') >= Len(heap)
  BY HandlerState DEF Grows
<1>2. \A i \in 1..Len(ir_stack) : ir_stack[i] \in 1..Len(heap')
  BY <1>1
<1>3. ir_stack' \in Seq(1..Len(heap'))
  BY <1>1, <1>2, IsASeq
<1>4. \A i \in 1..Len(ir_stack) : \E j \in 1..Len(list') : list'[j] = ir_stack[i]
  BY DEF IInv, PatchStack, Grows
<1> QED BY <1>3, <1>4

\* An unchanged or emptied pointer to the return node stays in range.
LEMMA ReturnTypesKept ==
  ASSUME IInv, Grows, UNCHANGED func_return
  PROVE  func_return' \in 0..Len(heap')
<1>1. /\ func_return \in 0..Len(heap) /\ Len(heap) \in Nat
      /\ heap' \in Seq(IrNode) /\ Len(heap') >= Len(heap)
  BY HandlerState DEF Grows
<1> QED BY <1>1

\* A declaration keeps the invariant: it is in the global scope or in one that
\* is not the parameters'.
LEMMA DeclarationKeeps ==
  ASSUME IInv, compile_NVAR
  PROVE  IInv'
<1> USE DEF COMPILING_LEFT, COMPILED_LEFT, COMPILING_RIGHT, COMPILED_RIGHT
<1> DEFINE name   == Top.node.value
           tables == add_var(name_scope, name)
           nodes  == << new_unary("POP", variable_operand(tables, name)) >>
<1>1. /\ walk # <<>> /\ Proceed /\ UNCHANGED control
      /\ Top.node.type = "NVAR" /\ Top.stage = 3
      /\ name_scope' = tables
      /\ Emit(nodes)
      /\ global_var_cnt' \in {global_var_cnt, global_var_cnt + 1}
      /\ UNCHANGED <<block_depth, stack_frame_size, returns, ir_stack>>
  BY DEF compile_NVAR, Handling
<1>2. /\ walk \in Seq(Frame) /\ heap \in Seq(IrNode) /\ name_scope \in Seq(VarTable)
      /\ name_scope # <<>> /\ Len(name_scope) \in Nat
      /\ list \in Seq(1..Len(heap))
  BY HandlerState
<1>3. name \in Name
  <2>1. Top.node \in Node
    BY <1>1, <1>2, TopTyped
  <2> QED BY <1>1, <2>1, NodeFields DEF Named
<1>4. tables \in Seq(VarTable) /\ Len(tables) = Len(name_scope) /\ Visible(tables, name)
  BY <1>2, <1>3, AddVar
<1>5. Quiet
  BY <1>1 DEF Quiet
<1>6. Grows
  <2> HIDE DEF tables
  <2>1. variable_operand(tables, name) \in ir_operand
    BY <1>4, VariableOperand
  <2>2. nodes \in Seq(IrNode)
    BY <2>1, InstructionTypes DEF ir_op
  <2> HIDE DEF nodes
  <2> QED BY <1>1, <1>2, <2>2, EmitGrows DEF Emit
<1>7. ScopesMatchWalk'
  <2>1. ScopesMatchWalk /\ UNCHANGED block_depth /\ Len(name_scope') = Len(name_scope)
    BY <1>1, <1>4 DEF IInv
  <2> QED BY <1>1, <1>2, <1>5, <2>1, KeptScopes
<1>8. PatchStack'
  BY <1>1, <1>2, <1>5, <1>6, KeptPatch DEF IInv
<1>9. ScopeLayout'
  <2>1. Len(name_scope) # 2
    <3>0. /\ WalkShape /\ ScopesMatchWalk
          /\ walk \in Seq(Frame) /\ walk # <<>>
          /\ Top.node.type \notin {"NFUN", "ARG"}
      BY <1>1, <1>2 DEF IInv
    <3>1. CASE walk[1].node.type = "NVAR"
      <4>1. Len(name_scope) = 1
        BY <3>0, <3>1, InsideInitializer
      <4> QED BY <4>1
    <3>2. CASE walk[1].node.type = "NFUN"
      <4>1. Len(name_scope) >= 3 + Cardinality(OpenBlocks)
        BY <3>0, <3>2, InsideBody
      <4>2. Cardinality(OpenBlocks) \in Nat
        BY <1>1, <1>2, ScopesAfter
      <4>3. PICK k \in Nat, m \in Nat : k = Cardinality(OpenBlocks) /\ m = Len(name_scope)
        BY <1>2, <4>2
      <4>4. m >= 3 + k
        BY <4>1, <4>3
      <4>5. m # 2
        BY <4>4
      <4> QED BY <4>3, <4>5
    <3>3. walk[1].node.type \in {"NVAR", "NFUN"}
      BY <1>1 DEF IInv, WalkShape
    <3> QED BY <3>1, <3>2, <3>3
  <2>2. ScopeLayout
    BY DEF IInv
  <2> QED BY <1>1, <1>2, <1>3, <2>1, <2>2, LayoutDeclared
<1>10. CurrentFunction'
  BY <1>1, CurrentKept DEF returns
<1>11. func_return' \in 0..Len(heap') /\ ir_stack' \in Seq(1..Len(heap'))
  <2>1. UNCHANGED func_return /\ UNCHANGED ir_stack
    BY <1>1 DEF returns
  <2> QED BY <1>6, <2>1, ReturnTypesKept, PatchTypesKept
<1>12. /\ block_depth' \in Nat /\ global_var_cnt' \in Nat
       /\ stack_frame_size' \in Nat /\ has_return' \in BOOLEAN
  <2>1. /\ block_depth \in Nat /\ global_var_cnt \in Nat
        /\ stack_frame_size \in Nat /\ has_return \in BOOLEAN
    BY DEF IInv, TypeOK
  <2>2. UNCHANGED <<block_depth, stack_frame_size, has_return>>
    BY <1>1 DEF returns
  <2>3. global_var_cnt' \in {global_var_cnt, global_var_cnt + 1}
    BY <1>1
  <2> QED BY <2>1, <2>2, <2>3
<1>13. name_scope' \in Seq(VarTable)
  BY <1>1, <1>4
<1> QED BY <1>1, <1>6, <1>7, <1>8, <1>9, <1>10, <1>11, <1>12, <1>13, HandlerStep

\* Entering and leaving a block keeps the invariant: a block is compiled in
\* the two scopes of its function, so its own starts behind their variables.
LEMMA BlockKeeps ==
  ASSUME IInv, compile_BLOCK_begin \/ compile_BLOCK_end
  PROVE  IInv'
<1> USE DEF COMPILING_LEFT, COMPILED_LEFT, COMPILING_RIGHT, COMPILED_RIGHT
<1>1. /\ walk # <<>> /\ Proceed /\ UNCHANGED control
      /\ Top.node.type = "BLOCK"
      /\ UNCHANGED <<global_var_cnt, returns, ir_stack, code>>
  BY DEF compile_BLOCK_begin, compile_BLOCK_end, Handling
<1>2. /\ walk \in Seq(Frame) /\ name_scope \in Seq(VarTable)
      /\ name_scope # <<>> /\ Len(name_scope) \in Nat /\ stack_frame_size \in Nat
  BY HandlerState
<1>3. Grows
  BY <1>1, HandlerState DEF Grows, code
<1>4. Len(name_scope) >= 3 + Cardinality(OpenBlocks) /\ Cardinality(OpenBlocks) \in Nat
  <2>1. walk[1].node.type = "NFUN"
    <3>1. CASE walk[1].node.type = "NVAR"
      <4> DEFINE n == Len(walk)
      <4>1. n \in Nat \ {0} /\ Top = walk[n]
        BY <1>1, <1>2 DEF Top
      <4>2. n # 1
        BY <1>1, <3>1, <4>1
      <4>3. n \in 2..n
        <5> HIDE DEF n
        <5> QED BY <4>1, <4>2
      <4>4. walk[n].node.type \in ExpressionPart
        BY <1>1, <3>1, <4>3 DEF IInv, WalkShape
      <4> QED BY <1>1, <4>1, <4>4 DEF ExpressionPart, Expression
    <3>2. walk[1].node.type \in {"NVAR", "NFUN"}
      BY <1>1 DEF IInv, WalkShape
    <3> QED BY <3>1, <3>2
  <2>2. WalkShape /\ ScopesMatchWalk
    BY DEF IInv
  <2>3. Len(name_scope) >= 3 + Cardinality(OpenBlocks)
    BY <1>1, <1>2, <2>1, <2>2, InsideBody
  <2> QED BY <1>1, <1>2, <2>3, ScopesAfter
<1>5. /\ get_next_offset(name_scope) \in Int
      /\ get_next_offset(name_scope) >= SLOT
      /\ \A t \in 3..Len(name_scope) : TableEnd(name_scope[t]) <= get_next_offset(name_scope)
  <2>1. ScopeLayout /\ Len(name_scope) >= 3
    BY <1>2, <1>4 DEF IInv
  <2> QED BY <1>2, <2>1, NextOffset DEF ScopeLayout
<1>6. PatchStack'
  <2>1. OpenPatches' = OpenPatches
    BY <1>1, <1>2, PatchesAfter
  <2> QED BY <1>1, <2>1 DEF IInv, PatchStack, OpenPatches, code
<1>7. func_return' \in 0..Len(heap') /\ ir_stack' \in Seq(1..Len(heap'))
  <2>1. UNCHANGED func_return /\ UNCHANGED ir_stack
    BY <1>1 DEF returns
  <2> QED BY <1>3, <2>1, ReturnTypesKept, PatchTypesKept
<1>8. global_var_cnt' \in Nat /\ has_return' \in BOOLEAN
  BY <1>1 DEF IInv, TypeOK, returns
<1>9. /\ block_depth = Cardinality(OpenBlocks)
      /\ Len(name_scope) = 1 + OpenScopes
      /\ OpenScopes \in Nat
  <2>1. /\ Cardinality(OpenParameterScopes) \in Nat
        /\ Cardinality(OpenBodyScopes) \in Nat
    BY <1>1, <1>2, ProceedOpen DEF OpenParameterScopes, OpenBodyScopes
  <2> QED BY <1>4, <2>1 DEF IInv, ScopesMatchWalk, OpenScopes
<1>10. ScopesMatchWalk' <=> /\ block_depth' = Cardinality(OpenBlocks)'
                            /\ Len(name_scope') = 1 + OpenScopes'
  BY DEF ScopesMatchWalk, OpenScopes
<1>11. CASE compile_BLOCK_begin
  <2> DEFINE offset == get_next_offset(name_scope)
  <2>1. /\ Top.stage = 2
        /\ block_depth' = block_depth + 1
        /\ name_scope' = add_table(name_scope, offset)
        /\ UNCHANGED stack_frame_size
    BY <1>11 DEF compile_BLOCK_begin, Handling
  <2>2. name_scope' \in Seq(VarTable) /\ Len(name_scope') = Len(name_scope) + 1
    BY <1>2, <1>5, <2>1, AddTable
  <2>3. /\ Cardinality(OpenBlocks)' = Cardinality(OpenBlocks) + 1
        /\ OpenScopes' = OpenScopes + 1
    BY <1>1, <1>2, <2>1, ScopesAfter
  <2>4. ScopesMatchWalk'
    BY <1>9, <1>10, <2>1, <2>2, <2>3
  <2>5. ScopeLayout'
    <3>1. ScopeLayout
      BY DEF IInv
    <3> HIDE DEF offset
    <3> QED BY <1>2, <1>5, <2>1, <3>1, LayoutOpened DEF offset
  <2>6. CurrentFunction'
    BY <1>1, <2>1, CurrentKept DEF returns
  <2>7. block_depth' \in Nat /\ stack_frame_size' \in Nat
    BY <1>2, <1>4, <1>9, <2>1
  <2> QED BY <1>1, <1>3, <1>6, <1>7, <1>8, <2>2, <2>4, <2>5, <2>6, <2>7, HandlerStep
<1>12. CASE compile_BLOCK_end
  <2> DEFINE offset == get_next_offset(name_scope)
  <2>1. /\ Top.stage = 3
        /\ block_depth' = block_depth - 1
        /\ stack_frame_size' = max_long(stack_frame_size, offset)
        /\ name_scope' = pop_table(name_scope)
    BY <1>12 DEF compile_BLOCK_end, Handling
  <2>2. /\ name_scope' \in Seq(VarTable)
        /\ Len(name_scope') = Len(name_scope) - 1
        /\ \A t \in 1..(Len(name_scope) - 1) : name_scope'[t] = name_scope[t]
    BY <1>2, <2>1, PopTable
  <2>3. /\ Cardinality(OpenBlocks) >= 1
        /\ Cardinality(OpenBlocks)' = Cardinality(OpenBlocks) - 1
        /\ OpenScopes' = OpenScopes - 1
    BY <1>1, <1>2, <2>1, ScopesAfter
  <2>4. ScopesMatchWalk'
    BY <1>9, <1>10, <2>1, <2>2, <2>3
  <2>5. ScopeLayout'
    <3>1. ScopeLayout /\ Len(name_scope') \in 1..Len(name_scope)
      BY <1>2, <1>4, <2>2 DEF IInv
    <3>2. \A t \in 1..Len(name_scope') : name_scope'[t] = name_scope[t]
      BY <2>2
    <3> QED BY <1>2, <2>2, <3>1, <3>2, LayoutClosed
  <2>6. /\ stack_frame_size' \in Nat
        /\ stack_frame_size' >= stack_frame_size
        /\ stack_frame_size' >= SLOT
    BY <1>2, <1>5, <2>1 DEF max_long, SLOT
  <2>7. CurrentFunction'
    <3>1. TypeOK /\ WalkShape /\ CurrentFunction /\ UNCHANGED <<functions, func_return>>
      BY <1>1 DEF IInv, control, returns
    <3> QED BY <1>1, <2>6, <3>1, KeptCurrent
  <2>8. block_depth' \in Nat
    BY <1>4, <1>9, <2>1, <2>3
  <2> QED BY <1>1, <1>3, <1>6, <1>7, <1>8, <2>2, <2>4, <2>5, <2>6, <2>7, <2>8, HandlerStep
<1> QED BY <1>11, <1>12

-----------------------------------------------------------------------------
(* Loops and branches.                                                     *)

\* A handler of a loop or a branch touches no scope: it has to emit, and to
\* keep the stack of nodes to patch.
LEMMA PatchingStep ==
  ASSUME IInv, walk # <<>>, Proceed, Top.node.type \in {"WHILE", "BRANCH"},
         UNCHANGED <<control, scoping, returns>>, Grows,
         ir_stack' \in Seq(1..Len(heap')),
         Len(ir_stack') = OpenPatches',
         \A i \in 1..Len(ir_stack') : \E j \in 1..Len(list') : list'[j] = ir_stack'[i]
  PROVE  IInv'
<1>1. walk \in Seq(Frame)
  BY HandlerState
<1>2. PatchStack'
  BY DEF PatchStack, OpenPatches
<1>3. ScopesMatchWalk'
  <2>1. Top.node.type \notin {"NFUN", "BLOCK"}
    OBVIOUS
  <2>2. OpenScopes' = OpenScopes /\ Cardinality(OpenBlocks)' = Cardinality(OpenBlocks)
    BY <1>1, <2>1, ScopesAfter
  <2>3. block_depth = Cardinality(OpenBlocks) /\ Len(name_scope) = 1 + OpenScopes
    BY DEF IInv, ScopesMatchWalk, OpenScopes
  <2>4. block_depth' = Cardinality(OpenBlocks)' /\ Len(name_scope') = 1 + OpenScopes'
    BY <2>2, <2>3 DEF scoping
  <2> QED BY <2>4 DEF ScopesMatchWalk, OpenScopes
<1>4. ScopeLayout'
  BY DEF IInv, ScopeLayout, LaidOut, scoping
<1>5. CurrentFunction'
  BY CurrentKept DEF scoping, returns
<1>6. func_return' \in 0..Len(heap')
  <2>1. UNCHANGED func_return
    BY DEF returns
  <2> QED BY <2>1, ReturnTypesKept
<1>7. /\ name_scope' \in Seq(VarTable) /\ block_depth' \in Nat /\ global_var_cnt' \in Nat
      /\ stack_frame_size' \in Nat /\ has_return' \in BOOLEAN
  BY DEF IInv, TypeOK, scoping, returns
<1>8. UNCHANGED control
  OBVIOUS
<1> QED BY <1>2, <1>3, <1>4, <1>5, <1>6, <1>7, <1>8, HandlerStep

\* Allocating nodes and linking any nodes at the end makes heap and list grow.
LEMMA LinkGrows ==
  ASSUME IInv, NEW h \in Seq(IrNode), Len(h) = Len(heap), NEW nodes \in Seq(IrNode),
         NEW links \in Seq(1..(Len(heap) + Len(nodes))),
         heap' = h \o nodes, list' = list \o links
  PROVE  /\ Grows
         /\ Len(heap') = Len(heap) + Len(nodes)
         /\ \A i \in 1..Len(links) : \E j \in 1..Len(list') : list'[j] = links[i]
<1> DEFINE n == Len(heap)
           k == Len(nodes)
           S == 1..(n + k)
           m == Len(list)
           d == Len(links)
<1>1. /\ n \in Nat /\ k \in Nat /\ m \in Nat /\ d \in Nat
      /\ list \in Seq(1..n) /\ list # <<>>
  BY HandlerState
<1>2. heap' \in Seq(IrNode) /\ Len(heap') = n + k
  <2>1. h \o nodes \in Seq(IrNode) /\ Len(h \o nodes) = Len(h) + Len(nodes)
    BY ConcatProperties
  <2> QED BY <2>1
<1>3. list \in Seq(S) /\ links \in Seq(S)
  <2>1. \A i \in 1..m : list[i] \in S
    BY <1>1
  <2> QED BY <1>1, <2>1, IsASeq
<1> HIDE DEF S
<1>4. list \o links \in Seq(S) /\ Len(list \o links) = m + d
  BY <1>3, ConcatProperties
<1>5. \A i \in 1..(m + d) :
        (list \o links)[i] = IF i <= m THEN list[i] ELSE links[i - m]
  BY <1>3, ConcatProperties
<1> HIDE DEF n, k, m, d
<1>6. \A i \in 1..m : i \in 1..(m + d) /\ list'[i] = list[i]
  <2> TAKE i \in 1..m
  <2>1. i \in 1..(m + d) /\ i <= m
    BY <1>1
  <2> QED BY <1>5, <2>1
<1>7. \A i \in 1..d : m + i \in 1..(m + d) /\ list'[m + i] = links[i]
  <2> TAKE i \in 1..d
  <2>1. m + i \in 1..(m + d) /\ ~ (m + i <= m) /\ (m + i) - m = i
    BY <1>1
  <2> QED BY <1>5, <2>1
<1>8. Len(list') = m + d /\ list' \in Seq(S)
  BY <1>4
<1>9. list' # <<>>
  <2>1. m # 0
    BY <1>1 DEF m
  <2> QED BY <1>1, <1>8, <2>1
<1>10. \A i \in 1..m : \E j \in 1..Len(list') : list'[j] = list[i]
  BY <1>6, <1>8
<1>11. \A i \in 1..d : \E j \in 1..Len(list') : list'[j] = links[i]
  BY <1>7, <1>8
<1>12. Len(heap') >= n
  BY <1>1, <1>2
<1>13. Grows
  BY <1>2, <1>8, <1>9, <1>10, <1>12 DEF Grows, S, m, n
<1> QED BY <1>2, <1>11, <1>13 DEF n, k, d

\* Linking two nodes in reverse, as the ends of loops and branches do.
LEMMA EmitSwapped ==
  ASSUME IInv, NEW h \in Seq(IrNode), Len(h) = Len(heap),
         NEW first \in IrNode, NEW second \in IrNode,
         heap' = h \o << first, second >>,
         list' = list \o << Len(heap) + 2, Len(heap) + 1 >>
  PROVE  /\ Grows
         /\ Len(heap') = Len(heap) + 2
         /\ \E j \in 1..Len(list') : list'[j] = Len(heap) + 2
<1> DEFINE nodes == << first, second >>
           links == << Len(heap) + 2, Len(heap) + 1 >>
<1>1. nodes \in Seq(IrNode) /\ Len(nodes) = 2
  OBVIOUS
<1>2. links \in Seq(1..(Len(heap) + 2)) /\ Len(links) = 2 /\ links[1] = Len(heap) + 2
  <2>1. Len(heap) \in Nat
    BY HandlerState
  <2> QED BY <2>1
<1>3. heap' = h \o nodes /\ list' = list \o links
  OBVIOUS
<1> HIDE DEF nodes, links
<1>4. /\ Grows
      /\ Len(heap') = Len(heap) + Len(nodes)
      /\ \A i \in 1..Len(links) : \E j \in 1..Len(list') : list'[j] = links[i]
  BY <1>1, <1>2, <1>3, LinkGrows
<1>5. 1 \in 1..Len(links)
  BY <1>2
<1> QED BY <1>1, <1>2, <1>4, <1>5

\* The three handlers of a loop keep the invariant.
LEMMA LoopKeeps ==
  ASSUME IInv, compile_WHILE_start \/ compile_WHILE_test \/ compile_WHILE_end
  PROVE  IInv'
<1> USE DEF COMPILING_LEFT, COMPILED_LEFT, COMPILING_RIGHT, COMPILED_RIGHT
<1>1. /\ walk # <<>> /\ Proceed /\ Top.node.type = "WHILE"
      /\ UNCHANGED <<control, scoping, returns>>
  BY DEF compile_WHILE_start, compile_WHILE_test, compile_WHILE_end, Handling
<1>2. /\ walk \in Seq(Frame) /\ heap \in Seq(IrNode) /\ Len(heap) \in Nat
      /\ list \in Seq(1..Len(heap)) /\ list # <<>>
      /\ ir_stack \in Seq(1..Len(heap)) /\ Len(ir_stack) \in Nat
  BY HandlerState
<1>3. Len(ir_stack) = OpenPatches
  BY DEF IInv, PatchStack, OpenPatches
<1>4. CASE compile_WHILE_start
  <2>1. Top.stage = 0 /\ Emit(<< new_empty >>) /\ ir_stack' = Append(ir_stack, Len(heap) + 1)
    BY <1>4 DEF compile_WHILE_start, Handling
  <2> DEFINE nodes == << new_empty >>
  <2>2. nodes \in Seq(IrNode) /\ Len(nodes) = 1
    BY InstructionTypes
  <2>3. EmitTo(heap, nodes)
    BY <2>1 DEF Emit
  <2> HIDE DEF nodes
  <2>4. /\ Grows /\ Len(heap') = Len(heap) + 1
        /\ \E j \in 1..Len(list') : list'[j] = Len(heap) + 1
    <3>1. /\ Grows
          /\ Len(heap') = Len(heap) + Len(nodes)
          /\ \A i \in 1..Len(nodes) : \E j \in 1..Len(list') : list'[j] = Len(heap) + i
      BY <1>2, <2>2, <2>3, EmitGrows
    <3> QED BY <2>2, <3>1
  <2>5. Len(heap) + 1 \in 1..Len(heap')
    BY <1>2, <2>4
  <2>6. OpenPatches' = OpenPatches + 1
    BY <1>1, <1>2, <2>1, PatchesAfter
  <2>7. /\ ir_stack' \in Seq(1..Len(heap'))
        /\ Len(ir_stack') = Len(ir_stack) + 1
        /\ \A i \in 1..Len(ir_stack') : \E j \in 1..Len(list') : list'[j] = ir_stack'[i]
    BY <2>1, <2>4, <2>5, PatchPushed
  <2> QED BY <1>1, <1>3, <2>4, <2>6, <2>7, PatchingStep
<1>5. CASE compile_WHILE_test
  <2> DEFINE h == Discarding(Top.node.left)
  <2>1. Top.stage = 1 /\ EmitTo(h, test_code) /\ ir_stack' = Append(ir_stack, Len(heap) + 3)
    BY <1>5 DEF compile_WHILE_test, Handling
  <2>2. h \in Seq(IrNode) /\ Len(h) = Len(heap)
    BY <1>2, DiscardTyped
  <2> HIDE DEF h
  <2>3. test_code \in Seq(IrNode) /\ Len(test_code) = 3
    BY FixedCodeTypes
  <2>4. /\ Grows /\ Len(heap') = Len(heap) + 3
        /\ \E j \in 1..Len(list') : list'[j] = Len(heap) + 3
    <3>1. /\ Grows
          /\ Len(heap') = Len(heap) + Len(test_code)
          /\ \A i \in 1..Len(test_code) : \E j \in 1..Len(list') : list'[j] = Len(heap) + i
      BY <2>1, <2>2, <2>3, EmitGrows
    <3> QED BY <2>3, <3>1
  <2>5. Len(heap) + 3 \in 1..Len(heap')
    BY <1>2, <2>4
  <2>6. OpenPatches' = OpenPatches + 1
    BY <1>1, <1>2, <2>1, PatchesAfter
  <2>7. /\ ir_stack' \in Seq(1..Len(heap'))
        /\ Len(ir_stack') = Len(ir_stack) + 1
        /\ \A i \in 1..Len(ir_stack') : \E j \in 1..Len(list') : list'[j] = ir_stack'[i]
    BY <2>1, <2>4, <2>5, PatchPushed
  <2> QED BY <1>1, <1>3, <2>4, <2>6, <2>7, PatchingStep
<1>6. CASE compile_WHILE_end
  <2> DEFINE end   == Len(heap) + 1
             start == ir_stack[Len(ir_stack) - 1]
             h     == Patch(heap, LastPending, end)
             k     == Len(ir_stack) - 2
  <2>1. /\ Top.stage = 3
        /\ heap' = h \o << new_empty, new_jmp("NONE", start) >>
        /\ list' = list \o << end + 1, end >>
        /\ ir_stack' = SubSeq(ir_stack, 1, k)
    BY <1>6 DEF compile_WHILE_end, Handling
  <2>2. OpenPatches >= 2 /\ OpenPatches' = OpenPatches - 2 /\ OpenPatches \in Nat
    BY <1>1, <1>2, <2>1, PatchesAfter
  <2>3. k \in 0..Len(ir_stack) /\ k = OpenPatches'
    BY <1>2, <1>3, <2>2
  <2>4. LastPending \in 1..Len(heap) /\ start \in 1..Len(heap)
    <3>1. Len(ir_stack) \in 1..Len(ir_stack) /\ Len(ir_stack) - 1 \in 1..Len(ir_stack)
      BY <1>2, <1>3, <2>2
    <3>2. LastPending = ir_stack[Len(ir_stack)]
      BY DEF LastPending
    <3>3. ir_stack \in Seq(1..Len(heap))
      BY <1>2
    <3> QED BY ONLY <3>1, <3>2, <3>3, ElementOfSeq
  <2>5. h \in Seq(IrNode) /\ Len(h) = Len(heap)
    BY <1>2, <2>4, PatchTyped
  <2>6. new_empty \in IrNode /\ new_jmp("NONE", start) \in IrNode
    BY <1>2, <2>4, InstructionTypes DEF ir_cond_flags
  <2>7. end + 1 = Len(heap) + 2
    BY <1>2
  <2> HIDE DEF h, start
  <2>8. Grows
    BY <2>1, <2>5, <2>6, <2>7, EmitSwapped
  <2> HIDE DEF k
  <2>9. /\ ir_stack' \in Seq(1..Len(heap'))
        /\ Len(ir_stack') = k
        /\ \A i \in 1..Len(ir_stack') : \E j \in 1..Len(list') : list'[j] = ir_stack'[i]
    BY <2>1, <2>3, <2>8, PatchPopped
  <2> QED BY <1>1, <2>3, <2>8, <2>9, PatchingStep
<1> QED BY <1>4, <1>5, <1>6

\* The three handlers of a branch keep the invariant.
LEMMA BranchKeeps ==
  ASSUME IInv, compile_BRANCH_test \/ compile_BRANCH_else \/ compile_BRANCH_end
  PROVE  IInv'
<1> USE DEF COMPILING_LEFT, COMPILED_LEFT, COMPILING_RIGHT, COMPILED_RIGHT
<1>1. /\ walk # <<>> /\ Proceed /\ Top.node.type = "BRANCH"
      /\ UNCHANGED <<control, scoping, returns>>
  BY DEF compile_BRANCH_test, compile_BRANCH_else, compile_BRANCH_end, Handling
<1>2. /\ walk \in Seq(Frame) /\ heap \in Seq(IrNode) /\ Len(heap) \in Nat
      /\ list \in Seq(1..Len(heap)) /\ list # <<>>
      /\ ir_stack \in Seq(1..Len(heap)) /\ Len(ir_stack) \in Nat
  BY HandlerState
<1>3. Len(ir_stack) = OpenPatches
  BY DEF IInv, PatchStack, OpenPatches
<1>4. CASE compile_BRANCH_test
  <2>1. Top.stage = 0 /\ EmitTo(heap, test_code) /\ ir_stack' = Append(ir_stack, Len(heap) + 3)
    BY <1>4 DEF compile_BRANCH_test, Handling, Emit
  <2>2. test_code \in Seq(IrNode) /\ Len(test_code) = 3
    BY FixedCodeTypes
  <2>3. /\ Grows /\ Len(heap') = Len(heap) + 3
        /\ \E j \in 1..Len(list') : list'[j] = Len(heap) + 3
    <3>1. /\ Grows
          /\ Len(heap') = Len(heap) + Len(test_code)
          /\ \A i \in 1..Len(test_code) : \E j \in 1..Len(list') : list'[j] = Len(heap) + i
      BY <1>2, <2>1, <2>2, EmitGrows
    <3> QED BY <2>2, <3>1
  <2>4. Len(heap) + 3 \in 1..Len(heap')
    BY <1>2, <2>3
  <2>5. OpenPatches' = OpenPatches + 1
    BY <1>1, <1>2, <2>1, PatchesAfter
  <2>6. /\ ir_stack' \in Seq(1..Len(heap'))
        /\ Len(ir_stack') = Len(ir_stack) + 1
        /\ \A i \in 1..Len(ir_stack') : \E j \in 1..Len(list') : list'[j] = ir_stack'[i]
    BY <2>1, <2>3, <2>4, PatchPushed
  <2> QED BY <1>1, <1>3, <2>3, <2>5, <2>6, PatchingStep
<1>5. CASE compile_BRANCH_else
  <2> DEFINE else == Len(heap) + 1
             d    == Discarding(Top.node.left)
             h    == Patch(d, LastPending, else)
             n    == Len(ir_stack)
  <2>1. /\ Top.stage = 1
        /\ heap' = h \o << new_empty, new_jmp("NONE", NIL) >>
        /\ list' = list \o << else + 1, else >>
        /\ ir_stack' = [ir_stack EXCEPT ![n] = else + 1]
    BY <1>5 DEF compile_BRANCH_else, Handling
  <2>2. OpenPatches >= 1 /\ OpenPatches' = OpenPatches /\ OpenPatches \in Nat
    BY <1>1, <1>2, <2>1, PatchesAfter
  <2>3. n \in 1..n
    BY <1>2, <1>3, <2>2
  <2>4. LastPending \in 1..Len(heap)
    BY <1>2, <2>3 DEF LastPending
  <2>5. d \in Seq(IrNode) /\ Len(d) = Len(heap)
    BY <1>2, DiscardTyped
  <2>6. h \in Seq(IrNode) /\ Len(h) = Len(heap)
    <3> HIDE DEF d
    <3>1. else \in Nat
      BY <1>2
    <3> QED BY <2>4, <2>5, <3>1, PatchTyped
  <2>7. new_empty \in IrNode /\ new_jmp("NONE", NIL) \in IrNode
    BY InstructionTypes DEF ir_cond_flags, NIL
  <2>8. else + 1 = Len(heap) + 2
    BY <1>2
  <2> HIDE DEF h
  <2>9. /\ Grows /\ Len(heap') = Len(heap) + 2
        /\ \E j \in 1..Len(list') : list'[j] = Len(heap) + 2
    BY <2>1, <2>6, <2>7, <2>8, EmitSwapped
  <2>10. /\ ir_stack \in Seq(1..Len(heap'))
         /\ else + 1 \in 1..Len(heap')
    <3>1. \A i \in 1..Len(ir_stack) : ir_stack[i] \in 1..Len(heap')
      BY <1>2, <2>9
    <3> QED BY <1>2, <2>8, <2>9, <3>1, IsASeq
  <2>11. /\ ir_stack' \in Seq(1..Len(heap'))
         /\ Len(ir_stack') = n
         /\ \A i \in 1..n : ir_stack'[i] = IF i = n THEN else + 1 ELSE ir_stack[i]
    <3> DEFINE S == 1..Len(heap')
               e == else + 1
    <3>1. ir_stack \in Seq(S) /\ e \in S /\ n \in 1..Len(ir_stack)
      BY <2>3, <2>10
    <3> HIDE DEF S, e
    <3>2. /\ [ir_stack EXCEPT ![n] = e] \in Seq(S)
          /\ Len([ir_stack EXCEPT ![n] = e]) = Len(ir_stack)
          /\ \A i \in 1..Len(ir_stack) :
               [ir_stack EXCEPT ![n] = e][i] = IF i = n THEN e ELSE ir_stack[i]
      BY <3>1, ExceptSeq
    <3>3. ir_stack' = [ir_stack EXCEPT ![n] = e]
      BY <2>1 DEF e
    <3> QED BY <3>2, <3>3 DEF S, e
  <2>12. \A i \in 1..n : \E j \in 1..Len(list') : list'[j] = ir_stack'[i]
    <3>1. ASSUME NEW i \in 1..n
          PROVE  \E j \in 1..Len(list') : list'[j] = ir_stack[i]
      <4>1. PICK j \in 1..Len(list) : list[j] = ir_stack[i]
        BY DEF IInv, PatchStack
      <4>2. \E k \in 1..Len(list') : list'[k] = list[j]
        BY <2>9, <4>1 DEF Grows
      <4> QED BY ONLY <4>1, <4>2
    <3> QED BY <2>8, <2>9, <2>11, <3>1
  <2>13. Len(ir_stack') = OpenPatches'
    BY <1>3, <2>2, <2>11
  <2> QED BY <1>1, <2>9, <2>11, <2>12, <2>13, PatchingStep
<1>6. CASE compile_BRANCH_end
  <2> DEFINE d == Discarding(Top.node.right)
             h == Patch(d, LastPending, Len(heap) + 1)
             k == Len(ir_stack) - 1
             nodes == << new_empty >>
  <2>1. /\ Top.stage = 3
        /\ EmitTo(h, nodes)
        /\ ir_stack' = SubSeq(ir_stack, 1, k)
    BY <1>6 DEF compile_BRANCH_end, Handling
  <2>2. OpenPatches >= 1 /\ OpenPatches' = OpenPatches - 1 /\ OpenPatches \in Nat
    BY <1>1, <1>2, <2>1, PatchesAfter
  <2>3. k \in 0..Len(ir_stack) /\ k = OpenPatches'
    BY <1>2, <1>3, <2>2
  <2>4. LastPending \in 1..Len(heap)
    <3>1. Len(ir_stack) \in 1..Len(ir_stack)
      BY <1>2, <1>3, <2>2
    <3> QED BY <1>2, <3>1 DEF LastPending
  <2>5. d \in Seq(IrNode) /\ Len(d) = Len(heap)
    BY <1>2, DiscardTyped
  <2>6. h \in Seq(IrNode) /\ Len(h) = Len(heap)
    <3> HIDE DEF d
    <3>1. Len(heap) + 1 \in Nat
      BY <1>2
    <3> QED BY <2>4, <2>5, <3>1, PatchTyped
  <2>7. nodes \in Seq(IrNode)
    BY InstructionTypes
  <2> HIDE DEF h, nodes
  <2>8. Grows
    BY <2>1, <2>6, <2>7, EmitGrows
  <2> HIDE DEF k
  <2>9. /\ ir_stack' \in Seq(1..Len(heap'))
        /\ Len(ir_stack') = k
        /\ \A i \in 1..Len(ir_stack') : \E j \in 1..Len(list') : list'[j] = ir_stack'[i]
    BY <2>1, <2>3, <2>8, PatchPopped
  <2> QED BY <1>1, <2>3, <2>8, <2>9, PatchingStep
<1> QED BY <1>4, <1>5, <1>6

-----------------------------------------------------------------------------
(* Functions.                                                              *)

\* A node inserted behind one of the list leaves all the others in it.
LEMMA InsertAfter ==
  ASSUME NEW S, NEW l \in Seq(S), NEW old, \E i \in 1..Len(l) : l[i] = old, NEW new \in S
  PROVE  /\ insert_after(l, old, new) \in Seq(S)
         /\ \A i \in 1..Len(l) :
              \E j \in 1..Len(insert_after(l, old, new)) : insert_after(l, old, new)[j] = l[i]
<1> DEFINE at    == CHOOSE i \in 1..Len(l) : l[i] = old
           n     == Len(l)
           left  == SubSeq(l, 1, at)
           right == SubSeq(l, at + 1, n)
           mid   == << new >>
           most  == left \o mid
<1>1. at \in 1..n /\ n \in Nat
  OBVIOUS
<1> HIDE DEF at
<1>2. left \in Seq(S) /\ Len(left) = at /\ \A i \in 1..at : left[i] = l[i]
  <2>1. at \in 0..n
    BY <1>1
  <2> QED BY <2>1, FrontOf
<1>3. right \in Seq(S) /\ Len(right) = n - at /\ \A i \in 1..(n - at) : right[i] = l[at + i]
  <2>1. /\ right \in Seq(S)
        /\ Len(right) = IF at + 1 <= n THEN n - (at + 1) + 1 ELSE 0
        /\ \A i \in 1..Len(right) : right[i] = l[(at + 1) + i - 1]
    <3>1. at + 1 \in 1..(n + 1) /\ n \in 0..n
      BY <1>1
    <3> QED BY <3>1, SubSeqProperties
  <2>2. Len(right) = n - at
    BY <1>1, <2>1
  <2>3. \A i \in 1..(n - at) : (at + 1) + i - 1 = at + i
    BY <1>1
  <2> QED BY <2>1, <2>2, <2>3
<1>4. mid \in Seq(S) /\ Len(mid) = 1
  OBVIOUS
<1> HIDE DEF n, left, right, mid
<1>5. most \in Seq(S) /\ Len(most) = at + 1
  <2>1. left \o mid \in Seq(S) /\ Len(left \o mid) = Len(left) + Len(mid)
    BY <1>2, <1>4, ConcatProperties
  <2> QED BY <1>2, <1>4, <2>1
<1>6. \A i \in 1..(at + 1) : most[i] = IF i <= at THEN left[i] ELSE mid[i - at]
  <2>1. left \in Seq(S) /\ mid \in Seq(S)
    BY <1>2, <1>4
  <2>2. \A i \in 1..(Len(left) + Len(mid)) :
          (left \o mid)[i] = IF i <= Len(left) THEN left[i] ELSE mid[i - Len(left)]
    BY <2>1, ConcatProperties
  <2> QED BY <1>2, <1>4, <2>2
<1> HIDE DEF most
<1>7. most \o right \in Seq(S) /\ Len(most \o right) = n + 1
  <2>1. most \o right \in Seq(S) /\ Len(most \o right) = Len(most) + Len(right)
    BY <1>3, <1>5, ConcatProperties
  <2> QED BY <1>1, <1>3, <1>5, <2>1
<1>8. \A i \in 1..(Len(most) + Len(right)) :
        (most \o right)[i] = IF i <= Len(most) THEN most[i] ELSE right[i - Len(most)]
  BY <1>3, <1>5, ConcatProperties
<1>9. insert_after(l, old, new) = most \o right
  BY DEF insert_after, most, left, mid, right, at, n
<1>10. ASSUME NEW i \in 1..n
       PROVE  \E j \in 1..(n + 1) : (most \o right)[j] = l[i]
  <2>1. CASE i <= at
    <3>1. i \in 1..(Len(most) + Len(right)) /\ i <= Len(most) /\ i \in 1..(n + 1) /\ i \in 1..at
      BY <1>1, <1>3, <1>5, <2>1
    <3>2. (most \o right)[i] = most[i]
      BY <1>8, <3>1
    <3>3. most[i] = l[i]
      <4>1. i \in 1..(at + 1)
        BY <1>1, <3>1
      <4> QED BY <1>2, <1>6, <2>1, <3>1, <4>1
    <3> QED BY <3>1, <3>2, <3>3
  <2>2. CASE ~ (i <= at)
    <3>1. /\ i + 1 \in 1..(Len(most) + Len(right))
          /\ ~ (i + 1 <= Len(most))
          /\ (i + 1) - Len(most) = i - at
          /\ i + 1 \in 1..(n + 1)
          /\ i - at \in 1..(n - at)
          /\ at + (i - at) = i
      BY <1>1, <1>3, <1>5, <2>2
    <3>2. (most \o right)[i + 1] = right[i - at]
      BY <1>8, <3>1
    <3>3. right[i - at] = l[i]
      BY <1>3, <3>1
    <3> QED BY <3>1, <3>2, <3>3
  <2> QED BY <2>1, <2>2
<1> QED BY <1>7, <1>9, <1>10 DEF n

\* A function starts in the global scope, its body in that of its parameters,
\* and its end in that of its body.
LEMMA FunctionScopes ==
  ASSUME IInv, walk # <<>>, Top.node.type = "NFUN", Top.stage \in {0, 1, 3}
  PROVE  /\ Len(walk) = 1
         /\ Top = walk[1]
         /\ block_depth = Cardinality(OpenBlocks)
         /\ Len(name_scope) = 1 + OpenScopes
         /\ Len(name_scope) = IF Top.stage = 0 THEN 1 ELSE IF Top.stage = 1 THEN 2 ELSE 3
         /\ Len(ir_stack) = OpenPatches
<1> USE DEF COMPILING_LEFT, COMPILED_LEFT, COMPILING_RIGHT, COMPILED_RIGHT
<1>1. walk \in Seq(Frame) /\ WalkShape
  BY HandlerState DEF IInv
<1>2. /\ Len(walk) = 1 /\ Top = walk[1]
      /\ Cardinality(OpenBlocks) = 0
      /\ \A stage \in 1..3 : Cardinality(Open("NFUN", stage)) = IF Top.stage >= stage THEN 1 ELSE 0
  BY <1>1, AtFunction
<1>3. /\ Cardinality(OpenParameterScopes) = IF Top.stage >= 1 THEN 1 ELSE 0
      /\ Cardinality(OpenBodyScopes) = IF Top.stage >= 2 THEN 1 ELSE 0
  BY <1>2 DEF OpenParameterScopes, OpenBodyScopes
<1>4. OpenScopes = IF Top.stage = 0 THEN 0 ELSE IF Top.stage = 1 THEN 1 ELSE 2
  BY <1>2, <1>3 DEF OpenScopes
<1>5. block_depth = Cardinality(OpenBlocks) /\ Len(name_scope) = 1 + OpenScopes
  BY DEF IInv, ScopesMatchWalk, OpenScopes
<1>6. Len(ir_stack) = OpenPatches
  BY DEF IInv, PatchStack, OpenPatches
<1>7. Len(name_scope) = IF Top.stage = 0 THEN 1 ELSE IF Top.stage = 1 THEN 2 ELSE 3
  BY <1>4, <1>5
<1> QED BY <1>2, <1>5, <1>6, <1>7

\* The prologue of a function keeps the invariant.
LEMMA PrologueKeeps ==
  ASSUME IInv, compile_NFUN_begin
  PROVE  IInv'
<1> USE DEF COMPILING_LEFT, COMPILED_LEFT, COMPILING_RIGHT, COMPILED_RIGHT
<1> DEFINE self   == func_array_find_func(Top.node.value)
           offset == - SLOT - SLOT * self.arg_cnt
           n      == Len(heap)
           move   == new_binary("MOV", operand_reg("RBP"), operand_reg("RSP"))
           nodes  == << new_push_reg("RBP"), move, new_empty >>
           links  == << self.ir_list_head, n + 1, n + 2 >>
<1>1. /\ walk # <<>> /\ Proceed /\ UNCHANGED control
      /\ Top.node.type = "NFUN" /\ Top.stage = 0
      /\ name_scope' = add_table(name_scope, offset)
      /\ heap' = heap \o nodes
      /\ list' = list \o links
      /\ ir_stack' = Append(ir_stack, n + 2)
      /\ func_return' = (n + 2) + 1
      /\ has_return' = FALSE
      /\ stack_frame_size' = 0
      /\ UNCHANGED <<block_depth, global_var_cnt>>
  BY DEF compile_NFUN_begin, Handling
<1>2. /\ walk \in Seq(Frame) /\ heap \in Seq(IrNode) /\ n \in Nat
      /\ name_scope \in Seq(VarTable) /\ name_scope # <<>>
      /\ ir_stack \in Seq(1..n)
  BY HandlerState
<1>3. /\ Len(walk) = 1 /\ Top = walk[1]
      /\ block_depth = Cardinality(OpenBlocks)
      /\ Len(name_scope) = 1 + OpenScopes
      /\ Len(name_scope) = 1
      /\ Len(ir_stack) = OpenPatches
  BY <1>1, FunctionScopes
<1>4. Defined(Top.node.value)
  <2>1. CurrentFunction
    BY DEF IInv
  <2> QED BY <1>1, <1>3, <2>1 DEF CurrentFunction
<1>5. self.ir_list_head \in 1..n /\ self.arg_cnt \in Nat
  <2>1. functions \in Seq(Function)
    BY DEF IInv, TypeOK
  <2>2. PICK i \in 1..Len(functions) : self = functions[i]
    BY <1>4, <2>1, FunctionFound
  <2>3. functions[i] \in Function
    BY <2>1
  <2>4. functions[i].ir_list_head \in 1..n
    BY DEF IInv, FunctionTable
  <2> HIDE DEF self
  <2> QED BY <2>2, <2>3, <2>4 DEF Function
<1> HIDE DEF self
<1>6. nodes \in Seq(IrNode) /\ Len(nodes) = 3
  <2>1. "MOV" \in ir_op /\ {"RBP", "RSP"} \subseteq ir_reg
    BY DEF ir_op, ir_reg
  <2>2. move \in IrNode /\ new_push_reg("RBP") \in IrNode /\ new_empty \in IrNode
    BY <2>1, InstructionTypes, OperandTypes
  <2> HIDE DEF move
  <2> QED BY <2>2
<1>7. links \in Seq(1..(n + 3)) /\ Len(links) = 3 /\ links[3] = n + 2
  BY <1>2, <1>5
<1> HIDE DEF nodes, links
<1>8. /\ Grows
      /\ Len(heap') = n + 3
      /\ \E j \in 1..Len(list') : list'[j] = n + 2
  <2>1. /\ Grows
        /\ Len(heap') = Len(heap) + Len(nodes)
        /\ \A i \in 1..Len(links) : \E j \in 1..Len(list') : list'[j] = links[i]
    <3>1. links \in Seq(1..(Len(heap) + Len(nodes)))
      BY <1>6, <1>7
    <3> QED BY <1>1, <1>2, <1>6, <3>1, LinkGrows
  <2>2. 3 \in 1..Len(links)
    BY <1>7
  <2> QED BY <1>6, <1>7, <2>1, <2>2
<1>9. /\ func_return' \in 0..Len(heap')
      /\ func_return' # NIL
      /\ n + 2 \in 1..Len(heap')
  BY <1>1, <1>2, <1>8 DEF NIL
<1>10. offset \in Int
  BY <1>5 DEF SLOT
<1> HIDE DEF offset
<1>11. name_scope' \in Seq(VarTable) /\ Len(name_scope') = Len(name_scope) + 1
  BY <1>1, <1>2, <1>10, AddTable
<1>12. ScopeLayout'
  <2>1. ScopeLayout
    BY DEF IInv
  <2>2. ~ (Len(name_scope) >= 2)
    <3>1. Len(name_scope) = 1
      BY <1>3
    <3> QED BY <3>1
  <2> QED BY <1>1, <1>2, <1>10, <2>1, <2>2, LayoutOpened
<1>13. ScopesMatchWalk'
  <2>1. OpenScopes' = OpenScopes + 1 /\ Cardinality(OpenBlocks)' = Cardinality(OpenBlocks)
    BY <1>1, <1>2, ScopesAfter
  <2>2. OpenScopes \in Nat
    BY <1>1, <1>2, ScopesAfter
  <2>3. PICK s \in Nat : s = OpenScopes
    BY <2>2
  <2>4. Len(name_scope') = (1 + s) + 1 /\ OpenScopes' = s + 1
    BY <1>3, <1>11, <2>1, <2>3
  <2>5. Len(name_scope') = 1 + OpenScopes'
    BY <2>4
  <2>6. block_depth' = Cardinality(OpenBlocks)'
    BY <1>1, <1>3, <2>1
  <2> QED BY <2>5, <2>6 DEF ScopesMatchWalk, OpenScopes
<1>14. /\ ir_stack' \in Seq(1..Len(heap'))
       /\ Len(ir_stack') = Len(ir_stack) + 1
       /\ \A i \in 1..Len(ir_stack') : \E j \in 1..Len(list') : list'[j] = ir_stack'[i]
  BY <1>1, <1>8, <1>9, PatchPushed
<1>15. PatchStack'
  <2>1. OpenPatches' = OpenPatches + 1
    BY <1>1, <1>2, PatchesAfter
  <2>2. Len(ir_stack') = OpenPatches'
    BY <1>3, <1>14, <2>1
  <2> QED BY <1>14, <2>2 DEF PatchStack, OpenPatches
<1>16. CurrentFunction'
  <2>1. walk'[1].node = Top.node /\ walk'[1].stage = 1
    BY <1>1, <1>2, <1>3, ProceedWalk
  <2>3. \E i \in 1..Len(functions') : functions'[i].name = walk'[1].node.value
    <3>1. functions' = functions
      BY <1>1 DEF control
    <3> QED BY <1>4, <2>1, <3>1 DEF Defined
  <2> QED BY <1>9, <2>1, <2>3 DEF CurrentFunction, Defined
<1>17. /\ block_depth' \in Nat /\ global_var_cnt' \in Nat
       /\ stack_frame_size' \in Nat /\ has_return' \in BOOLEAN
  <2>1. block_depth \in Nat /\ global_var_cnt \in Nat
    BY DEF IInv, TypeOK
  <2> QED BY <1>1, <2>1
<1> QED BY <1>1, <1>8, <1>9, <1>11, <1>12, <1>13, <1>14, <1>15, <1>16, <1>17, HandlerStep

\* Opening the scope of a function's body keeps the invariant.
LEMMA BodyKeeps ==
  ASSUME IInv, compile_NFUN_body
  PROVE  IInv'
<1> USE DEF COMPILING_LEFT, COMPILED_LEFT, COMPILING_RIGHT, COMPILED_RIGHT
<1>1. /\ walk # <<>> /\ Proceed /\ UNCHANGED control
      /\ Top.node.type = "NFUN" /\ Top.stage = 1
      /\ name_scope' = add_table(name_scope, SLOT)
      /\ UNCHANGED <<block_depth, global_var_cnt, stack_frame_size, returns, ir_stack, code>>
  BY DEF compile_NFUN_body, Handling
<1>2. walk \in Seq(Frame) /\ name_scope \in Seq(VarTable) /\ name_scope # <<>>
  BY HandlerState
<1>3. /\ block_depth = Cardinality(OpenBlocks)
      /\ Len(name_scope) = 1 + OpenScopes
      /\ Len(name_scope) = 2
      /\ Len(ir_stack) = OpenPatches
  BY <1>1, FunctionScopes
<1>4. Grows
  BY <1>1, HandlerState DEF Grows, code
<1>5. SLOT \in Int /\ SLOT >= SLOT
  BY DEF SLOT
<1>6. name_scope' \in Seq(VarTable) /\ Len(name_scope') = Len(name_scope) + 1
  BY <1>1, <1>2, <1>5, AddTable
<1>7. ScopeLayout'
  <2>1. ScopeLayout
    BY DEF IInv
  <2>2. \A t \in 3..Len(name_scope) : TableEnd(name_scope[t]) <= SLOT
    <3>1. Len(name_scope) = 2
      BY <1>3
    <3>2. 3..Len(name_scope) = {}
      BY <3>1
    <3> QED BY <3>2
  <2> QED BY <1>1, <1>2, <1>5, <2>1, <2>2, LayoutOpened
<1>8. ScopesMatchWalk'
  <2>1. OpenScopes' = OpenScopes + 1 /\ Cardinality(OpenBlocks)' = Cardinality(OpenBlocks)
    BY <1>1, <1>2, ScopesAfter
  <2>2. OpenScopes \in Nat
    BY <1>1, <1>2, ScopesAfter
  <2>3. PICK s \in Nat : s = OpenScopes
    BY <2>2
  <2>4. Len(name_scope') = (1 + s) + 1 /\ OpenScopes' = s + 1
    BY <1>3, <1>6, <2>1, <2>3
  <2>5. Len(name_scope') = 1 + OpenScopes'
    BY <2>4
  <2>6. block_depth' = Cardinality(OpenBlocks)'
    BY <1>1, <1>3, <2>1
  <2> QED BY <2>5, <2>6 DEF ScopesMatchWalk, OpenScopes
<1>9. PatchStack'
  <2>1. OpenPatches' = OpenPatches
    BY <1>1, <1>2, PatchesAfter
  <2> QED BY <1>1, <2>1 DEF IInv, PatchStack, OpenPatches, code
<1>10. CurrentFunction'
  BY <1>1, CurrentKept DEF returns
<1>11. func_return' \in 0..Len(heap') /\ ir_stack' \in Seq(1..Len(heap'))
  <2>1. UNCHANGED func_return /\ UNCHANGED ir_stack
    BY <1>1 DEF returns
  <2> QED BY <1>4, <2>1, ReturnTypesKept, PatchTypesKept
<1>12. /\ block_depth' \in Nat /\ global_var_cnt' \in Nat
       /\ stack_frame_size' \in Nat /\ has_return' \in BOOLEAN
  BY <1>1 DEF IInv, TypeOK, returns
<1> QED BY <1>1, <1>4, <1>6, <1>7, <1>8, <1>9, <1>10, <1>11, <1>12, HandlerStep

\* The epilogue of a function keeps the invariant: by now the frame is at
\* least one slot, so what is subtracted for it does not wrap around.
LEMMA EpilogueKeeps ==
  ASSUME IInv, compile_NFUN_end
  PROVE  IInv'
<1> USE DEF COMPILING_LEFT, COMPILED_LEFT, COMPILING_RIGHT, COMPILED_RIGHT
<1> DEFINE frame   == stack_frame_size - SLOT
           create  == new_binary("SUB", operand_reg("RSP"), operand_imm(frame))
           destroy == new_binary("ADD", operand_reg("RSP"), operand_imm(frame))
           leave   == << new_pop_reg("RBP"), new_ret >>
           n       == Len(heap)
           k       == Len(ir_stack) - 1
           linked  == Append(list, func_return)
           framed  == insert_after(linked, LastPending, n + 1)
<1>1. /\ walk # <<>> /\ Proceed /\ UNCHANGED control
      /\ Top.node.type = "NFUN" /\ Top.stage = 3
      /\ stack_frame_size' = frame
      /\ has_return' = FALSE
      /\ func_return' = NIL
      /\ name_scope' = pop_table(pop_table(name_scope))
      /\ ir_stack' = SubSeq(ir_stack, 1, k)
      /\ UNCHANGED <<block_depth, global_var_cnt>>
  BY DEF compile_NFUN_end, Handling
<1>2. /\ walk \in Seq(Frame) /\ heap \in Seq(IrNode) /\ n \in Nat
      /\ list \in Seq(1..n) /\ list # <<>>
      /\ name_scope \in Seq(VarTable) /\ name_scope # <<>>
      /\ ir_stack \in Seq(1..n) /\ Len(ir_stack) \in Nat
      /\ stack_frame_size \in Nat
      /\ func_return \in 0..n
  BY HandlerState
<1>3. /\ Len(walk) = 1 /\ Top = walk[1]
      /\ block_depth = Cardinality(OpenBlocks)
      /\ Len(name_scope) = 1 + OpenScopes
      /\ Len(ir_stack) = OpenPatches
  BY <1>1, FunctionScopes
<1>22. Len(name_scope) = 3
  <2>1. Len(name_scope) = IF Top.stage = 0 THEN 1 ELSE IF Top.stage = 1 THEN 2 ELSE 3
    BY <1>1, FunctionScopes
  <2> QED BY <1>1, <2>1
<1>4. stack_frame_size >= SLOT /\ func_return \in 1..n
  <2>1. CurrentFunction
    BY DEF IInv
  <2>2. stack_frame_size >= SLOT /\ func_return # NIL
    BY <1>1, <1>3, <2>1 DEF CurrentFunction
  <2> QED BY <1>2, <2>2 DEF NIL
<1>5. frame \in Nat
  BY <1>2, <1>4 DEF SLOT
<1>6. OpenPatches >= 1 /\ OpenPatches' = OpenPatches - 1 /\ OpenPatches \in Nat
  BY <1>1, <1>2, PatchesAfter
<1>7. k \in 0..Len(ir_stack) /\ k = OpenPatches' /\ Len(ir_stack) \in 1..Len(ir_stack)
  BY <1>2, <1>3, <1>6
<1>8. create \in IrNode /\ destroy \in IrNode /\ new_pop_reg("RBP") \in IrNode /\ new_ret \in IrNode
  <2>1. {"ADD", "SUB"} \subseteq ir_op /\ {"RBP", "RSP"} \subseteq ir_reg
    BY DEF ir_op, ir_reg
  <2>2. operand_imm(frame) \in ir_operand /\ operand_reg("RSP") \in ir_operand
    BY <1>5, <2>1, OperandTypes
  <2> QED BY <2>1, <2>2, InstructionTypes
<1>9. leave \in Seq(IrNode) /\ Len(leave) = 2
  BY <1>8
<1>10. IF frame > 0
         THEN /\ heap' = heap \o << create, destroy >> \o leave
              /\ list' = framed \o << n + 2, n + 3, n + 4 >>
         ELSE /\ heap' = heap \o leave
              /\ list' = list \o << func_return, n + 1, n + 2 >>
  BY DEF compile_NFUN_end
<1> HIDE DEF create, destroy, leave, frame
<1>11. ASSUME ~ (frame > 0) PROVE Grows
  <2> DEFINE links == << func_return, n + 1, n + 2 >>
  <2>1. links \in Seq(1..(n + 2))
    BY <1>2, <1>4
  <2>2. heap' = heap \o leave /\ list' = list \o links
    BY <1>10, <1>11
  <2> HIDE DEF links
  <2>3. links \in Seq(1..(Len(heap) + Len(leave)))
    BY <1>9, <2>1
  <2>4. Grows
    BY <1>2, <1>9, <2>2, <2>3, LinkGrows
  <2> QED BY <2>4
<1>12. ASSUME frame > 0 PROVE Grows
  <2> DEFINE both  == << create, destroy >>
             links == << n + 2, n + 3, n + 4 >>
             S     == 1..(n + 4)
  <2>1. heap' = heap \o both \o leave /\ list' = framed \o links
    BY <1>10, <1>12
  <2>2. heap' \in Seq(IrNode) /\ Len(heap') = n + 4
    <3>1. both \in Seq(IrNode) /\ Len(both) = 2
      BY <1>8
    <3> HIDE DEF both
    <3>2. heap \o both \in Seq(IrNode) /\ Len(heap \o both) = Len(heap) + Len(both)
      BY <1>2, <3>1, ConcatProperties
    <3> DEFINE most == heap \o both
    <3>3. most \in Seq(IrNode) /\ Len(most) = n + 2
      BY <3>1, <3>2
    <3> HIDE DEF most
    <3>4. most \o leave \in Seq(IrNode) /\ Len(most \o leave) = Len(most) + Len(leave)
      BY <1>9, <3>3, ConcatProperties
    <3>5. Len(most) + Len(leave) = n + 4
      BY <1>2, <1>9, <3>3
    <3>6. heap' = most \o leave
      BY <2>1 DEF most
    <3> QED BY <3>4, <3>5, <3>6
  <2>3. links \in Seq(S) /\ n + 1 \in S /\ func_return \in S
    BY <1>2, <1>4
  <2>4. list \in Seq(S)
    <3>1. \A i \in 1..Len(list) : list[i] \in S
      BY <1>2
    <3> QED BY <1>2, <3>1, IsASeq
  <2> HIDE DEF S, links
  <2>5. /\ linked \in Seq(S)
        /\ Len(linked) = Len(list) + 1
        /\ \A i \in 1..Len(list) : linked[i] = list[i]
    BY <2>3, <2>4, AppendProperties
  <2>6. \E i \in 1..Len(linked) : linked[i] = LastPending
    <3>1. PICK j \in 1..Len(list) : list[j] = LastPending
      BY <1>7 DEF IInv, PatchStack, LastPending
    <3>2. j \in 1..Len(linked)
      BY <1>2, <2>5
    <3> QED BY <2>5, <3>1, <3>2
  <2> HIDE DEF linked
  <2>7. /\ framed \in Seq(S)
        /\ \A i \in 1..Len(linked) : \E j \in 1..Len(framed) : framed[j] = linked[i]
    <3>1. n + 1 \in S /\ linked \in Seq(S)
      BY <2>3, <2>5
    <3> HIDE DEF n
    <3> QED BY <2>6, <3>1, InsertAfter
  <2> HIDE DEF framed
  <2>8. framed \o links \in Seq(S) /\ Len(framed \o links) = Len(framed) + Len(links)
    BY <2>3, <2>7, ConcatProperties
  <2>9. \A i \in 1..(Len(framed) + Len(links)) :
          (framed \o links)[i] = IF i <= Len(framed) THEN framed[i] ELSE links[i - Len(framed)]
    BY <2>3, <2>7, ConcatProperties
  <2>10. ASSUME NEW i \in 1..Len(list)
         PROVE  \E j \in 1..Len(list') : list'[j] = list[i]
    <3>1. i \in 1..Len(linked)
      BY <1>2, <2>5
    <3>2. PICK j \in 1..Len(framed) : framed[j] = list[i]
      BY <2>5, <2>7, <3>1
    <3>3. j \in 1..(Len(framed) + Len(links)) /\ j <= Len(framed)
      <4>1. Len(framed) \in Nat /\ Len(links) \in Nat
        BY <2>3, <2>7
      <4> QED BY <4>1
    <3>4. list'[j] = list[i] /\ j \in 1..Len(list')
      BY <2>1, <2>8, <2>9, <3>2, <3>3
    <3> QED BY <3>4
  <2>11. list' \in Seq(1..Len(heap'))
    BY <2>1, <2>2, <2>8 DEF S
  <2>12. list' # <<>>
    <3>1. 1 \in 1..Len(list)
      BY <1>2
    <3>2. PICK j \in 1..Len(list') : list'[j] = list[1]
      BY <2>10, <3>1
    <3>3. Len(list') # 0
      BY <3>2
    <3> QED BY <3>3
  <2>13. Len(heap') >= Len(heap)
    BY <1>2, <2>2
  <2> QED BY <2>2, <2>10, <2>11, <2>12, <2>13 DEF Grows
<1>13. Grows
  BY <1>11, <1>12
<1> HIDE DEF k
<1>14. /\ ir_stack' \in Seq(1..Len(heap'))
       /\ Len(ir_stack') = k
       /\ \A i \in 1..Len(ir_stack') : \E j \in 1..Len(list') : list'[j] = ir_stack'[i]
  BY <1>1, <1>7, <1>13, PatchPopped
<1>15. PatchStack'
  BY <1>7, <1>14 DEF PatchStack, OpenPatches
<1>16. /\ name_scope' \in Seq(VarTable)
       /\ Len(name_scope') = 1
       /\ name_scope'[1] = name_scope[1]
  <2> DEFINE outer == pop_table(name_scope)
  <2>1. /\ outer \in Seq(VarTable) /\ Len(outer) = Len(name_scope) - 1
        /\ \A t \in 1..(Len(name_scope) - 1) : outer[t] = name_scope[t]
    BY <1>2, PopTable
  <2>2. Len(outer) = 2 /\ outer[1] = name_scope[1]
    <3>1. Len(name_scope) - 1 = 2 /\ 1 \in 1..(Len(name_scope) - 1)
      BY <1>22
    <3> QED BY <2>1, <3>1
  <2> HIDE DEF outer
  <2>3. outer # <<>>
    BY <2>2
  <2>4. /\ pop_table(outer) \in Seq(VarTable) /\ Len(pop_table(outer)) = Len(outer) - 1
        /\ \A t \in 1..(Len(outer) - 1) : pop_table(outer)[t] = outer[t]
    BY <2>1, <2>3, PopTable
  <2>5. name_scope' = pop_table(outer)
    BY <1>1 DEF outer
  <2>6. Len(outer) - 1 = 1 /\ 1 \in 1..(Len(outer) - 1)
    BY <2>2
  <2> QED BY <2>2, <2>4, <2>5, <2>6
<1>17. ScopeLayout'
  <2>1. ScopeLayout /\ Len(name_scope') \in 1..Len(name_scope)
    <3>1. ScopeLayout
      BY DEF IInv
    <3>2. Len(name_scope') = 1 /\ Len(name_scope) = 3
      BY <1>16, <1>22
    <3> QED BY <3>1, <3>2
  <2>2. \A t \in 1..Len(name_scope') : name_scope'[t] = name_scope[t]
    BY <1>16
  <2> QED BY <1>2, <1>16, <2>1, <2>2, LayoutClosed
<1>18. ScopesMatchWalk'
  <2>1. OpenScopes' = OpenScopes - 2 /\ Cardinality(OpenBlocks)' = Cardinality(OpenBlocks)
    BY <1>1, <1>2, ScopesAfter
  <2>2. OpenScopes \in Nat
    BY <1>1, <1>2, ScopesAfter
  <2>3. OpenScopes = 2
    <3>1. 3 = 1 + OpenScopes
      BY <1>3, <1>22
    <3> QED BY <2>2, <3>1
  <2>4. Len(name_scope') = 1 + OpenScopes'
    BY <1>16, <2>1, <2>3
  <2>5. block_depth' = Cardinality(OpenBlocks)'
    BY <1>1, <1>3, <2>1
  <2> QED BY <2>4, <2>5 DEF ScopesMatchWalk, OpenScopes
<1>19. CurrentFunction'
  <2>1. walk' \in Seq(Frame) /\ Len(walk') = 0
    <3>1. walk' \in Seq(Frame) /\ Len(walk') = Len(walk) - 1
      BY <1>1, <1>2, ProceedWalk
    <3> QED BY <1>3, <3>1
  <2>2. walk' = <<>>
    BY <2>1
  <2> QED BY <2>2 DEF CurrentFunction
<1>20. /\ block_depth' \in Nat /\ global_var_cnt' \in Nat
       /\ stack_frame_size' \in Nat /\ has_return' \in BOOLEAN
  <2>1. block_depth \in Nat /\ global_var_cnt \in Nat
    BY DEF IInv, TypeOK
  <2> QED BY <1>1, <1>5, <2>1
<1>21. func_return' \in 0..Len(heap')
  <2>1. Len(heap') \in Nat
    <3>1. heap' \in Seq(IrNode)
      BY <1>13 DEF Grows
    <3> QED BY <3>1
  <2> QED BY <1>1, <2>1 DEF NIL
<1> QED BY <1>1, <1>13, <1>14, <1>15, <1>16, <1>17, <1>18, <1>19, <1>20, <1>21, HandlerStep

\* Every handler keeps the invariant.
LEMMA HandlersKeep ==
  ASSUME IInv, HandleNode
  PROVE  IInv'
<1>1. CASE QuietHandler
  BY <1>1, QuietHandlersKeep
<1>2. CASE compile_NVAR
  BY <1>2, DeclarationKeeps
<1>3. CASE compile_BLOCK_begin \/ compile_BLOCK_end
  BY <1>3, BlockKeeps
<1>4. CASE compile_WHILE_start \/ compile_WHILE_test \/ compile_WHILE_end
  BY <1>4, LoopKeeps
<1>5. CASE compile_BRANCH_test \/ compile_BRANCH_else \/ compile_BRANCH_end
  BY <1>5, BranchKeeps
<1>6. CASE compile_NFUN_begin
  BY <1>6, PrologueKeeps
<1>7. CASE compile_NFUN_body
  BY <1>7, BodyKeeps
<1>8. CASE compile_NFUN_end
  BY <1>8, EpilogueKeeps
<1> QED BY <1>1, <1>2, <1>3, <1>4, <1>5, <1>6, <1>7, <1>8 DEF HandleNode, QuietHandler

-----------------------------------------------------------------------------
(* The driver, failures and the initial state.                             *)

\* With no recursion, or one that only starts, nothing is open.
LEMMA NothingOpenAfter ==
  ASSUME \A i \in 1..Len(walk') : walk'[i].stage = COMPILING_LEFT
  PROVE  /\ Cardinality(OpenBlocks)' = 0
         /\ OpenScopes' = 0
         /\ OpenPatches' = 0
<1> USE DEF COMPILING_LEFT, COMPILED_LEFT, COMPILING_RIGHT, COMPILED_RIGHT
<1>1. ASSUME NEW type, NEW stage \in 1..3
      PROVE  Cardinality(Open(type, stage))' = 0
  <2>1. Open(type, stage)' = {}
    BY DEF Open
  <2>2. Cardinality({}) = 0
    BY FS_EmptySet
  <2> QED BY <2>1, <2>2
<1>2. /\ Cardinality(OpenBlocks)' = 0
      /\ Cardinality(OpenParameterScopes)' = 0
      /\ Cardinality(OpenBodyScopes)' = 0
  BY <1>1 DEF OpenBlocks, OpenParameterScopes, OpenBodyScopes
<1>3. OpenScopes' = 0
  BY <1>2 DEF OpenScopes
<1>4. OpenPatches' = 0
  BY <1>1 DEF OpenPatches
<1> QED BY <1>2, <1>3, <1>4

\* Between two recursions nothing is open either.
LEMMA NothingOpenBetween ==
  ASSUME IInv, walk = <<>>
  PROVE  block_depth = 0 /\ Len(name_scope) = 1 /\ Len(ir_stack) = 0
<1>1. \A i \in 1..Len(walk) : FALSE
  OBVIOUS
<1>2. /\ Cardinality(OpenBlocks) = 0
      /\ Cardinality(OpenParameterScopes) = 0
      /\ Cardinality(OpenBodyScopes) = 0
      /\ \A type \in {"NFUN", "BLOCK", "WHILE", "BRANCH"}, stage \in 1..3 :
           Cardinality(Open(type, stage)) = 0
  BY <1>1, NothingOpen
<1>3. block_depth = 0 /\ Len(name_scope) = 1
  BY <1>2 DEF IInv, ScopesMatchWalk
<1>4. Len(ir_stack) = 0
  BY <1>2 DEF IInv, PatchStack, COMPILED_LEFT, COMPILING_RIGHT
<1> QED BY <1>3, <1>4

\* A step of the driver starts a recursion, or none.
LEMMA DriverStep ==
  ASSUME IInv, walk = <<>>, UNCHANGED <<scoping, returns, ir_stack>>, Grows,
         phase' \in {"declarations", "functions", "done"}, UNCHANGED error,
         next_func' \in Nat \ {0}, cursor' \in Node \cup {NULL}, functions' \in Seq(Function),
         FunctionTable',
         \/ walk' = <<>>
         \/ \E n \in Node : /\ walk' = << [node |-> n, stage |-> COMPILING_LEFT] >>
                            /\ n.type \in {"NVAR", "NFUN"}
                            /\ n.type = "NFUN" =>
                                 \E i \in 1..Len(functions') : functions'[i].name = n.value
  PROVE  IInv'
<1> USE DEF COMPILING_LEFT, COMPILED_LEFT, COMPILING_RIGHT, COMPILED_RIGHT
<1>2. /\ walk' \in Seq(Frame)
      /\ \A i \in 1..Len(walk') : walk'[i].stage = COMPILING_LEFT
      /\ WalkShape'
      /\ CurrentFunction'
  <2>1. CASE walk' = <<>>
    BY <2>1 DEF WalkShape, CurrentFunction
  <2>2. CASE walk' # <<>>
    <3>1. PICK n \in Node : /\ walk' = << [node |-> n, stage |-> 0] >>
                            /\ n.type \in {"NVAR", "NFUN"}
                            /\ n.type = "NFUN" =>
                                 \E i \in 1..Len(functions') : functions'[i].name = n.value
      BY <2>2
    <3>2. [node |-> n, stage |-> 0] \in Frame
      BY DEF Frame
    <3>3. walk' \in Seq(Frame) /\ Len(walk') = 1 /\ walk'[1] = [node |-> n, stage |-> 0]
      BY <3>1, <3>2
    <3>4. WalkShape'
      BY <3>1, <3>3 DEF WalkShape
    <3>5. CurrentFunction'
      BY <3>1, <3>3 DEF CurrentFunction, Defined
    <3> QED BY <3>3, <3>4, <3>5
  <2> QED BY <2>1, <2>2
<1>3. ScopesMatchWalk' /\ PatchStack'
  <2>1. /\ Cardinality(OpenBlocks)' = 0
        /\ OpenScopes' = 0
        /\ OpenPatches' = 0
    BY <1>2, NothingOpenAfter
  <2>2. block_depth' = 0 /\ Len(name_scope') = 1 /\ Len(ir_stack') = 0
    BY NothingOpenBetween DEF scoping
  <2>3. block_depth' = Cardinality(OpenBlocks)' /\ Len(name_scope') = 1 + OpenScopes'
    BY <2>1, <2>2
  <2>4. Len(ir_stack') = OpenPatches' /\ \A i \in 1..Len(ir_stack') : FALSE
    BY <2>1, <2>2
  <2>5. ScopesMatchWalk'
    BY <2>3 DEF ScopesMatchWalk, OpenScopes
  <2>6. PatchStack'
    BY <2>4 DEF PatchStack, OpenPatches
  <2> QED BY <2>5, <2>6
<1>4. func_return' \in 0..Len(heap') /\ ir_stack' \in Seq(1..Len(heap'))
  <2>1. UNCHANGED func_return /\ UNCHANGED ir_stack
    BY DEF returns
  <2> QED BY <2>1, ReturnTypesKept, PatchTypesKept
<1>5. /\ name_scope' \in Seq(VarTable) /\ block_depth' \in Nat /\ global_var_cnt' \in Nat
      /\ stack_frame_size' \in Nat /\ has_return' \in BOOLEAN
      /\ ScopeLayout'
  BY DEF IInv, TypeOK, ScopeLayout, LaidOut, scoping, returns
<1>6. error' \in {"none", "undefined variable", "undefined function",
                  "argument count", "no return", "redefinition", "no main"}
  BY DEF IInv, TypeOK
<1>7. TypeOK'
  BY <1>2, <1>4, <1>5, <1>6 DEF TypeOK, Grows
<1> QED BY <1>2, <1>3, <1>5, <1>7 DEF IInv, Grows

\* Every step of the driver keeps the invariant.
LEMMA DriverKeeps ==
  ASSUME IInv, Driver
  PROVE  IInv'
<1>1. /\ cursor \in Node \cup {NULL} /\ next_func \in Nat \ {0}
      /\ functions \in Seq(Function)
      /\ phase \in {"declarations", "functions", "done", "failed"}
  BY DEF IInv, TypeOK
<1>2. /\ heap \in Seq(IrNode) /\ Len(heap) \in Nat
      /\ list \in Seq(1..Len(heap)) /\ list # <<>>
  BY HandlerState
<1>3. FunctionTable
  BY DEF IInv
<1>4. ASSUME UNCHANGED <<heap, list>> PROVE Grows
  BY <1>2, <1>4 DEF Grows
<1>5. ASSUME Extracting, cursor # NULL
      PROVE  /\ walk = <<>> /\ phase = "declarations"
             /\ cursor \in Node
             /\ cursor.left \in Node
             /\ cursor.left.type \in {"NVAR", "NFUN"}
             /\ cursor.right \in Node \cup {NULL}
             /\ cursor.right # NULL => cursor.right.type = "DEFS"
  <2>1. cursor \in Node /\ cursor.type = "DEFS"
    BY <1>1, <1>3, <1>5 DEF FunctionTable
  <2>2. /\ cursor.left \in Node \cup {NULL} /\ cursor.right \in Node \cup {NULL}
        /\ TypeOf(cursor.left) \in LeftChild("DEFS")
        /\ TypeOf(cursor.right) \in RightChild("DEFS")
    BY <2>1, NodeFields
  <2>3. TypeOf(cursor.left) \in {"NVAR", "NFUN"} /\ TypeOf(cursor.right) \in {"DEFS", "none"}
    BY <2>2 DEF LeftChild, RightChild
  <2>4. cursor.left # NULL /\ cursor.left.type \in {"NVAR", "NFUN"}
    BY <2>3 DEF TypeOf
  <2>5. cursor.right # NULL => cursor.right.type = "DEFS"
    <3>1. cursor.right # NULL => cursor.right \in Node
      BY <2>2
    <3>2. \A x \in Node : x.type # "none"
      BY NodeFields DEF NodeType, Expression, Statement
    <3> QED BY <2>3, <3>1, <3>2 DEF TypeOf
  <2> QED BY <1>5, <2>1, <2>2, <2>4, <2>5 DEF Extracting
<1>6. CASE extract_variable
  <2> DEFINE n == cursor.left
  <2>1. /\ Extracting /\ cursor # NULL /\ n.type = "NVAR"
        /\ walk' = Enter(walk, n) /\ cursor' = cursor.right
        /\ UNCHANGED <<phase, error, next_func, functions, scoping, returns, ir_stack, code>>
    BY <1>6 DEF extract_variable
  <2>2. n \in Node /\ n # NULL /\ walk = <<>>
    BY <1>5, <2>1, NodeFields
  <2>3. walk' = << [node |-> n, stage |-> COMPILING_LEFT] >>
    <3>1. Append(<<>>, [node |-> n, stage |-> COMPILING_LEFT])
            = << [node |-> n, stage |-> COMPILING_LEFT] >>
      OBVIOUS
    <3> QED BY <2>1, <2>2, <3>1 DEF Enter
  <2>4. FunctionTable'
    <3>2. cursor' # NULL => cursor'.type = "DEFS"
      BY <1>5, <2>1
    <3>3. functions' = functions /\ heap' = heap
      BY <2>1 DEF code
    <3> QED BY <1>3, <3>2, <3>3 DEF FunctionTable
  <2>5. Grows
    BY <1>4, <2>1 DEF code
  <2>6. phase' \in {"declarations", "functions", "done"} /\ cursor' \in Node \cup {NULL}
    BY <1>5, <2>1
  <2>7. next_func' \in Nat \ {0} /\ functions' \in Seq(Function)
    BY <1>1, <2>1
  <2> HIDE DEF n
  <2> QED BY <2>1, <2>2, <2>3, <2>4, <2>5, <2>6, <2>7, DriverStep
<1>7. CASE extract_function
  <2> DEFINE n     == cursor.left
             entry == function(n, Len(heap) + 1, n.value, ChainOf(n.left))
  <2>1. /\ Extracting /\ cursor # NULL /\ n.type = "NFUN"
        /\ heap' = Append(heap, new_empty)
        /\ functions' = Append(functions, entry)
        /\ cursor' = cursor.right
        /\ UNCHANGED <<phase, error, next_func, walk, scoping, returns, ir_stack, list>>
    BY <1>7 DEF extract_function
  <2>2. n \in Node /\ walk = <<>>
    BY <1>5, <2>1
  <2>3. n.value \in Name /\ ChainOf(n.left) \in Nat
    BY <2>1, <2>2, NodeFields DEF Named
  <2>4. /\ entry \in Function
        /\ entry.ir_list_head = Len(heap) + 1
        /\ entry.node = n
        /\ entry.name = n.value
    BY <1>2, <2>2, <2>3 DEF function, Function
  <2> HIDE DEF entry
  <2>5. heap' \in Seq(IrNode) /\ Len(heap') = Len(heap) + 1
    BY <1>2, <2>1, InstructionTypes, AppendProperties
  <2>6. /\ functions' \in Seq(Function)
        /\ Len(functions') = Len(functions) + 1
        /\ \A i \in 1..Len(functions) : functions'[i] = functions[i]
        /\ functions'[Len(functions) + 1] = entry
    BY <1>1, <2>1, <2>4, AppendProperties
  <2>7. FunctionTable'
    <3>1. cursor' # NULL => cursor'.type = "DEFS"
      BY <1>5, <2>1
    <3>2. ASSUME NEW i \in 1..Len(functions')
          PROVE  /\ functions'[i].ir_list_head \in 1..Len(heap')
                 /\ functions'[i].node # NULL =>
                      /\ functions'[i].node.type = "NFUN"
                      /\ functions'[i].node.value = functions'[i].name
      <4>1. Len(functions) \in Nat
        BY <1>1
      <4>2. CASE i = Len(functions) + 1
        BY <1>2, <2>1, <2>4, <2>5, <2>6, <4>2
      <4>3. CASE i # Len(functions) + 1
        <5>1. i \in 1..Len(functions)
          BY <2>6, <4>1, <4>3
        <5>2. functions'[i] = functions[i]
          BY <2>6, <5>1
        <5>3. functions[i].ir_list_head \in 1..Len(heap')
          BY <1>2, <1>3, <2>5, <5>1 DEF FunctionTable
        <5> QED BY <1>3, <5>1, <5>2, <5>3 DEF FunctionTable
      <4> QED BY <4>2, <4>3
    <3> QED BY <3>1, <3>2 DEF FunctionTable
  <2>8. Grows
    <3>1. \A i \in 1..Len(list) : list[i] \in 1..Len(heap')
      BY <1>2, <2>5
    <3>2. list' = list /\ list \in Seq(1..Len(heap'))
      BY <1>2, <2>1, <3>1, IsASeq
    <3>3. Len(heap') >= Len(heap)
      BY <1>2, <2>5
    <3> QED BY <1>2, <2>5, <3>2, <3>3 DEF Grows
  <2>9. phase' \in {"declarations", "functions", "done"} /\ cursor' \in Node \cup {NULL}
    BY <1>5, <2>1
  <2>10. next_func' \in Nat \ {0} /\ walk' = <<>> /\ UNCHANGED error
         /\ UNCHANGED <<scoping, returns, ir_stack>>
    BY <1>1, <2>1, <2>2
  <2> QED BY <2>2, <2>6, <2>7, <2>8, <2>9, <2>10, DriverStep
<1>8. CASE emit_entry
  <2> DEFINE main  == func_array_find_func("main")
             nodes == << new_call(main.ir_list_head),
                         new_binary("MOV", operand_reg("RDI"), operand_reg("RAX")),
                         new_binary("MOV", operand_reg("RAX"), operand_imm(60)),
                         new_syscall >>
  <2>1. /\ walk = <<>> /\ Defined("main") /\ Emit(nodes) /\ phase' = "functions"
        /\ UNCHANGED <<error, cursor, next_func, functions, walk, scoping, returns, ir_stack>>
    BY <1>8 DEF emit_entry, Extracting
  <2>2. main.ir_list_head \in Nat
    <3>1. \E i \in 1..Len(functions) : main = functions[i]
      BY <1>1, <2>1, FunctionFound
    <3>2. main \in Function
      BY <1>1, <3>1
    <3> QED BY <3>2 DEF Function
  <2> HIDE DEF main
  <2>3. nodes \in Seq(IrNode)
    <3>1. "MOV" \in ir_op /\ {"RDI", "RAX"} \subseteq ir_reg
      BY DEF ir_op, ir_reg
    <3>2. operand_reg("RDI") \in ir_operand /\ operand_reg("RAX") \in ir_operand
          /\ operand_imm(60) \in ir_operand
      BY <3>1, OperandTypes
    <3>3. /\ new_call(main.ir_list_head) \in IrNode
          /\ new_binary("MOV", operand_reg("RDI"), operand_reg("RAX")) \in IrNode
          /\ new_binary("MOV", operand_reg("RAX"), operand_imm(60)) \in IrNode
          /\ new_syscall \in IrNode
      BY <2>2, <3>1, <3>2, InstructionTypes
    <3> QED BY <3>3
  <2> HIDE DEF nodes
  <2>4. Grows
    BY <1>2, <2>1, <2>3, EmitGrows DEF Emit
  <2>5. FunctionTable'
    <3>1. Len(heap') >= Len(heap) /\ heap' \in Seq(IrNode) /\ UNCHANGED <<cursor, functions>>
      BY <2>1, <2>4 DEF Grows
    <3> QED BY <1>3, <3>1, KeptTable DEF IInv
  <2>6. /\ next_func' \in Nat \ {0} /\ cursor' \in Node \cup {NULL}
        /\ functions' \in Seq(Function) /\ walk' = <<>>
        /\ phase' \in {"declarations", "functions", "done"}
    BY <1>1, <2>1
  <2> QED BY <2>1, <2>4, <2>5, <2>6, DriverStep
<1>9. CASE compile_next_function
  <2> DEFINE n == functions[next_func].node
  <2>1. /\ phase = "functions" /\ walk = <<>> /\ next_func <= Len(functions)
        /\ walk' = Enter(walk, n)
        /\ next_func' = next_func + 1
        /\ UNCHANGED <<phase, error, cursor, functions, scoping, returns, ir_stack, code>>
    BY <1>9 DEF compile_next_function
  <2>2. next_func \in 1..Len(functions) /\ functions[next_func] \in Function
    BY <1>1, <2>1
  <2>3. n \in Node \cup {NULL}
    BY <2>2 DEF Function
  <2>4. n # NULL => n.type = "NFUN" /\ n.value = functions[next_func].name
    BY <1>3, <2>2 DEF FunctionTable
  <2>5. functions' = functions /\ cursor' = cursor
    BY <2>1
  <2> HIDE DEF n
  <2>6. \/ walk' = <<>>
        \/ \E x \in Node : /\ walk' = << [node |-> x, stage |-> COMPILING_LEFT] >>
                           /\ x.type \in {"NVAR", "NFUN"}
                           /\ x.type = "NFUN" =>
                                \E i \in 1..Len(functions') : functions'[i].name = x.value
    <3>1. CASE n = NULL
      BY <2>1, <3>1 DEF Enter
    <3>2. CASE n # NULL
      <4>1. Append(<<>>, [node |-> n, stage |-> COMPILING_LEFT])
              = << [node |-> n, stage |-> COMPILING_LEFT] >>
        OBVIOUS
      <4>2. walk' = << [node |-> n, stage |-> COMPILING_LEFT] >>
        BY <2>1, <3>2, <4>1 DEF Enter
      <4>3. n \in Node /\ n.type = "NFUN"
        BY <2>3, <2>4, <3>2
      <4>4. \E i \in 1..Len(functions') : functions'[i].name = n.value
        BY <2>2, <2>4, <2>5, <3>2
      <4> QED BY <4>2, <4>3, <4>4
    <3> QED BY <3>1, <3>2
  <2>7. Grows
    BY <1>4, <2>1 DEF code
  <2>8. FunctionTable'
    <3>1. heap' = heap
      BY <2>1 DEF code
    <3> QED BY <1>3, <2>5, <3>1 DEF FunctionTable
  <2>9. /\ next_func' \in Nat \ {0} /\ cursor' \in Node \cup {NULL}
        /\ functions' \in Seq(Function)
        /\ phase' \in {"declarations", "functions", "done"}
    BY <1>1, <2>1
  <2> QED BY <2>1, <2>6, <2>7, <2>8, <2>9, DriverStep
<1>10. CASE all_compiled
  <2>1. /\ walk = <<>> /\ phase' = "done"
        /\ UNCHANGED <<error, cursor, next_func, functions, walk, scoping, returns, ir_stack, code>>
    BY <1>10 DEF all_compiled
  <2>2. Grows
    BY <1>4, <2>1 DEF code
  <2>3. FunctionTable'
    <3>1. heap' = heap /\ functions' = functions /\ cursor' = cursor
      BY <2>1 DEF code
    <3> QED BY <1>3, <3>1 DEF FunctionTable
  <2>4. /\ next_func' \in Nat \ {0} /\ cursor' \in Node \cup {NULL}
        /\ functions' \in Seq(Function) /\ walk' = <<>>
        /\ phase' \in {"declarations", "functions", "done"}
    BY <1>1, <2>1
  <2> QED BY <2>1, <2>2, <2>3, <2>4, DriverStep
<1> QED BY <1>6, <1>7, <1>8, <1>9, <1>10 DEF Driver

\* An assertion that fails changes nothing the invariant is about.
LEMMA FailureKeeps ==
  ASSUME IInv, Failure
  PROVE  IInv'
<1>1. PICK reason \in {"undefined variable", "undefined function", "argument count",
                       "no return", "redefinition", "no main"} : Fail(reason)
  BY DEF Failure, UndefinedVariable, UndefinedFunction, WrongArgumentCount,
         MissingReturn, Redefinition, MissingMain
<1>2. /\ phase' = "failed" /\ error' = reason
      /\ UNCHANGED <<cursor, next_func, functions, walk, scoping, returns, ir_stack, code>>
  BY <1>1 DEF Fail
<1>3. TypeOK'
  BY <1>2 DEF IInv, TypeOK, scoping, returns, code
<1>4. list' # <<>> /\ WalkShape' /\ FunctionTable' /\ CurrentFunction'
  BY <1>2 DEF IInv, WalkShape, FunctionTable, CurrentFunction, Defined, scoping, returns, code
<1>5. ScopesMatchWalk' /\ PatchStack' /\ ScopeLayout'
  BY <1>2 DEF IInv, ScopesMatchWalk, OpenBlocks, OpenParameterScopes, OpenBodyScopes,
              PatchStack, Open, ScopeLayout, LaidOut, scoping, code
<1> QED BY <1>3, <1>4, <1>5 DEF IInv

\* A step that changes nothing keeps the invariant.
LEMMA StutteringKeeps ==
  ASSUME IInv, UNCHANGED vars
  PROVE  IInv'
<1>1. UNCHANGED <<phase, error, cursor, next_func, functions, walk, scoping, returns, ir_stack, code>>
  BY DEF vars, control
<1>2. TypeOK'
  BY <1>1 DEF IInv, TypeOK, scoping, returns, code
<1>3. list' # <<>> /\ WalkShape' /\ FunctionTable' /\ CurrentFunction'
  BY <1>1 DEF IInv, WalkShape, FunctionTable, CurrentFunction, Defined, scoping, returns, code
<1>4. ScopesMatchWalk' /\ PatchStack' /\ ScopeLayout'
  BY <1>1 DEF IInv, ScopesMatchWalk, OpenBlocks, OpenParameterScopes, OpenBodyScopes,
              PatchStack, Open, ScopeLayout, LaidOut, scoping, code
<1> QED BY <1>2, <1>3, <1>4 DEF IInv

\* The state that state_ctor makes satisfies the invariant.
LEMMA InitialState ==
  ASSUME Init
  PROVE  IInv
<1>1. /\ phase = "declarations" /\ error = "none" /\ cursor \in Program
      /\ next_func = 1 /\ walk = <<>>
      /\ functions = << function(NULL, 2, "print", 1), function(NULL, 3, "read", 0),
                        function(NULL, 4, "sqrt", 1) >>
      /\ name_scope = << var_table(GLOBAL_BASE, TRUE) >>
      /\ block_depth = 0 /\ has_return = FALSE /\ global_var_cnt = 0
      /\ stack_frame_size = 0 /\ func_return = 0 /\ ir_stack = <<>>
      /\ heap = [i \in 1..5 |-> new_empty] /\ list = << 5 >>
  BY DEF Init, table_stack_ctor, NIL
<1>2. heap \in Seq(IrNode) /\ Len(heap) = 5
  <2>1. new_empty \in IrNode
    BY InstructionTypes
  <2> QED BY <1>1, <2>1, IsASeq
<1>3. list \in Seq(1..Len(heap)) /\ list # <<>> /\ ir_stack \in Seq(1..Len(heap))
  BY <1>1, <1>2
<1>4. functions \in Seq(Function) /\ Len(functions) = 3
  <2>1. /\ function(NULL, 2, "print", 1) \in Function
        /\ function(NULL, 3, "read", 0) \in Function
        /\ function(NULL, 4, "sqrt", 1) \in Function
    BY NameAssumption DEF function, Function
  <2> QED BY <1>1, <2>1
<1>5. \A i \in 1..Len(functions) : /\ functions[i].ir_list_head \in 1..Len(heap)
                                   /\ functions[i].node = NULL
  BY <1>1, <1>2, <1>4 DEF function
<1>6. name_scope \in Seq(VarTable) /\ Len(name_scope) = 1 /\ name_scope[1].is_global
  <2>1. GLOBAL_BASE \in Int /\ << >> \in Seq(Name)
    BY DEF GLOBAL_BASE
  <2>2. var_table(GLOBAL_BASE, TRUE) \in VarTable
    BY <2>1 DEF var_table, VarTable
  <2>3. var_table(GLOBAL_BASE, TRUE).is_global
    BY DEF var_table
  <2> DEFINE table == var_table(GLOBAL_BASE, TRUE)
  <2>4. table \in VarTable /\ table.is_global /\ name_scope = << table >>
    BY <1>1, <2>2, <2>3
  <2> HIDE DEF table
  <2> QED BY <2>4
<1>7. cursor \in Node /\ cursor.type = "DEFS"
  BY <1>1, ProgramAssumption
<1>8. walk \in Seq(Frame) /\ Len(walk) = 0
  BY <1>1
<1>9. TypeOK
  <2>1. /\ phase \in {"declarations", "functions", "done", "failed"}
        /\ error \in {"none", "undefined variable", "undefined function",
                      "argument count", "no return", "redefinition", "no main"}
    BY <1>1
  <2>4. /\ next_func \in Nat \ {0} /\ block_depth \in Nat
        /\ global_var_cnt \in Nat /\ stack_frame_size \in Nat
    BY <1>1
  <2>5. has_return \in BOOLEAN
    BY <1>1
  <2>2. func_return \in 0..Len(heap)
    BY <1>1, <1>2
  <2>3. cursor \in Node \cup {NULL}
    BY <1>7
  <2> QED BY <1>2, <1>3, <1>4, <1>6, <1>8, <2>1, <2>2, <2>3, <2>4, <2>5 DEF TypeOK
<1>10. WalkShape /\ CurrentFunction
  BY <1>1 DEF WalkShape, CurrentFunction
<1>11. FunctionTable
  BY <1>5, <1>7 DEF FunctionTable
<1>12. /\ Cardinality(OpenBlocks) = 0
       /\ Cardinality(OpenParameterScopes) = 0
       /\ Cardinality(OpenBodyScopes) = 0
       /\ \A type \in {"NFUN", "BLOCK", "WHILE", "BRANCH"}, stage \in 1..3 :
            Cardinality(Open(type, stage)) = 0
  <2>1. \A i \in 1..Len(walk) : FALSE
    BY <1>8
  <2> QED BY <2>1, NothingOpen
<1>13. ScopesMatchWalk
  BY <1>1, <1>6, <1>12 DEF ScopesMatchWalk
<1>14. PatchStack
  <2>1. Len(ir_stack) = 0
    BY <1>1
  <2> QED BY <1>12, <2>1 DEF PatchStack, COMPILED_LEFT, COMPILING_RIGHT
<1>15. ScopeLayout
  BY <1>6 DEF ScopeLayout, LaidOut
<1> QED BY <1>3, <1>9, <1>10, <1>11, <1>13, <1>14, <1>15 DEF IInv

-----------------------------------------------------------------------------
(* The theorems.                                                           *)

\* The invariant holds in every state of the code generator, whatever trees
\* it is given: compile_node and its handlers keep their shared state in step
\* with the recursion.
THEOREM Invariance == Spec => []IInv
<1>1. Init => IInv
  BY InitialState
<1>2. IInv /\ [Next]_vars => IInv'
  <2> SUFFICES ASSUME IInv, [Next]_vars PROVE IInv'
    OBVIOUS
  <2>1. CASE HandleNode
    BY <2>1, HandlersKeep
  <2>2. CASE Driver
    BY <2>2, DriverKeeps
  <2>3. CASE Failure
    BY <2>3, FailureKeeps
  <2>4. CASE UNCHANGED vars
    BY <2>4, StutteringKeeps
  <2> QED BY <2>1, <2>2, <2>3, <2>4 DEF Next, CodeGenStep, Returned
<1> QED BY <1>1, <1>2, PTL DEF Spec

\* Every index the handlers use is in range and every size they compute is a
\* natural number: the frame size they subtract from never wraps around.
THEOREM TypesCorrect == Spec => []TypeOK
<1>1. IInv => TypeOK
  BY DEF IInv
<1> QED BY <1>1, Invariance, PTL

\* The scopes that different handlers push and pop always are those of the
\* functions and blocks the recursion is inside of (table_stack, block_depth).
THEOREM ScopesFollowRecursion == Spec => []ScopesMatchWalk
<1>1. IInv => ScopesMatchWalk
  BY DEF IInv
<1> QED BY <1>1, Invariance, PTL

\* The layout of the scopes gives every two visible variables different slots.
LEMMA LayoutSeparates ==
  ASSUME name_scope \in Seq(VarTable), ScopeLayout
  PROVE  VisibleSlotsDistinct
<1> DEFINE n == Len(name_scope)
           V(t) == Len(name_scope[t].vars)
<1>1. n \in Nat
  OBVIOUS
<1>2. ASSUME NEW t \in 1..n
      PROVE  name_scope[t].offset \in Int /\ V(t) \in Nat
  <2>1. name_scope[t] \in VarTable
    OBVIOUS
  <2>2. name_scope[t].offset \in Int /\ name_scope[t].vars \in Seq(Name)
    BY <2>1 DEF VarTable
  <2> QED BY <2>2
<1>3. SUFFICES ASSUME NEW t \in 1..n, NEW u \in 1..n,
                      NEW i \in 1..V(t), NEW j \in 1..V(u),
                      Slot(t, i) = Slot(u, j)
               PROVE  t = u /\ i = j
  BY DEF VisibleSlotsDistinct
<1>4. /\ name_scope[t].is_global = name_scope[u].is_global
      /\ name_scope[t].offset + SLOT * (i - 1) = name_scope[u].offset + SLOT * (j - 1)
  BY <1>3 DEF Slot
<1>5. (t = 1) = (u = 1)
  <2>1. t # 1 => t \in 2..n
    BY <1>1
  <2>2. u # 1 => u \in 2..n
    BY <1>1
  <2> QED BY <1>4, <2>1, <2>2 DEF ScopeLayout, LaidOut
<1>6. t # 2 /\ u # 2
  <2>1. \A w \in 1..n : w = 2 => V(w) = 0
    <3> TAKE w \in 1..n
    <3> HAVE w = 2
    <3>1. n >= 2
      BY <1>1
    <3> QED BY <3>1 DEF ScopeLayout, LaidOut
  <2>2. V(t) # 0 /\ V(u) # 0
    BY <1>2
  <2> QED BY <2>1, <2>2
<1>7. ASSUME NEW a \in 1..n, NEW b \in 1..n, a >= 3, a < b,
             NEW x \in 1..V(a), NEW y \in 1..V(b)
      PROVE  name_scope[a].offset + SLOT * (x - 1) < name_scope[b].offset + SLOT * (y - 1)
  <2>1. a \in 3..n /\ b \in (a + 1)..n
    BY <1>1, <1>7
  <2>2. TableEnd(name_scope[a]) <= name_scope[b].offset
    BY <2>1 DEF ScopeLayout, LaidOut
  <2>3. PICK p \in Int, q \in Int, k \in Nat, m \in Nat :
          p = name_scope[a].offset /\ q = name_scope[b].offset /\ k = V(a) /\ m = V(b)
    BY <1>2
  <2>4. p + 8 * k <= q /\ x \in 1..k /\ y \in 1..m
    BY <2>2, <2>3 DEF TableEnd, SLOT
  <2>5. p + 8 * (x - 1) < q + 8 * (y - 1)
    BY <2>4
  <2> QED BY <2>3, <2>5 DEF SLOT
<1>8. t = u
  <2>1. CASE t = 1
    BY <1>5, <2>1
  <2>2. CASE t # 1
    <3>1. t >= 3 /\ u >= 3
      BY <1>1, <1>5, <1>6, <2>2
    <3>2. name_scope[t].offset + SLOT * (i - 1) \in Int
      BY <1>2 DEF SLOT
    <3>3. ~ (t < u)
      <4> SUFFICES ASSUME t < u PROVE FALSE
        OBVIOUS
      <4>1. name_scope[t].offset + SLOT * (i - 1) < name_scope[u].offset + SLOT * (j - 1)
        BY <1>7, <3>1
      <4> QED BY <1>4, <3>2, <4>1
    <3>4. ~ (u < t)
      <4> SUFFICES ASSUME u < t PROVE FALSE
        OBVIOUS
      <4>1. name_scope[u].offset + SLOT * (j - 1) < name_scope[t].offset + SLOT * (i - 1)
        BY <1>7, <3>1
      <4> QED BY <1>4, <3>2, <4>1
    <3> QED BY <1>1, <3>3, <3>4
  <2> QED BY <2>1, <2>2
<1>9. i = j
  <2>1. PICK p \in Int : p = name_scope[t].offset
    BY <1>2
  <2>2. p + 8 * (i - 1) = p + 8 * (j - 1)
    BY <1>4, <1>8, <2>1 DEF SLOT
  <2>3. i \in Int /\ j \in Int
    BY <1>2
  <2> QED BY <2>2, <2>3
<1> QED BY <1>8, <1>9

\* Two variables in scope together never share their memory, however the
\* program nests its blocks (get_next_offset, add_table, add_var).
THEOREM SlotsDistinct == Spec => []VisibleSlotsDistinct
<1>1. IInv => VisibleSlotsDistinct
  <2> SUFFICES ASSUME IInv PROVE VisibleSlotsDistinct
    OBVIOUS
  <2>1. name_scope \in Seq(VarTable) /\ ScopeLayout
    BY HandlerState DEF IInv
  <2> QED BY <2>1, LayoutSeparates
<1> QED BY <1>1, Invariance, PTL
=============================================================================

----------------------------- MODULE Rules_proofs -----------------------------
(***************************************************************************)
(* Proofs about module StaticRules: the functions of a tree that state the *)
(* rules are what their equations say, and the code generator decides as   *)
(* they do.                                                                *)
(***************************************************************************)
EXTENDS StaticRules, CodeList_proofs

-----------------------------------------------------------------------------
(* Trees are finite.                                                       *)

Trees == Node \cup {NULL}

\* A set of numbers has a least one.
LEMMA Least ==
  ASSUME NEW T \in SUBSET Nat, T # {}
  PROVE  \E x \in T : \A y \in T : x <= y
<1>1. PICK x \in T : \A y \in T : ~ (<< y, x >> \in OpToRel(<, Nat))
  BY NatLessThanWellFounded, WFMin
<1>2. \A y \in T : ~ (y < x)
  BY <1>1 DEF OpToRel
<1> QED BY <1>2

\* What holds of the absent tree, and of a tree if it holds of its subtrees,
\* holds of every tree.
LEMMA TreeInduction ==
  ASSUME NEW S, NULL \in S,
         \A n \in Node : n.left \in S /\ n.right \in S => n \in S
  PROVE  \A n \in Trees : n \in S
<1> DEFINE Lows == {Height[n] : n \in Trees \ S}
<1>1. SUFFICES ASSUME NEW m \in Trees, m \notin S PROVE FALSE
  OBVIOUS
<1>2. Lows \in SUBSET Nat /\ Lows # {}
  BY <1>1, HeightAssumption DEF Trees
<1>3. PICK h \in Lows : \A k \in Lows : h <= k
  BY <1>2, Least
<1>4. PICK n \in Trees \ S : h = Height[n]
  BY <1>3
<1>5. n \in Node
  BY <1>4 DEF Trees
<1>6. ASSUME NEW c \in Trees, c = n.left \/ c = n.right PROVE c \in S
  <2>1. Height[c] < Height[n] /\ Height[c] \in Nat /\ Height[n] \in Nat
    BY <1>5, <1>6, HeightAssumption DEF Trees
  <2>2. c \notin S => Height[c] \in Lows
    OBVIOUS
  <2> QED BY <1>3, <1>4, <2>1, <2>2
<1>7. n.left \in Trees /\ n.right \in Trees
  BY <1>5, NodeFields DEF Trees
<1> QED BY <1>4, <1>5, <1>6, <1>7

\* A function of trees may be defined by what it is for the absent tree, and for
\* a tree by what is made of the tree and what it is for its subtrees.
TreeFunctions(T) == [Trees -> T]
Combiners(T)     == [Node -> [T -> [T -> T]]]

Recurs(f, base, g) == f[NULL] = base /\ \A n \in Node : f[n] = g[n][f[n.left]][f[n.right]]

\* An equation that gives the value of a tree from those of its children has a
\* solution: that is what the recursive functions of StaticRules are defined by.
LEMMA TreeRecursion ==
  ASSUME NEW T, NEW base \in T, NEW g \in Combiners(T)
  PROVE  \E f \in TreeFunctions(T) : Recurs(f, base, g)
<1> DEFINE Closed(P) ==
             /\ << NULL, base >> \in P
             /\ \A n \in Node : \A a, b \in T :
                  << n.left, a >> \in P /\ << n.right, b >> \in P => << n, g[n][a][b] >> \in P
           R == {p \in Trees \X T : \A P \in SUBSET (Trees \X T) : Closed(P) => p \in P}
<1>1. NULL \notin Node /\ Node \subseteq Trees /\ NULL \in Trees
  BY NodeAssumption DEF Trees
<1>2. \A n \in Node : \A a, b \in T : g[n][a][b] \in T
  BY DEF Combiners
<1>3. R \in SUBSET (Trees \X T) /\ Closed(R)
  BY <1>1, <1>2
<1>4. ASSUME NEW p \in R, Closed(R \ {p}) PROVE FALSE
  BY <1>3, <1>4
<1>5. ASSUME NEW v \in T, << NULL, v >> \in R PROVE v = base
  <2>1. SUFFICES ASSUME v # base PROVE FALSE
    OBVIOUS
  <2> HIDE DEF R
  <2>2. Closed(R \ {<< NULL, v >>})
    BY <1>1, <1>3, <2>1
  <2> QED BY <1>4, <1>5, <2>2
<1>6. ASSUME NEW n \in Node, NEW v \in T, << n, v >> \in R
      PROVE  \E a, b \in T : << n.left, a >> \in R /\ << n.right, b >> \in R /\ v = g[n][a][b]
  <2>1. SUFFICES ASSUME \A a, b \in T : << n.left, a >> \in R /\ << n.right, b >> \in R => v # g[n][a][b]
                 PROVE  FALSE
    OBVIOUS
  <2> HIDE DEF R
  <2>2. Closed(R \ {<< n, v >>})
    BY <1>1, <1>3, <2>1
  <2> QED BY <1>4, <1>6, <2>2
<1> HIDE DEF R
<1> DEFINE S == {n \in Trees : \E v \in T : << n, v >> \in R /\ \A w \in T : << n, w >> \in R => w = v}
<1>7. \A n \in Trees : n \in S
  <2>1. NULL \in S
    BY <1>1, <1>3, <1>5
  <2>2. ASSUME NEW n \in Node, n.left \in S, n.right \in S PROVE n \in S
    <3>1. PICK a \in T : << n.left, a >> \in R /\ \A w \in T : << n.left, w >> \in R => w = a
      BY <2>2
    <3>2. PICK b \in T : << n.right, b >> \in R /\ \A w \in T : << n.right, w >> \in R => w = b
      BY <2>2
    <3>3. g[n][a][b] \in T /\ << n, g[n][a][b] >> \in R
      BY <1>2, <1>3, <3>1, <3>2
    <3>4. ASSUME NEW w \in T, << n, w >> \in R PROVE w = g[n][a][b]
      BY <1>6, <3>1, <3>2, <3>4
    <3> QED BY <1>1, <3>3, <3>4
  <2> HIDE DEF S
  <2> QED BY <2>1, <2>2, TreeInduction
<1> DEFINE f == [n \in Trees |-> CHOOSE v \in T : << n, v >> \in R]
<1>8. ASSUME NEW n \in Trees
      PROVE  f[n] \in T /\ << n, f[n] >> \in R /\ \A w \in T : << n, w >> \in R => w = f[n]
  BY <1>7
<1>9. f \in [Trees -> T]
  BY <1>8
<1> HIDE DEF f
<1>10. f[NULL] = base
  BY <1>1, <1>5, <1>8
<1>11. ASSUME NEW n \in Node PROVE f[n] = g[n][f[n.left]][f[n.right]]
  <2>1. n.left \in Trees /\ n.right \in Trees
    BY NodeFields DEF Trees
  <2>2. f[n.left] \in T /\ f[n.right] \in T
    BY <2>1, <1>8
  <2>3. << n, g[n][f[n.left]][f[n.right]] >> \in R /\ g[n][f[n.left]][f[n.right]] \in T
    BY <1>2, <1>3, <1>8, <2>1, <2>2
  <2> QED BY <1>1, <1>8, <2>3
<1> QED BY <1>9, <1>10, <1>11 DEF TreeFunctions, Recurs

\* The equations of Binds: the names a tree declares.
LEMMA BindsOf ==
  /\ Binds \in [Trees -> SUBSET Name]
  /\ Binds[NULL] = {}
  /\ \A n \in Node :
       Binds[n] =
         IF n.type = "NVAR" THEN {n.value}
         ELSE (IF n.type \in {"SEQ", "BRANCH"} THEN Binds[n.left] ELSE {})
              \cup (IF n.type \in {"SEQ", "BRANCH", "IF", "WHILE"} THEN Binds[n.right] ELSE {})
<1> DEFINE T == SUBSET Name
           base == {}
           Value(n, l, r) ==
         IF n.type = "NVAR" THEN {n.value}
         ELSE (IF n.type \in {"SEQ", "BRANCH"} THEN l ELSE {})
              \cup (IF n.type \in {"SEQ", "BRANCH", "IF", "WHILE"} THEN r ELSE {})
           g == [n \in Node |-> [l \in T |-> [r \in T |-> Value(n, l, r)]]]
<1>1. NULL \notin Node /\ NULL \in Trees /\ \A n \in Node : n.left \in Trees /\ n.right \in Trees
  BY NodeAssumption DEF Trees
<1>2. base \in T
  OBVIOUS
<1>3. \A n \in Node : \A l, r \in T : Value(n, l, r) \in T
  BY NodeFields DEF Named
<1> HIDE DEF T, base, Value
<1>4. g \in Combiners(T)
  BY <1>3 DEF Combiners
<1>5. \A n \in Node : \A l, r \in T : g[n][l][r] = Value(n, l, r)
  OBVIOUS
<1> HIDE DEF g
<1>6. PICK f \in TreeFunctions(T) : Recurs(f, base, g)
  BY ONLY <1>2, <1>4, TreeRecursion
<1>7. f \in [Trees -> T] /\ f[NULL] = base
  BY <1>6 DEF TreeFunctions, Recurs
<1>8. ASSUME NEW n \in Node PROVE f[n] = Value(n, f[n.left], f[n.right])
  <2>1. f[n.left] \in T /\ f[n.right] \in T
    BY <1>1, <1>7
  <2> QED BY <1>5, <1>6, <2>1 DEF Recurs
<1> DEFINE Step(F, n) ==
         IF TypeOf(n) = "NVAR" THEN {n.value}
         ELSE (IF TypeOf(n) \in {"SEQ", "BRANCH"} THEN F[n.left] ELSE {})
              \cup (IF TypeOf(n) \in {"SEQ", "BRANCH", "IF", "WHILE"} THEN F[n.right] ELSE {})
           Solves(F) == F = [n \in Node \cup {NULL} |-> Step(F, n)]
<1>9. \A F : Step(F, NULL) = base /\ \A n \in Node : Step(F, n) = Value(n, F[n.left], F[n.right])
  BY <1>1 DEF Value, TypeOf, base
<1> HIDE DEF Step
<1>10. Solves(f)
  <2>1. \A n \in Node \cup {NULL} : f[n] = Step(f, n)
    BY <1>7, <1>8, <1>9
  <2> QED BY <1>7, <2>1 DEF Trees
<1>11. Binds = CHOOSE F : Solves(F)
  BY DEF Binds, Step
<1>12. Solves(Binds)
  BY ONLY <1>10, <1>11, Zenon
<1>13. Binds[NULL] = base /\ \A n \in Node : Binds[n] = Value(n, Binds[n.left], Binds[n.right])
  BY <1>9, <1>12
<1>14. \A n \in Trees : Binds[n] \in T
  <2> DEFINE S == {n \in Trees : Binds[n] \in T}
  <2>1. NULL \in S /\ \A n \in Node : n.left \in S /\ n.right \in S => n \in S
    BY <1>1, <1>2, <1>3, <1>13 DEF Trees
  <2> HIDE DEF S
  <2>2. \A n \in Trees : n \in S
    BY <2>1, TreeInduction
  <2> QED BY <2>2 DEF S
<1>15. Binds \in [Trees -> T]
  BY <1>12, <1>14 DEF Trees
<1> QED BY <1>13, <1>15 DEF Value, T, base

\* The equations of Free: the names a tree needs.
LEMMA FreeOf ==
  /\ Free \in [Trees -> SUBSET Name]
  /\ Free[NULL] = {}
  /\ \A n \in Node :
       Free[n] =
         (IF n.type \in {"VAR", "ASS"} THEN {n.value} ELSE {})
         \cup (IF n.type = "NFUN" THEN {} ELSE Free[n.left])
         \cup (Free[n.right] \ Binds[n.left])
<1> DEFINE T == SUBSET Name
           base == {}
           Value(n, l, r) ==
         (IF n.type \in {"VAR", "ASS"} THEN {n.value} ELSE {})
         \cup (IF n.type = "NFUN" THEN {} ELSE l)
         \cup (r \ Binds[n.left])
           g == [n \in Node |-> [l \in T |-> [r \in T |-> Value(n, l, r)]]]
<1>1. NULL \notin Node /\ NULL \in Trees /\ \A n \in Node : n.left \in Trees /\ n.right \in Trees
  BY NodeAssumption DEF Trees
<1>2. base \in T
  OBVIOUS
<1>3. \A n \in Node : \A l, r \in T : Value(n, l, r) \in T
  BY NodeFields DEF Named
<1> HIDE DEF T, base, Value
<1>4. g \in Combiners(T)
  BY <1>3 DEF Combiners
<1>5. \A n \in Node : \A l, r \in T : g[n][l][r] = Value(n, l, r)
  OBVIOUS
<1> HIDE DEF g
<1>6. PICK f \in TreeFunctions(T) : Recurs(f, base, g)
  BY ONLY <1>2, <1>4, TreeRecursion
<1>7. f \in [Trees -> T] /\ f[NULL] = base
  BY <1>6 DEF TreeFunctions, Recurs
<1>8. ASSUME NEW n \in Node PROVE f[n] = Value(n, f[n.left], f[n.right])
  <2>1. f[n.left] \in T /\ f[n.right] \in T
    BY <1>1, <1>7
  <2> QED BY <1>5, <1>6, <2>1 DEF Recurs
<1> DEFINE Step(F, n) ==
         IF n = NULL THEN {} ELSE (IF n.type \in {"VAR", "ASS"} THEN {n.value} ELSE {})
         \cup (IF n.type = "NFUN" THEN {} ELSE F[n.left])
         \cup (F[n.right] \ Binds[n.left])
           Solves(F) == F = [n \in Node \cup {NULL} |-> Step(F, n)]
<1>9. \A F : Step(F, NULL) = base /\ \A n \in Node : Step(F, n) = Value(n, F[n.left], F[n.right])
  BY <1>1 DEF Value, TypeOf, base
<1> HIDE DEF Step
<1>10. Solves(f)
  <2>1. \A n \in Node \cup {NULL} : f[n] = Step(f, n)
    BY <1>7, <1>8, <1>9
  <2> QED BY <1>7, <2>1 DEF Trees
<1>11. Free = CHOOSE F : Solves(F)
  BY DEF Free, Step
<1>12. Solves(Free)
  BY ONLY <1>10, <1>11, Zenon
<1>13. Free[NULL] = base /\ \A n \in Node : Free[n] = Value(n, Free[n.left], Free[n.right])
  BY <1>9, <1>12
<1>14. \A n \in Trees : Free[n] \in T
  <2> DEFINE S == {n \in Trees : Free[n] \in T}
  <2>1. NULL \in S /\ \A n \in Node : n.left \in S /\ n.right \in S => n \in S
    BY <1>1, <1>2, <1>3, <1>13 DEF Trees
  <2> HIDE DEF S
  <2>2. \A n \in Trees : n \in S
    BY <2>1, TreeInduction
  <2> QED BY <2>2 DEF S
<1>15. Free \in [Trees -> T]
  BY <1>12, <1>14 DEF Trees
<1> QED BY <1>13, <1>15 DEF Value, T, base

\* The equations of CallsOf: the calls of a tree.
LEMMA CallsOfOf ==
  /\ CallsOf \in [Trees -> SUBSET (Name \X Nat)]
  /\ CallsOf[NULL] = {}
  /\ \A n \in Node :
       CallsOf[n] =
         (IF n.type = "CALL" THEN {<<n.value, ChainOf(n.right)>>} ELSE {}) \cup CallsOf[n.left] \cup CallsOf[n.right]
<1> DEFINE T == SUBSET (Name \X Nat)
           base == {}
           Value(n, l, r) ==
         (IF n.type = "CALL" THEN {<<n.value, ChainOf(n.right)>>} ELSE {}) \cup l \cup r
           g == [n \in Node |-> [l \in T |-> [r \in T |-> Value(n, l, r)]]]
<1>1. NULL \notin Node /\ NULL \in Trees /\ \A n \in Node : n.left \in Trees /\ n.right \in Trees
  BY NodeAssumption DEF Trees
<1>2. base \in T
  OBVIOUS
<1>3. \A n \in Node : \A l, r \in T : Value(n, l, r) \in T
  BY NodeFields DEF Named
<1> HIDE DEF T, base, Value
<1>4. g \in Combiners(T)
  BY <1>3 DEF Combiners
<1>5. \A n \in Node : \A l, r \in T : g[n][l][r] = Value(n, l, r)
  OBVIOUS
<1> HIDE DEF g
<1>6. PICK f \in TreeFunctions(T) : Recurs(f, base, g)
  BY ONLY <1>2, <1>4, TreeRecursion
<1>7. f \in [Trees -> T] /\ f[NULL] = base
  BY <1>6 DEF TreeFunctions, Recurs
<1>8. ASSUME NEW n \in Node PROVE f[n] = Value(n, f[n.left], f[n.right])
  <2>1. f[n.left] \in T /\ f[n.right] \in T
    BY <1>1, <1>7
  <2> QED BY <1>5, <1>6, <2>1 DEF Recurs
<1> DEFINE Step(F, n) ==
         IF n = NULL THEN {} ELSE (IF n.type = "CALL" THEN {<<n.value, ChainOf(n.right)>>} ELSE {}) \cup F[n.left] \cup F[n.right]
           Solves(F) == F = [n \in Node \cup {NULL} |-> Step(F, n)]
<1>9. \A F : Step(F, NULL) = base /\ \A n \in Node : Step(F, n) = Value(n, F[n.left], F[n.right])
  BY <1>1 DEF Value, TypeOf, base
<1> HIDE DEF Step
<1>10. Solves(f)
  <2>1. \A n \in Node \cup {NULL} : f[n] = Step(f, n)
    BY <1>7, <1>8, <1>9
  <2> QED BY <1>7, <2>1 DEF Trees
<1>11. CallsOf = CHOOSE F : Solves(F)
  BY DEF CallsOf, Step
<1>12. Solves(CallsOf)
  BY ONLY <1>10, <1>11, Zenon
<1>13. CallsOf[NULL] = base /\ \A n \in Node : CallsOf[n] = Value(n, CallsOf[n.left], CallsOf[n.right])
  BY <1>9, <1>12
<1>14. \A n \in Trees : CallsOf[n] \in T
  <2> DEFINE S == {n \in Trees : CallsOf[n] \in T}
  <2>1. NULL \in S /\ \A n \in Node : n.left \in S /\ n.right \in S => n \in S
    BY <1>1, <1>2, <1>3, <1>13 DEF Trees
  <2> HIDE DEF S
  <2>2. \A n \in Trees : n \in S
    BY <2>1, TreeInduction
  <2> QED BY <2>2 DEF S
<1>15. CallsOf \in [Trees -> T]
  BY <1>12, <1>14 DEF Trees
<1> QED BY <1>13, <1>15 DEF Value, T, base

\* The equations of ReturnsItself: whether a tree returns outside of its blocks.
LEMMA ReturnsItselfOf ==
  /\ ReturnsItself \in [Trees -> BOOLEAN]
  /\ ReturnsItself[NULL] = FALSE
  /\ \A n \in Node :
       ReturnsItself[n] =
         \/ n.type = "RET"
         \/ n.type \in {"SEQ", "IF", "WHILE", "BRANCH"} /\ (ReturnsItself[n.left] \/ ReturnsItself[n.right])
<1> DEFINE T == BOOLEAN
           base == FALSE
           Value(n, l, r) ==
         \/ n.type = "RET"
         \/ n.type \in {"SEQ", "IF", "WHILE", "BRANCH"} /\ (l \/ r)
           g == [n \in Node |-> [l \in T |-> [r \in T |-> Value(n, l, r)]]]
<1>1. NULL \notin Node /\ NULL \in Trees /\ \A n \in Node : n.left \in Trees /\ n.right \in Trees
  BY NodeAssumption DEF Trees
<1>2. base \in T
  OBVIOUS
<1>3. \A n \in Node : \A l, r \in T : Value(n, l, r) \in T
  BY NodeFields
<1> HIDE DEF T, base, Value
<1>4. g \in Combiners(T)
  BY <1>3 DEF Combiners
<1>5. \A n \in Node : \A l, r \in T : g[n][l][r] = Value(n, l, r)
  OBVIOUS
<1> HIDE DEF g
<1>6. PICK f \in TreeFunctions(T) : Recurs(f, base, g)
  BY ONLY <1>2, <1>4, TreeRecursion
<1>7. f \in [Trees -> T] /\ f[NULL] = base
  BY <1>6 DEF TreeFunctions, Recurs
<1>8. ASSUME NEW n \in Node PROVE f[n] = Value(n, f[n.left], f[n.right])
  <2>1. f[n.left] \in T /\ f[n.right] \in T
    BY <1>1, <1>7
  <2> QED BY <1>5, <1>6, <2>1 DEF Recurs
<1> DEFINE Step(F, n) ==
         \/ TypeOf(n) = "RET"
         \/ TypeOf(n) \in {"SEQ", "IF", "WHILE", "BRANCH"} /\ (F[n.left] \/ F[n.right])
           Solves(F) == F = [n \in Node \cup {NULL} |-> Step(F, n)]
<1>9. \A F : Step(F, NULL) = base /\ \A n \in Node : Step(F, n) = Value(n, F[n.left], F[n.right])
  BY <1>1 DEF Value, TypeOf, base
<1> HIDE DEF Step
<1>10. Solves(f)
  <2>1. \A n \in Node \cup {NULL} : f[n] = Step(f, n)
    BY <1>7, <1>8, <1>9
  <2> QED BY <1>7, <2>1 DEF Trees
<1>11. ReturnsItself = CHOOSE F : Solves(F)
  BY DEF ReturnsItself, Step
<1>12. Solves(ReturnsItself)
  BY ONLY <1>10, <1>11, Zenon
<1>13. ReturnsItself[NULL] = base /\ \A n \in Node : ReturnsItself[n] = Value(n, ReturnsItself[n.left], ReturnsItself[n.right])
  BY <1>9, <1>12
<1>14. \A n \in Trees : ReturnsItself[n] \in T
  <2> DEFINE S == {n \in Trees : ReturnsItself[n] \in T}
  <2>1. NULL \in S /\ \A n \in Node : n.left \in S /\ n.right \in S => n \in S
    BY <1>1, <1>2, <1>3, <1>13 DEF Trees
  <2> HIDE DEF S
  <2>2. \A n \in Trees : n \in S
    BY <2>1, TreeInduction
  <2> QED BY <2>2 DEF S
<1>15. ReturnsItself \in [Trees -> T]
  BY <1>12, <1>14 DEF Trees
<1> QED BY <1>13, <1>15 DEF Value, T, base

\* The equations of Definitions: the definitions of a program.
LEMMA DefinitionsOf ==
  /\ Definitions \in [Trees -> Seq(Node \cup {NULL})]
  /\ Definitions[NULL] = <<>>
  /\ \A n \in Node :
       Definitions[n] =
         << n.left >> \o Definitions[n.right]
<1> DEFINE T == Seq(Node \cup {NULL})
           base == <<>>
           Value(n, l, r) ==
         << n.left >> \o r
           g == [n \in Node |-> [l \in T |-> [r \in T |-> Value(n, l, r)]]]
<1>1. NULL \notin Node /\ NULL \in Trees /\ \A n \in Node : n.left \in Trees /\ n.right \in Trees
  BY NodeAssumption DEF Trees
<1>2. base \in T
  OBVIOUS
<1>3. \A n \in Node : \A l, r \in T : Value(n, l, r) \in T
  BY NodeFields
<1> HIDE DEF T, base, Value
<1>4. g \in Combiners(T)
  BY <1>3 DEF Combiners
<1>5. \A n \in Node : \A l, r \in T : g[n][l][r] = Value(n, l, r)
  OBVIOUS
<1> HIDE DEF g
<1>6. PICK f \in TreeFunctions(T) : Recurs(f, base, g)
  BY ONLY <1>2, <1>4, TreeRecursion
<1>7. f \in [Trees -> T] /\ f[NULL] = base
  BY <1>6 DEF TreeFunctions, Recurs
<1>8. ASSUME NEW n \in Node PROVE f[n] = Value(n, f[n.left], f[n.right])
  <2>1. f[n.left] \in T /\ f[n.right] \in T
    BY <1>1, <1>7
  <2> QED BY <1>5, <1>6, <2>1 DEF Recurs
<1> DEFINE Step(F, n) ==
         IF n = NULL THEN <<>> ELSE << n.left >> \o F[n.right]
           Solves(F) == F = [n \in Node \cup {NULL} |-> Step(F, n)]
<1>9. \A F : Step(F, NULL) = base /\ \A n \in Node : Step(F, n) = Value(n, F[n.left], F[n.right])
  BY <1>1 DEF Value, TypeOf, base
<1> HIDE DEF Step
<1>10. Solves(f)
  <2>1. \A n \in Node \cup {NULL} : f[n] = Step(f, n)
    BY <1>7, <1>8, <1>9
  <2> QED BY <1>7, <2>1 DEF Trees
<1>11. Definitions = CHOOSE F : Solves(F)
  BY DEF Definitions, Step
<1>12. Solves(Definitions)
  BY ONLY <1>10, <1>11, Zenon
<1>13. Definitions[NULL] = base /\ \A n \in Node : Definitions[n] = Value(n, Definitions[n.left], Definitions[n.right])
  BY <1>9, <1>12
<1>14. \A n \in Trees : Definitions[n] \in T
  <2> DEFINE S == {n \in Trees : Definitions[n] \in T}
  <2>1. NULL \in S /\ \A n \in Node : n.left \in S /\ n.right \in S => n \in S
    BY <1>1, <1>2, <1>3, <1>13 DEF Trees
  <2> HIDE DEF S
  <2>2. \A n \in Trees : n \in S
    BY <2>1, TreeInduction
  <2> QED BY <2>2 DEF S
<1>15. Definitions \in [Trees -> T]
  BY <1>12, <1>14 DEF Trees
<1> QED BY <1>13, <1>15 DEF Value, T, base

-----------------------------------------------------------------------------
(* What the subtrees of a tree declare, need and call.                     *)

\* The children of a node are trees, of the types its type allows.
LEMMA Children ==
  ASSUME NEW n \in Node
  PROVE  /\ n \in Trees /\ n.left \in Trees /\ n.right \in Trees
         /\ n.left # NULL => n.left \in Node /\ n.left.type \in LeftChild(n.type)
         /\ n.right # NULL => n.right \in Node /\ n.right.type \in RightChild(n.type)
BY NodeFields DEF Trees, TypeOf

\* Only statements declare names to what follows them.
LEMMA DeclaresNothing ==
  ASSUME NEW n \in Trees, TypeOf(n) \notin {"NVAR", "SEQ", "BRANCH", "IF", "WHILE"}
  PROVE  Binds[n] = {}
BY BindsOf DEF Trees, TypeOf

\* What a node declares in terms of what its subtrees do.
LEMMA DeclaredNames ==
  ASSUME NEW n \in Node
  PROVE  /\ n.type = "NVAR" =>
              Binds[n] = {n.value} /\ Binds[n.left] = {} /\ Binds[n.right] = {}
         /\ n.type = "BLOCK" => Binds[n] = {} /\ Binds[n.left] = {}
         /\ n.type = "NFUN" => Binds[n] = {} /\ Binds[n.left] = {} /\ Binds[n.right] = {}
         /\ n.type \notin {"NVAR", "BLOCK", "NFUN", "DEFS"} =>
              Binds[n] = Binds[n.left] \cup Binds[n.right]
<1>1. n.left \in Trees /\ n.right \in Trees /\ n.type \in NodeType
      /\ TypeOf(n.left) \in LeftChild(n.type) /\ TypeOf(n.right) \in RightChild(n.type)
  BY NodeFields, Children
<1>2. n.type \notin {"SEQ", "BRANCH", "DEFS"} => Binds[n.left] = {}
  <2>1. n.type \notin {"SEQ", "BRANCH", "DEFS"} =>
          TypeOf(n.left) \notin {"NVAR", "SEQ", "BRANCH", "IF", "WHILE"}
    BY <1>1 DEF LeftChild, Expression, NodeType, Statement
  <2> QED BY <1>1, <2>1, DeclaresNothing
<1>3. n.type \notin {"SEQ", "BRANCH", "IF", "WHILE", "BLOCK", "DEFS"} => Binds[n.right] = {}
  <2>1. n.type \notin {"SEQ", "BRANCH", "IF", "WHILE", "BLOCK", "DEFS"} =>
          TypeOf(n.right) \notin {"NVAR", "SEQ", "BRANCH", "IF", "WHILE"}
    BY <1>1 DEF RightChild, Expression, NodeType, Statement
  <2> QED BY <1>1, <2>1, DeclaresNothing
<1> QED BY <1>2, <1>3, BindsOf

-----------------------------------------------------------------------------
(* A handler that compile_node calls leaves what the rules refer to alone. *)

Walking == IInv /\ CodeInv /\ walk # <<>> /\ Proceed /\ UNCHANGED <<control, program>>

\* The types of the walk around one step of compile_node.
LEMMA WalkingTypes ==
  ASSUME Walking
  PROVE  /\ walk \in Seq(Frame) /\ Len(walk) \in Nat \ {0}
         /\ walk' \in Seq(Frame) /\ Len(walk') \in Nat
         /\ Len(walk') \in (Len(walk) - 1)..(Len(walk) + 1)
         /\ \A k \in 1..Len(walk) : walk[k].node \in Node /\ walk[k].stage \in 0..3
         /\ \A k \in 1..Len(walk') : walk'[k].node \in Node /\ walk'[k].stage \in 0..3
         /\ Top = walk[Len(walk)] /\ Top.node \in Node /\ Top.stage \in 0..3
<1>1. walk \in Seq(Frame) /\ walk # <<>>
  BY HandlerState DEF Walking
<1>2. walk' \in Seq(Frame) /\ Len(walk') \in (Len(walk) - 1)..(Len(walk) + 1)
  BY <1>1, ProceedWalk, TopTyped DEF Walking, COMPILED_RIGHT
<1>3. \A f \in Frame : f.node \in Node /\ f.stage \in 0..3
  BY DEF Frame, COMPILING_LEFT, COMPILED_RIGHT
<1> QED BY <1>1, <1>2, <1>3 DEF Top

\* A handler of compile_node moves no definition from the rest of the program to
\* the extracted ones: what is known outside the walk stays.
LEMMA ContextKept ==
  ASSUME Walking
  PROVE  /\ Given' = Given /\ Extracted' = Extracted /\ Known' = Known
         /\ walk' # <<>> => /\ Subject' = Subject
                            /\ Initializing' = Initializing
                            /\ GlobalNames' = GlobalNames
<1>1. Given' = Given /\ Extracted' = Extracted /\ Known' = Known
  BY DEF Walking, Given, Extracted, Known, control
<1>2. ASSUME walk' # <<>> PROVE walk'[1].node = walk[1].node
  <2>1. Len(walk) >= 2 => walk'[1] = walk[1]
    BY WalkingTypes, ProceedWalk DEF Walking
  <2>2. Len(walk) = 1 => walk'[1].node = walk[1].node
    <3>1. SUFFICES ASSUME Len(walk) = 1 PROVE walk'[1].node = walk[1].node
      OBVIOUS
    <3>2. Top.stage # COMPILED_RIGHT
      BY <1>2, <3>1, WalkingTypes, ProceedWalk, EmptySeq DEF Walking
    <3>3. walk'[1].node = Top.node
      BY <3>1, <3>2, WalkingTypes, ProceedWalk DEF Walking
    <3> QED BY <3>1, <3>3 DEF Top
  <2>3. Len(walk) = 1 \/ Len(walk) >= 2
    <3>1. PICK n \in Nat \ {0} : n = Len(walk)
      BY WalkingTypes
    <3> QED BY <3>1
  <2> QED BY ONLY <2>1, <2>2, <2>3, Zenon
<1>3. walk' # <<>> => Subject' = Subject /\ Initializing' = Initializing
  BY <1>2 DEF Subject, Initializing, Walking, control
<1> QED BY <1>1, <1>3 DEF GlobalNames

-----------------------------------------------------------------------------
(* The names that are visible, as the walk goes on.                        *)

\* What is visible behind an activation.
LEMMA SeenBehind ==
  ASSUME NEW k \in Nat \ {0}, NEW m \in Nat, m = k + 1
  PROVE  /\ SeenBy(m) = SeenBy(k) \cup Added(k)
         /\ SeenBy(m)' = SeenBy(k)' \cup Added(k)'
         /\ Len(walk) = k => SeenNow = SeenBy(m)
         /\ Len(walk') = k => SeenNow' = SeenBy(m)'
<1>1. 1..(m - 1) = (1..(k - 1)) \cup {k}
  OBVIOUS
<1> QED BY <1>1 DEF SeenBy, SeenNow

\* Where the walk begins only global names are visible.
LEMMA SeenFirst ==
  SeenBy(1) = GlobalNames /\ SeenBy(1)' = GlobalNames'
<1>1. 1..(1 - 1) = {}
  OBVIOUS
<1> QED BY <1>1 DEF SeenBy

\* What the activation on top has added.
LEMMA AddedAtTop ==
  ASSUME walk \in Seq(Frame), walk # <<>>
  PROVE  Added(Len(walk)) =
           (IF Top.stage = COMPILING_LEFT THEN {} ELSE Binds[Top.node.left])
             \cup (IF Top.stage = COMPILED_RIGHT THEN Binds[Top.node.right] ELSE {})
BY TopTyped DEF Added, Top, COMPILING_LEFT, COMPILED_RIGHT

\* Activations that are not on top keep what they have added.
LEMMA AddedBelow ==
  ASSUME Walking, NEW k \in 1..(Len(walk) - 1), k < Len(walk')
  PROVE  Added(k)' = Added(k)
<1>1. walk'[k] = walk[k] /\ k # Len(walk) /\ k # Len(walk')
  BY WalkingTypes, ProceedWalk DEF Walking
<1> QED BY <1>1 DEF Added

\* What is visible where an open activation begins does not change while it is open.
LEMMA SeenKept ==
  ASSUME Walking, walk' # <<>>, NEW k \in 1..Len(walk), k <= Len(walk')
  PROVE  SeenBy(k)' = SeenBy(k)
<1>1. \A j \in 1..(k - 1) : Added(j)' = Added(j)
  BY AddedBelow, WalkingTypes
<1>2. GlobalNames' = GlobalNames
  BY ContextKept
<1> QED BY <1>1, <1>2 DEF SeenBy

\* A node that is entered sees what its parent sees and what its left brother
\* declares.
LEMMA SeenEntering ==
  ASSUME Walking, Top.stage # COMPILED_RIGHT,
         NEW n \in Nat, n = Len(walk), NEW m \in Nat, m = Len(walk')
  PROVE  /\ SeenNow' = SeenNow
         /\ m = n + 1 =>
              /\ Top.stage = COMPILING_LEFT => SeenBy(m)' = SeenBy(n)
              /\ Top.stage = COMPILING_RIGHT => SeenBy(m)' = SeenBy(n) \cup Binds[Top.node.left]
<1>1. /\ n \in Nat \ {0} /\ m \in {n, n + 1} /\ walk' # <<>>
      /\ walk'[n].node = Top.node /\ walk'[n].stage = Top.stage + 1
      /\ Top.stage \in 0..2
  BY WalkingTypes, ProceedWalk DEF Walking, COMPILED_RIGHT
<1>2. SeenBy(n)' = SeenBy(n)
  BY <1>1, SeenKept
<1>3. SeenNow = SeenBy(n) \cup Added(n)
  <2>1. PICK p \in Nat : p = n + 1
    BY <1>1
  <2> QED BY <1>1, <2>1, SeenBehind
<1>4. Added(n) = IF Top.stage = 0 THEN {} ELSE Binds[Top.node.left]
  BY <1>1, AddedAtTop, WalkingTypes DEF COMPILED_RIGHT, COMPILING_LEFT
<1>5. CASE m = n + 1
  <2>1. \/ Top.stage = 0
        \/ Top.stage = 2
    BY <1>5, WalkingTypes, ProceedWalk DEF Walking, COMPILING_LEFT, COMPILING_RIGHT
  <2>2. Added(n)' = IF Top.stage = 0 THEN {} ELSE Binds[Top.node.left]
    BY <1>1, <1>5, <2>1 DEF Added, COMPILED_RIGHT, COMPILING_LEFT
  <2>3. SeenBy(m)' = SeenBy(n)' \cup Added(n)'
    BY <1>1, <1>5, SeenBehind
  <2>4. Added(m)' = {}
    <3>1. walk'[m].stage = 0
      BY <1>5, WalkingTypes, ProceedWalk DEF Walking, COMPILING_LEFT
    <3> QED BY <3>1 DEF Added, COMPILED_RIGHT, COMPILING_LEFT
  <2>5. SeenNow' = SeenBy(m)' \cup Added(m)'
    <3>1. PICK p \in Nat : p = m + 1
      BY <1>1
    <3> QED BY <1>1, <3>1, SeenBehind
  <2>6. SeenNow' = SeenNow /\ SeenBy(m)' = SeenBy(n) \cup Added(n)
    BY <1>2, <1>3, <1>4, <2>2, <2>3, <2>4, <2>5
  <2> QED BY <1>4, <2>6 DEF COMPILING_LEFT, COMPILING_RIGHT
<1>6. CASE m = n
  <2>1. /\ Top.stage = 0 => Top.node.left = NULL
        /\ Top.stage = 2 => Top.node.right = NULL
    BY <1>6, WalkingTypes, ProceedWalk DEF Walking, COMPILING_LEFT, COMPILING_RIGHT
  <2>2. (Top').node = Top.node /\ (Top').stage = Top.stage + 1
    BY <1>1, <1>6 DEF Top
  <2>3. Added(n)' = Binds[Top.node.left]
                      \cup (IF Top.stage = 2 THEN Binds[Top.node.right] ELSE {})
    <3>1. Added(n)' = (IF (Top').stage = COMPILING_LEFT THEN {} ELSE Binds[(Top').node.left])
             \cup (IF (Top').stage = COMPILED_RIGHT THEN Binds[(Top').node.right] ELSE {})
      BY <1>1, <1>6 DEF Added, Top, COMPILING_LEFT, COMPILED_RIGHT
    <3> QED BY <1>1, <2>2, <3>1 DEF COMPILING_LEFT, COMPILED_RIGHT
  <2>4. Binds[NULL] = {}
    BY BindsOf
  <2>5. Added(n)' = Added(n)
    BY <1>1, <1>4, <2>1, <2>3, <2>4
  <2>6. SeenNow' = SeenBy(n)' \cup Added(n)'
    <3>1. PICK p \in Nat : p = n + 1
      BY <1>1
    <3> QED BY <1>1, <1>6, <3>1, SeenBehind
  <2> QED BY <1>1, <1>2, <1>3, <1>6, <2>5, <2>6
<1> QED BY <1>1, <1>5, <1>6

\* A node that is left leaves behind what it declares.
LEMMA SeenLeaving ==
  ASSUME Walking, Top.stage = COMPILED_RIGHT, walk' # <<>>,
         NEW n \in Nat, n = Len(walk)
  PROVE  /\ SeenNow = SeenBy(n) \cup Binds[Top.node.left] \cup Binds[Top.node.right]
         /\ SeenNow' = SeenBy(n) \cup Binds[Top.node]
<1>1. /\ n \in Nat \ {0} /\ Len(walk') = n - 1 /\ walk \in Seq(Frame) /\ walk # <<>>
  BY WalkingTypes, ProceedWalk DEF Walking
<1>2. n >= 2
  <2>1. Len(walk') # 0
    BY WalkingTypes, EmptySeq
  <2> QED BY <1>1, <2>1
<1>3. PICK p \in Nat \ {0} : p = n - 1
  BY <1>2
<1>4. PICK q \in Nat : q = n + 1
  OBVIOUS
<1>5. SeenNow = SeenBy(n) \cup Added(n)
  BY <1>1, <1>4, SeenBehind
<1>6. Added(n) = Binds[Top.node.left] \cup Binds[Top.node.right]
  BY <1>1, AddedAtTop DEF COMPILING_LEFT, COMPILED_RIGHT
<1>7. n = p + 1 /\ Len(walk') = p /\ p \in 1..Len(walk) /\ p <= Len(walk') /\ p < Len(walk)
  BY <1>1, <1>3
<1>8. SeenBy(n) = SeenBy(p) \cup Added(p) /\ SeenNow' = SeenBy(p)' \cup Added(p)'
  BY <1>7, SeenBehind
<1>9. SeenBy(p)' = SeenBy(p)
  BY <1>7, SeenKept
<1>10. walk'[p] = walk[p] /\ walk[p].node \in Node
  BY <1>7, WalkingTypes, ProceedWalk DEF Walking
<1>11. Added(p) = (IF walk[p].stage = COMPILED_RIGHT THEN Binds[walk[p].node.left] ELSE {})
  BY <1>7 DEF Added
<1>12. Added(p)' = (IF walk[p].stage = COMPILING_LEFT THEN {} ELSE Binds[walk[p].node.left])
             \cup (IF walk[p].stage = COMPILED_RIGHT THEN Binds[walk[p].node.right] ELSE {})
  <2>1. walk'[p].stage \in 0..3
    BY <1>7, WalkingTypes
  <2> QED BY <1>7, <1>10, <2>1 DEF Added, COMPILING_LEFT, COMPILED_RIGHT
<1>13. \/ walk[p].stage = COMPILED_LEFT /\ Top.node = walk[p].node.left
       \/ walk[p].stage = COMPILED_RIGHT /\ Top.node = walk[p].node.right
  BY <1>7 DEF Walking, CodeInv, WalkLinked, Top
<1>14. Added(p)' = Added(p) \cup Binds[Top.node]
  BY <1>11, <1>12, <1>13 DEF COMPILING_LEFT, COMPILED_LEFT, COMPILED_RIGHT
<1> QED BY <1>5, <1>6, <1>8, <1>9, <1>14

\* So most nodes change nothing when they are left.
LEMMA SeenUnchanged ==
  ASSUME Walking, walk' # <<>>,
         Top.stage = COMPILED_RIGHT => Top.node.type \notin {"NVAR", "BLOCK"}
  PROVE  SeenNow' = SeenNow
<1>1. PICK n \in Nat : n = Len(walk)
  BY WalkingTypes
<1>2. PICK m \in Nat : m = Len(walk')
  BY WalkingTypes
<1>3. CASE Top.stage # COMPILED_RIGHT
  BY <1>1, <1>2, <1>3, SeenEntering
<1>4. CASE Top.stage = COMPILED_RIGHT
  <2>1. Top.node \in Node /\ Top.node.type \notin {"NFUN", "DEFS"}
    <3>1. Top.node.type # "NFUN"
      <4>1. Top.node.type = "NFUN" => Len(walk) = 1
        BY AtFunction, WalkingTypes DEF Walking, IInv
      <4>2. Len(walk') = Len(walk) - 1
        BY <1>4, ProceedWalk, WalkingTypes DEF Walking
      <4> QED BY <4>1, <4>2, WalkingTypes, EmptySeq
    <3>2. Top.node.type # "DEFS"
      <4>1. n \in 1..Len(walk) /\ Top = walk[n]
        BY <1>1, WalkingTypes
      <4>2. n = 1 \/ n \in 2..Len(walk)
        BY <4>1
      <4>3. WalkShape
        BY DEF Walking, IInv
      <4> QED BY <4>1, <4>2, <4>3 DEF WalkShape, Walking, BodyPart, ExpressionPart, Statement, Expression
    <3> QED BY <3>1, <3>2, WalkingTypes
  <2>2. Binds[Top.node] = Binds[Top.node.left] \cup Binds[Top.node.right]
    BY <1>4, <2>1, DeclaredNames
  <2> QED BY <1>1, <1>4, <2>2, SeenLeaving
<1> QED BY <1>3, <1>4

-----------------------------------------------------------------------------
(* What the handlers do to the scopes and the return flag, and what they   *)
(* look at first.                                                          *)

Here(type, stage) == Top.node.type = type /\ Top.stage = stage

\* Scopes change when a variable is declared and when a block or a function
\* begins or ends.
ScopesHandled ==
  /\ Here("NVAR", 3) => name_scope' = add_var(name_scope, Top.node.value)
  /\ Here("BLOCK", 2) => \E i : name_scope' = add_table(name_scope, i)
  /\ Here("BLOCK", 3) => name_scope' = pop_table(name_scope)
  /\ Here("NFUN", 0) \/ Here("NFUN", 1) => \E i : name_scope' = add_table(name_scope, i)
  /\ Here("NFUN", 3) => name_scope' = pop_table(pop_table(name_scope))
  /\ \/ name_scope' = name_scope
     \/ Here("NVAR", 3) \/ Here("BLOCK", 2) \/ Here("BLOCK", 3)
     \/ Here("NFUN", 0) \/ Here("NFUN", 1) \/ Here("NFUN", 3)

\* A return is noticed; a function begins and ends without one.
ReturnsHandled ==
  /\ Here("RET", 3) => has_return' = (has_return \/ block_depth = 1)
  /\ Here("NFUN", 0) => has_return' = FALSE
  /\ Here("NFUN", 3) => has_return
  /\ \/ has_return' = has_return
     \/ Here("RET", 3) \/ Here("NFUN", 0) \/ Here("NFUN", 3)

\* Names that are used have been looked for and found.
NamesHandled ==
  /\ Here("VAR", 3) \/ Here("ASS", 3) => Visible(name_scope, Top.node.value)
  /\ Here("CALL", 3) =>
       /\ Defined(Top.node.value)
       /\ func_array_find_func(Top.node.value).arg_cnt = ChainOf(Top.node.right)

\* Each handler of compile_node does to the scopes, to the flag and to the names one
\* of the things listed above.
LEMMA Handled ==
  ASSUME HandleNode
  PROVE  ScopesHandled /\ ReturnsHandled /\ NamesHandled
<1> USE DEF Handling, ScopesHandled, ReturnsHandled, NamesHandled, Here, scoping, returns,
             COMPILING_LEFT, COMPILED_LEFT, COMPILING_RIGHT, COMPILED_RIGHT
<1>1. CASE compile_NVAR
  BY <1>1 DEF compile_NVAR
<1>2. CASE compile_ASS
  BY <1>2 DEF compile_ASS
<1>3. CASE compile_VAR
  BY <1>3 DEF compile_VAR
<1>4. CASE compile_CONST \/ compile_OP_dividend \/ compile_OP
  BY <1>4 DEF compile_CONST, compile_OP_dividend, compile_OP
<1>5. CASE compile_CALL
  BY <1>5 DEF compile_CALL
<1>6. CASE compile_RET
  BY <1>6 DEF compile_RET
<1>7. CASE compile_SEQ
  BY <1>7 DEF compile_SEQ
<1>8. CASE compile_BLOCK_begin \/ compile_BLOCK_end
  BY <1>8 DEF compile_BLOCK_begin, compile_BLOCK_end
<1>9. CASE compile_WHILE_start \/ compile_WHILE_test \/ compile_WHILE_end
  BY <1>9 DEF compile_WHILE_start, compile_WHILE_test, compile_WHILE_end
<1>10. CASE compile_BRANCH_test \/ compile_BRANCH_else \/ compile_BRANCH_end
  BY <1>10 DEF compile_BRANCH_test, compile_BRANCH_else, compile_BRANCH_end
<1>11. CASE compile_NFUN_begin
  BY <1>11 DEF compile_NFUN_begin
<1>12. CASE compile_NFUN_body
  BY <1>12 DEF compile_NFUN_body
<1>13. CASE compile_NFUN_end
  BY <1>13 DEF compile_NFUN_end
<1>14. CASE compile_nothing
  BY <1>14 DEF compile_nothing, Acts
<1> QED BY <1>1, <1>2, <1>3, <1>4, <1>5, <1>6, <1>7, <1>8, <1>9, <1>10, <1>11, <1>12,
           <1>13, <1>14 DEF HandleNode

-----------------------------------------------------------------------------
(* The open blocks and the tables.                                         *)

\* The open blocks up to an activation.
BlocksTo(k) == {i \in OpenBlocks : i <= k}

\* The open blocks, and those below an activation, can be counted.
LEMMA BlockSets ==
  ASSUME walk \in Seq(Frame), NEW k \in Nat
  PROVE  /\ IsFiniteSet(OpenBlocks) /\ Cardinality(OpenBlocks) \in Nat
         /\ IsFiniteSet(BlocksTo(k)) /\ Cardinality(BlocksTo(k)) \in Nat
         /\ Cardinality(BlocksTo(k)) <= Cardinality(OpenBlocks)
         /\ \A i \in OpenBlocks : i > k => Cardinality(BlocksTo(k)) < Cardinality(OpenBlocks)
<1>1. Len(walk) \in Nat
  OBVIOUS
<1>2. IsFiniteSet(1..Len(walk))
  BY <1>1, FS_Interval
<1>3. OpenBlocks \subseteq 1..Len(walk) /\ BlocksTo(k) \subseteq OpenBlocks
  BY DEF OpenBlocks, Open, BlocksTo
<1>4. IsFiniteSet(OpenBlocks)
  BY <1>2, <1>3, FS_Subset
<1>5. IsFiniteSet(BlocksTo(k)) /\ Cardinality(BlocksTo(k)) <= Cardinality(OpenBlocks)
  BY <1>3, <1>4, FS_Subset
<1>6. ASSUME NEW i \in OpenBlocks, i > k PROVE Cardinality(BlocksTo(k)) < Cardinality(OpenBlocks)
  <2>1. i \notin BlocksTo(k)
    BY <1>1, <1>3, <1>6 DEF BlocksTo
  <2>2. BlocksTo(k) # OpenBlocks
    BY <1>6, <2>1
  <2>3. Cardinality(BlocksTo(k)) # Cardinality(OpenBlocks)
    BY <1>3, <1>4, <2>2, FS_Subset
  <2> QED BY <1>4, <1>5, <2>3, FS_CardinalityType
<1> QED BY <1>4, <1>5, <1>6, FS_CardinalityType

\* How many tables there are, by where the recursion is.
LEMMA Tables ==
  ASSUME IInv, walk # <<>>
  PROVE  /\ Subject.type \in {"NVAR", "NFUN"}
         /\ Subject.type = "NVAR" => Len(name_scope) = 1 /\ OpenBlocks = {}
         /\ Subject.type = "NFUN" =>
              /\ walk[1].stage = COMPILED_RIGHT => Len(name_scope) = 3 + Cardinality(OpenBlocks)
              /\ walk[1].stage # COMPILED_RIGHT =>
                   OpenBlocks = {} /\ Len(name_scope) = 1 + walk[1].stage
<1> USE DEF COMPILING_LEFT, COMPILED_LEFT, COMPILING_RIGHT, COMPILED_RIGHT, Subject
<1>1. walk \in Seq(Frame) /\ WalkShape /\ ScopesMatchWalk /\ Len(walk) \in Nat \ {0}
  BY HandlerState DEF IInv
<1>2. walk[1].node.type \in {"NVAR", "NFUN"} /\ walk[1].stage \in 0..3
  <2>1. walk[1] \in Frame
    BY <1>1
  <2> QED BY <1>1, <2>1 DEF WalkShape, Frame
<1>3. ASSUME walk[1].node.type = "NVAR" PROVE Len(name_scope) = 1 /\ OpenBlocks = {}
  <2>1. Len(name_scope) = 1
    BY <1>1, <1>3, InsideInitializer
  <2>2. \A i \in 1..Len(walk) : walk[i].node.type # "BLOCK"
    BY <1>1, <1>3 DEF WalkShape, ExpressionPart, Expression
  <2> QED BY <2>1, <2>2 DEF OpenBlocks, Open
<1>4. ASSUME walk[1].node.type = "NFUN"
      PROVE  Len(name_scope) = 1 + Cardinality(OpenBlocks) + (IF walk[1].stage >= 1 THEN 1 ELSE 0)
                                 + (IF walk[1].stage >= 2 THEN 1 ELSE 0)
  <2>1. ASSUME NEW i \in 2..Len(walk) PROVE walk[i].node.type # "NFUN"
    <3>1. Len(walk) > 1
      BY ONLY <1>1, i \in 2..Len(walk)
    <3>2. walk[i].node.type = "ARG" \/ walk[i].node.type \in BodyPart
      BY <1>1, <1>4, <3>1 DEF WalkShape
    <3> QED BY <3>2 DEF BodyPart, Statement, Expression
  <2>2. ASSUME NEW stage \in 1..3
        PROVE  Open("NFUN", stage) = IF walk[1].stage >= stage THEN {1} ELSE {}
    BY <1>1, <1>4, <2>1 DEF Open
  <2>3. \A stage \in 1..3 : Cardinality(Open("NFUN", stage)) = IF walk[1].stage >= stage THEN 1 ELSE 0
    BY <2>2, FS_Singleton, FS_EmptySet
  <2>4. Cardinality(OpenBlocks) \in Nat
    BY <1>1, BlockSets
  <2> QED BY <1>1, <2>3, <2>4 DEF ScopesMatchWalk, OpenParameterScopes, OpenBodyScopes
<1>5. ASSUME walk[1].node.type = "NFUN", walk[1].stage # 3 PROVE OpenBlocks = {}
  <2>1. \A i \in 1..Len(walk) : walk[i].node.type # "BLOCK"
    <3>1. \A i \in 2..Len(walk) : walk[i].node.type = "ARG"
      BY <1>1, <1>5 DEF WalkShape
    <3> QED BY <1>1, <1>5, <3>1
  <2> QED BY <2>1 DEF OpenBlocks, Open
<1>6. Cardinality({}) = 0 /\ Cardinality(OpenBlocks) \in Nat
  BY <1>1, FS_EmptySet, BlockSets
<1>7. ASSUME walk[1].node.type = "NFUN", walk[1].stage = 3
      PROVE  Len(name_scope) = 3 + Cardinality(OpenBlocks)
  BY <1>4, <1>6, <1>7
<1>8. ASSUME walk[1].node.type = "NFUN", walk[1].stage # 3
      PROVE  Len(name_scope) = 1 + walk[1].stage
  <2>1. OpenBlocks = {}
    BY <1>5, <1>8
  <2>2. Cardinality(OpenBlocks) = 0
    BY <1>6, <2>1
  <2>3. walk[1].stage \in 0..2
    BY <1>2, <1>8
  <2> QED BY <1>4, <1>8, <2>2, <2>3
<1> QED BY <1>2, <1>3, <1>5, <1>7, <1>8

\* The open blocks when a handler has proceeded.
LEMMA BlocksAfter ==
  ASSUME Walking
  PROVE  /\ \A k \in 1..(Len(walk) - 1) : k \in OpenBlocks' <=> k \in OpenBlocks
         /\ \A k \in OpenBlocks' : k < Len(walk) \/ (Here("BLOCK", 2) /\ k = Len(walk))
         /\ OpenBlocks' \subseteq 1..Len(walk') /\ OpenBlocks \subseteq 1..Len(walk)
         /\ \A k \in OpenBlocks : k = Len(walk) => Here("BLOCK", 3)
         /\ Here("BLOCK", 3) => Len(walk) \in OpenBlocks
         /\ \A k \in 1..(Len(walk) - 1) : BlocksTo(k)' = BlocksTo(k)
<1> USE DEF COMPILING_LEFT, COMPILED_LEFT, COMPILING_RIGHT, COMPILED_RIGHT
<1>1. PICK n \in Nat \ {0} : n = Len(walk)
  BY WalkingTypes
<1>2. PICK m \in Nat : m = Len(walk')
  BY WalkingTypes
<1>3. /\ m \in (n - 1)..(n + 1)
      /\ Top.stage = 3 => m = n - 1
      /\ Top.stage # 3 => m >= n /\ walk'[n].node = Top.node /\ walk'[n].stage = Top.stage + 1
      /\ m = n + 1 => walk'[m].stage = 0
      /\ \A i \in 1..(n - 1) : walk'[i] = walk[i]
      /\ Top = walk[n] /\ Top.stage \in 0..3
  BY <1>1, <1>2, WalkingTypes, ProceedWalk DEF Walking
<1>4. ASSUME NEW k \in 1..(n - 1) PROVE k \in OpenBlocks' <=> k \in OpenBlocks
  BY <1>1, <1>2, <1>3 DEF OpenBlocks, Open
<1>5. ASSUME NEW k \in OpenBlocks' PROVE k < n \/ (Here("BLOCK", 2) /\ k = n)
  <2>1. k \in 1..m /\ walk'[k].node.type = "BLOCK" /\ walk'[k].stage >= 3
    BY <1>2 DEF OpenBlocks, Open
  <2>2. k # n + 1
    BY <1>3, <2>1
  <2>3. k = n => Here("BLOCK", 2)
    BY <1>3, <2>1 DEF Here
  <2> QED BY <1>3, <2>1, <2>2, <2>3
<1>6. \A k \in OpenBlocks : k = n => Here("BLOCK", 3)
  BY <1>1, <1>3 DEF OpenBlocks, Open, Here
<1>7. Here("BLOCK", 3) => n \in OpenBlocks
  BY <1>1, <1>3 DEF OpenBlocks, Open, Here
<1>8. OpenBlocks' \subseteq 1..m /\ OpenBlocks \subseteq 1..n
  BY <1>1, <1>2 DEF OpenBlocks, Open
<1>9. ASSUME NEW k \in 1..(n - 1) PROVE BlocksTo(k)' = BlocksTo(k)
  <2>1. \A i \in OpenBlocks' : i <= k => i \in 1..(n - 1)
    BY <1>3, <1>8
  <2>2. \A i \in OpenBlocks : i <= k => i \in 1..(n - 1)
    BY <1>3, <1>8
  <2> QED BY <1>4, <2>1, <2>2 DEF BlocksTo
<1> QED BY <1>1, <1>2, <1>4, <1>5, <1>6, <1>7, <1>8, <1>9

\* A name that is declared joins those of the innermost table.
LEMMA DeclaredBy ==
  ASSUME NEW tables \in Seq(VarTable), tables # <<>>, NEW name \in Name,
         NEW n \in Nat, n = Len(tables)
  PROVE  \A x : Declares(add_var(tables, name)[n], x) <=> Declares(tables[n], x) \/ x = name
<1> DEFINE last == tables[n]
<1>1. n \in 1..Len(tables) /\ last \in VarTable /\ Innermost(tables) = last
  BY DEF Innermost
<1>2. CASE Declares(last, name)
  <2>1. add_var(tables, name) = tables
    BY <1>1, <1>2 DEF add_var
  <2> QED BY <1>2, <2>1
<1>3. CASE ~ Declares(last, name)
  <2> DEFINE more == [last EXCEPT !.vars = Append(last.vars, name)]
  <2>1. last.vars \in Seq(Name)
    BY <1>1 DEF VarTable
  <2>2. PICK v : v = last.vars
    OBVIOUS
  <2>3. PICK k \in Nat : k = Len(v)
    BY <2>1, <2>2
  <2>4. PICK w : w = Append(v, name)
    OBVIOUS
  <2>5. Len(w) = k + 1 /\ w[k + 1] = name /\ \A i \in 1..k : w[i] = v[i]
    BY <2>1, <2>2, <2>3, <2>4, AppendProperties
  <2>6. more.vars = w /\ more \in VarTable
    <3>1. w \in Seq(Name)
      BY <2>1, <2>2, <2>4, AppendProperties
    <3> QED BY <1>1, <2>2, <2>4, <3>1 DEF VarTable
  <2> HIDE DEF more
  <2>7. add_var(tables, name)[n] = more
    <3>1. add_var(tables, name) = [tables EXCEPT ![n] = more]
      BY <1>1, <1>3 DEF add_var, more
    <3> QED BY <1>1, <2>6, <3>1, ExceptSeq
  <2>8. ASSUME NEW x PROVE Declares(more, x) <=> Declares(last, x) \/ x = name
    <3>1. Declares(more, x) <=> \E i \in 1..(k + 1) : w[i] = x
      BY <2>5, <2>6 DEF Declares
    <3>2. Declares(last, x) <=> \E i \in 1..k : v[i] = x
      BY <2>2, <2>3 DEF Declares
    <3>3. 1..(k + 1) = (1..k) \cup {k + 1}
      BY <2>3
    <3> QED BY <2>5, <3>1, <3>2, <3>3
  <2> QED BY <2>7, <2>8
<1> QED BY <1>2, <1>3

\* What the handlers do to the tables.
LEMMA TablesHandled ==
  ASSUME Walking, ScopesHandled, NEW l \in Nat, l = Len(name_scope),
         NEW r \in Nat, r = Len(name_scope')
  PROVE  /\ l >= 1
         /\ Here("NVAR", 3) =>
              /\ r = l
              /\ \A x : Declares(name_scope'[l], x)
                          <=> Declares(name_scope[l], x) \/ x = Top.node.value
         /\ Here("BLOCK", 2) \/ Here("NFUN", 0) \/ Here("NFUN", 1) =>
              r = l + 1 /\ \A x : ~ Declares(name_scope'[r], x)
         /\ Here("BLOCK", 3) => r = l - 1
         /\ Here("NFUN", 3) => r = 1 /\ l = 3
         /\ \/ r = l \/ Here("BLOCK", 2) \/ Here("BLOCK", 3)
            \/ Here("NFUN", 0) \/ Here("NFUN", 1) \/ Here("NFUN", 3)
         /\ \A u \in 1..r : u < l \/ (u = l /\ ~ Here("NVAR", 3)) => name_scope'[u] = name_scope[u]
<1>1. name_scope \in Seq(VarTable) /\ name_scope # <<>> /\ l >= 1
  <2>1. name_scope \in Seq(VarTable) /\ name_scope # <<>>
    BY HandlerState DEF Walking
  <2> QED BY <2>1, EmptySeq
<1> DEFINE Opens == Here("BLOCK", 2) \/ Here("NFUN", 0) \/ Here("NFUN", 1)
<1>2. /\ Here("NVAR", 3) => ~ Here("BLOCK", 3) /\ ~ Here("NFUN", 3) /\ ~ Opens
      /\ Here("BLOCK", 3) => ~ Here("NFUN", 3) /\ ~ Opens
      /\ Here("NFUN", 3) => ~ Opens
  BY DEF Here
<1>3. CASE Here("NVAR", 3)
  <2>1. name_scope' = add_var(name_scope, Top.node.value)
    BY <1>3 DEF ScopesHandled
  <2>2. Top.node.value \in Name
    BY <1>3, WalkingTypes, NodeFields DEF Here, Named
  <2>3. /\ r = l
        /\ \A t \in 1..(l - 1) : name_scope'[t] = name_scope[t]
        /\ \A x : Declares(name_scope'[l], x) <=> Declares(name_scope[l], x) \/ x = Top.node.value
    <3>1. PICK v \in Name : v = Top.node.value
      BY <2>2
    <3>2. Len(add_var(name_scope, v)) = Len(name_scope)
          /\ \A t \in 1..(Len(name_scope) - 1) : add_var(name_scope, v)[t] = name_scope[t]
      BY ONLY <1>1, <3>1, AddVar
    <3>3. \A x : Declares(add_var(name_scope, v)[l], x) <=> Declares(name_scope[l], x) \/ x = v
      <4>1. /\ name_scope \in Seq(VarTable) /\ name_scope # <<>> /\ v \in Name
            /\ l \in Nat /\ l = Len(name_scope)
        BY <1>1
      <4> QED BY ONLY <4>1, DeclaredBy, Zenon
    <3>4. name_scope' = add_var(name_scope, v)
      BY <2>1, <3>1
    <3> QED BY ONLY <3>1, <3>2, <3>3, <3>4, l = Len(name_scope), r = Len(name_scope')
  <2> HIDE DEF Opens
  <2>4. \A u \in 1..r : u < l => name_scope'[u] = name_scope[u]
    BY <2>3
  <2> QED BY <1>1, <1>2, <1>3, <2>3, <2>4 DEF Opens
<1>4. CASE Opens
  <2>1. PICK i : name_scope' = add_table(name_scope, i)
    BY <1>4 DEF ScopesHandled
  <2> DEFINE table == var_table(i, FALSE)
             S == VarTable \cup {table}
  <2>2. \A x : ~ Declares(table, x)
    BY DEF Declares, var_table
  <2>3. name_scope' = Append(name_scope, table)
    BY <2>1 DEF add_table
  <2> HIDE DEF table
  <2>4. name_scope \in Seq(S)
    BY <1>1
  <2> HIDE DEF S
  <2>5. table \in S
    BY DEF S
  <2>6. /\ r = l + 1 /\ name_scope'[l + 1] = table
        /\ \A u \in 1..l : name_scope'[u] = name_scope[u]
    BY <2>3, <2>4, <2>5, AppendProperties
  <2>7. \A u \in 1..r : u < l \/ u = l => name_scope'[u] = name_scope[u]
    BY <2>6
  <2>8. ~ Here("NVAR", 3) /\ ~ Here("BLOCK", 3) /\ ~ Here("NFUN", 3)
    BY <1>2, <1>4
  <2>9. Opens => r = l + 1 /\ \A x : ~ Declares(name_scope'[r], x)
    BY <2>2, <2>6
  <2> QED BY ONLY <1>1, <1>4, <2>7, <2>8, <2>9
<1>5. CASE Here("BLOCK", 3)
  <2>1. name_scope' = pop_table(name_scope)
    BY <1>5 DEF ScopesHandled
  <2>2. r = l - 1 /\ \A u \in 1..(l - 1) : name_scope'[u] = name_scope[u]
    BY <1>1, <2>1, PopTable
  <2> QED BY <1>1, <1>2, <1>5, <2>2
<1>6. CASE Here("NFUN", 3)
  <2>1. name_scope' = pop_table(pop_table(name_scope))
    BY <1>6 DEF ScopesHandled
  <2>2. l = 3
    <3>1. IInv /\ walk # <<>> /\ Top.node.type = "NFUN" /\ Top.stage = 3
      BY <1>6 DEF Here, Walking
    <3>2. Len(name_scope) = IF Top.stage = 0 THEN 1 ELSE IF Top.stage = 1 THEN 2 ELSE 3
      BY ONLY <3>1, FunctionScopes
    <3> QED BY <3>1, <3>2
  <2>3. PICK inner : inner = pop_table(name_scope)
    OBVIOUS
  <2>4. /\ inner \in Seq(VarTable) /\ Len(inner) = Len(name_scope) - 1
        /\ \A t \in 1..(Len(name_scope) - 1) : inner[t] = name_scope[t]
    BY ONLY <1>1, <2>3, PopTable
  <2>5. Len(inner) = 2 /\ inner[1] = name_scope[1] /\ inner # <<>>
    <3>1. Len(name_scope) = 3
      BY <2>2
    <3>2. Len(inner) = 2
      BY ONLY <2>4, <3>1
    <3>3. inner[1] = name_scope[1]
      BY ONLY <2>4, <3>1
    <3> QED BY <3>2, <3>3
  <2>6. Len(pop_table(inner)) = 1 /\ pop_table(inner)[1] = inner[1]
    <3>1. /\ Len(pop_table(inner)) = Len(inner) - 1
          /\ \A t \in 1..(Len(inner) - 1) : pop_table(inner)[t] = inner[t]
      BY ONLY <2>4, <2>5, PopTable
    <3> QED BY <2>5, <3>1
  <2>7. r = 1 /\ name_scope'[1] = name_scope[1]
    BY <2>1, <2>3, <2>5, <2>6
  <2>8. \A u \in 1..r : name_scope'[u] = name_scope[u]
    BY <2>7
  <2> QED BY <1>2, <1>6, <2>2, <2>7, <2>8
<1>7. CASE ~ (Here("NVAR", 3) \/ Opens \/ Here("BLOCK", 3) \/ Here("NFUN", 3))
  <2>1. name_scope' = name_scope
    BY <1>7 DEF ScopesHandled
  <2> QED BY <1>1, <1>7, <2>1
<1> QED BY <1>3, <1>4, <1>5, <1>6, <1>7

-----------------------------------------------------------------------------
(* The tables hold what is visible.                                        *)

\* Tables that stay hold the names they held.
LEMMA NamesKept ==
  ASSUME NEW t \in Int, \A u \in 1..t : name_scope'[u] = name_scope[u]
  PROVE  NamesIn(t)' = NamesIn(t)
BY DEF NamesIn

\* One more table adds the names it declares.
LEMMA NamesAbove ==
  ASSUME NEW t \in Nat, NEW s \in Nat, s = t + 1
  PROVE  /\ NamesIn(s) = NamesIn(t) \cup {x \in Name : Declares(name_scope[s], x)}
         /\ NamesIn(s)' = NamesIn(t)' \cup {x \in Name : Declares(name_scope'[s], x)}
<1>1. 1..s = (1..t) \cup {s}
  OBVIOUS
<1> QED BY <1>1 DEF NamesIn

\* Where a recursion is when it is neither at the function nor at a parameter.
LEMMA InBody ==
  ASSUME IInv, walk # <<>>, Top.node.type \notin {"NFUN", "ARG"}, Subject.type = "NFUN"
  PROVE  /\ walk[1].stage = COMPILED_RIGHT /\ Len(walk) >= 2
         /\ walk[2].node.type = "BLOCK"
         /\ \A i \in 2..Len(walk) : walk[i].node.type \in BodyPart
<1>1. walk \in Seq(Frame) /\ WalkShape
  BY HandlerState DEF IInv
<1>2. PICK n \in Nat \ {0} : n = Len(walk)
  BY <1>1, EmptySeq
<1>3. n # 1 /\ Top = walk[n]
  BY <1>2 DEF Top, Subject
<1>4. n \in 2..n
  BY <1>2, <1>3
<1> QED BY <1>1, <1>2, <1>3, <1>4 DEF WalkShape, Subject

\* Blocks are in functions only.
LEMMA BlockInBody ==
  ASSUME IInv, walk # <<>>, Top.node.type = "BLOCK"
  PROVE  Subject.type = "NFUN"
<1>1. walk \in Seq(Frame) /\ WalkShape
  BY HandlerState DEF IInv
<1>2. PICK n \in Nat \ {0} : n = Len(walk)
  BY <1>1, EmptySeq
<1>3. Top = walk[n] /\ (n = 1 \/ n \in 2..n)
  BY <1>2 DEF Top
<1> QED BY <1>1, <1>2, <1>3 DEF WalkShape, Subject, ExpressionPart, Expression

\* The tables go on holding what is visible: compile_NVAR adds a name, compile_BLOCK
\* and compile_NFUN add a table for what is inside and drop it at its end.
LEMMA ScopesHeld ==
  ASSUME Walking, IInv', walk' # <<>>, ScopesHandled, ScopesHold
  PROVE  ScopesHold'
<1> USE DEF COMPILING_LEFT, COMPILED_LEFT, COMPILING_RIGHT, COMPILED_RIGHT
<1>1. PICK n \in Nat \ {0} : n = Len(walk)
  BY WalkingTypes
<1>2. PICK m \in Nat : m = Len(walk')
  BY WalkingTypes
<1>3. PICK l \in Nat : l = Len(name_scope)
  BY HandlerState DEF Walking
<1>4. PICK r \in Nat : r = Len(name_scope')
  <2>1. name_scope' \in Seq(VarTable)
    BY DEF IInv, TypeOK
  <2> QED BY <2>1
<1>5. IInv /\ walk # <<>> /\ walk \in Seq(Frame) /\ Proceed /\ Top.node \in Node
  BY WalkingTypes DEF Walking
<1>6. ~ Here("NFUN", 3)
  <2>1. Here("NFUN", 3) => n = 1
    BY <1>1, <1>5, AtFunction DEF Here, IInv
  <2>2. Here("NFUN", 3) => m = n - 1
    BY <1>1, <1>2, <1>5, ProceedWalk DEF Here
  <2>3. m # 0
    BY <1>2, WalkingTypes, EmptySeq
  <2> QED BY <2>1, <2>2, <2>3
<1>7. /\ l >= 1
      /\ Here("NVAR", 3) => r = l
      /\ Here("BLOCK", 2) \/ Here("NFUN", 0) \/ Here("NFUN", 1) => r = l + 1
      /\ Here("BLOCK", 3) => r = l - 1
      /\ \/ r = l \/ Here("BLOCK", 2) \/ Here("BLOCK", 3) \/ Here("NFUN", 0) \/ Here("NFUN", 1)
      /\ \A u \in 1..r : u < l \/ (u = l /\ ~ Here("NVAR", 3)) => name_scope'[u] = name_scope[u]
  BY ONLY Walking, ScopesHandled, <1>3, <1>4, <1>6, TablesHandled
<1>8. NamesIn(l) = SeenNow
  BY <1>3 DEF ScopesHold, NamesIn
<1>9. ASSUME NEW k \in OpenBlocks', k < n
      PROVE  NamesIn(2 + Cardinality(BlocksTo(k)))' = SeenBy(k)'
  <2>1. k \in 1..(n - 1) /\ k \in 1..m /\ k \in OpenBlocks /\ BlocksTo(k)' = BlocksTo(k)
    BY <1>1, <1>2, <1>9, BlocksAfter
  <2>2. PICK t \in Nat : t = 2 + Cardinality(BlocksTo(k))
    BY <1>5, <2>1, BlockSets
  <2>3. t <= l - 1
    <3>1. Cardinality(BlocksTo(k)) <= Cardinality(OpenBlocks) /\ Cardinality(OpenBlocks) \in Nat
          /\ Cardinality(BlocksTo(k)) \in Nat
      BY <1>5, <2>1, BlockSets
    <3>2. l = 3 + Cardinality(OpenBlocks)
      BY <1>3, <1>5, <2>1, Tables
    <3> QED BY <2>2, <3>1, <3>2
  <2>4. t <= r
    BY <1>7, <2>3
  <2>5. NamesIn(t)' = NamesIn(t)
    BY <1>7, <2>3, <2>4, NamesKept
  <2>6. NamesIn(t) = SeenBy(k)
    BY <2>1, <2>2 DEF ScopesHold, BlocksTo, NamesIn
  <2>7. SeenBy(k)' = SeenBy(k)
    BY <1>1, <1>2, <2>1, SeenKept
  <2>8. NamesIn(t)' = SeenBy(k)'
    BY <2>5, <2>6, <2>7
  <2> QED BY <2>1, <2>2, <2>8 DEF NamesIn
<1>10. ASSUME Here("BLOCK", 2) \/ Here("BLOCK", 3)
       PROVE  /\ Subject.type = "NFUN" /\ l = 3 + Cardinality(OpenBlocks)
              /\ Cardinality(OpenBlocks) \in Nat
  <2>1. Subject.type = "NFUN" /\ walk[1].stage = 3
    BY <1>5, <1>10, BlockInBody, InBody DEF Here
  <2> QED BY <1>3, <1>5, <2>1, Tables, BlockSets
<1>11. ASSUME Here("BLOCK", 2)
       PROVE  NamesIn(2 + Cardinality(BlocksTo(n)))' = SeenBy(n)'
  <2>1. BlocksTo(n)' = OpenBlocks'
    <3>1. \A i \in OpenBlocks' : i <= n
      BY <1>1, <1>2, BlocksAfter
    <3> QED BY <3>1 DEF BlocksTo
  <2>2. Cardinality(OpenBlocks') = Cardinality(OpenBlocks) + 1
    BY <1>5, <1>11, ScopesAfter DEF Here
  <2>3. l = 2 + Cardinality(BlocksTo(n)')
    BY <1>10, <1>11, <2>1, <2>2
  <2>4. NamesIn(l)' = NamesIn(l)
    <3>1. ~ Here("NVAR", 3)
      BY <1>11 DEF Here
    <3> QED BY <1>7, <1>11, <3>1, NamesKept
  <2>5. SeenNow = SeenBy(n)
    <3>1. PICK p \in Nat : p = n + 1
      OBVIOUS
    <3>2. SeenNow = SeenBy(n) \cup Added(n)
      BY <1>1, <3>1, SeenBehind
    <3>3. Added(n) = Binds[Top.node.left]
      BY <1>1, <1>5, <1>11, AddedAtTop DEF Here
    <3>4. Binds[Top.node.left] = {}
      BY <1>5, <1>11, DeclaredNames DEF Here
    <3> QED BY <3>2, <3>3, <3>4
  <2>6. SeenBy(n)' = SeenBy(n)
    <3>1. n <= m
      BY <1>1, <1>2, <1>5, <1>11, ProceedWalk DEF Here
    <3> QED BY <1>1, <1>2, <3>1, SeenKept
  <2>7. NamesIn(l)' = SeenBy(n)'
    BY <1>8, <2>4, <2>5, <2>6
  <2> QED BY <2>3, <2>7 DEF NamesIn
<1>12. \A k \in OpenBlocks' : NamesIn(2 + Cardinality(BlocksTo(k)))' = SeenBy(k)'
  <2>1. \A k \in OpenBlocks' : k < n \/ (Here("BLOCK", 2) /\ k = n)
    BY <1>1, BlocksAfter
  <2> QED BY <1>9, <1>11, <2>1
<1> DEFINE Goal == NamesIn(r)' = SeenNow' /\ (Subject.type = "NFUN" => NamesIn(1)' = NamesIn(1))
<1>13. ASSUME Here("NVAR", 3)
       PROVE  Goal
  <2>1. r = l /\ \A x : Declares(name_scope'[l], x) <=> Declares(name_scope[l], x) \/ x = Top.node.value
    BY ONLY Walking, ScopesHandled, <1>3, <1>4, <1>13, TablesHandled
  <2>2. PICK t \in Nat : l = t + 1
    BY <1>7
  <2>3. NamesIn(t)' = NamesIn(t)
    BY <1>7, <2>1, <2>2, NamesKept
  <2>4. Top.node.value \in Name
    BY <1>5, <1>13, NodeFields DEF Here, Named
  <2>5. NamesIn(l)' = NamesIn(l) \cup {Top.node.value}
    <3>1. /\ NamesIn(l) = NamesIn(t) \cup {x \in Name : Declares(name_scope[l], x)}
          /\ NamesIn(l)' = NamesIn(t)' \cup {x \in Name : Declares(name_scope'[l], x)}
      BY <2>2, NamesAbove
    <3> QED BY <2>1, <2>3, <2>4, <3>1
  <2>6. /\ Binds[Top.node] = {Top.node.value}
        /\ Binds[Top.node.left] = {} /\ Binds[Top.node.right] = {}
    BY <1>5, <1>13, DeclaredNames DEF Here
  <2>7. SeenNow' = SeenNow \cup {Top.node.value}
    BY <1>1, <1>13, <2>6, SeenLeaving DEF Here
  <2>8. NamesIn(r)' = SeenNow'
    BY <1>8, <2>1, <2>5, <2>7
  <2>9. Subject.type = "NFUN" => l >= 3
    <3>1. Subject.type = "NFUN" => walk[1].stage = 3
      BY <1>5, <1>13, InBody DEF Here
    <3> QED BY <1>3, <1>5, <3>1, Tables, BlockSets
  <2>10. Subject.type = "NFUN" => NamesIn(1)' = NamesIn(1)
    BY <1>7, <2>1, <2>9, NamesKept
  <2> QED BY <2>8, <2>10
<1>14. ASSUME Here("BLOCK", 2) \/ Here("NFUN", 0) \/ Here("NFUN", 1)
       PROVE  Goal
  <2>1. /\ r = l + 1 /\ \A x : ~ Declares(name_scope'[r], x)
    BY ONLY Walking, ScopesHandled, <1>3, <1>4, <1>14, TablesHandled
  <2>2. ~ Here("NVAR", 3)
    BY <1>14 DEF Here
  <2>3. NamesIn(l)' = NamesIn(l) /\ NamesIn(1)' = NamesIn(1)
    BY <1>7, <2>1, <2>2, NamesKept
  <2>4. NamesIn(r)' = NamesIn(l)
    <3>1. NamesIn(r)' = NamesIn(l)' \cup {x \in Name : Declares(name_scope'[r], x)}
      BY <2>1, NamesAbove
    <3>2. {x \in Name : Declares(name_scope'[r], x)} = {}
      BY <2>1
    <3> QED BY <2>3, <3>1, <3>2
  <2>5. SeenNow' = SeenNow
    BY <1>14, SeenUnchanged DEF Here
  <2> QED BY <1>8, <2>3, <2>4, <2>5
<1>15. ASSUME Here("BLOCK", 3)
       PROVE  Goal
  <2>1. r = l - 1 /\ l = 3 + Cardinality(OpenBlocks) /\ Cardinality(OpenBlocks) \in Nat
    BY <1>7, <1>10, <1>15
  <2>2. NamesIn(r)' = NamesIn(r) /\ NamesIn(1)' = NamesIn(1)
    BY <1>7, <2>1, NamesKept
  <2>3. BlocksTo(n) = OpenBlocks /\ n \in OpenBlocks
    <3>1. \A i \in OpenBlocks : i <= n
      BY <1>1, BlocksAfter
    <3> QED BY <1>1, <1>15, <3>1, BlocksAfter DEF BlocksTo
  <2>4. NamesIn(2 + Cardinality(BlocksTo(n))) = SeenBy(n)
    BY <2>3 DEF ScopesHold, BlocksTo
  <2>5. NamesIn(r) = SeenBy(n)
    BY <2>1, <2>3, <2>4
  <2>6. Binds[Top.node] = {}
    BY <1>5, <1>15, DeclaredNames DEF Here
  <2>7. SeenNow' = SeenBy(n)
    BY <1>1, <1>15, <2>6, SeenLeaving DEF Here
  <2> QED BY <2>2, <2>5, <2>7
<1>16. ASSUME ~ (Here("NVAR", 3) \/ Here("BLOCK", 2) \/ Here("BLOCK", 3) \/ Here("NFUN", 0) \/ Here("NFUN", 1))
       PROVE  Goal
  <2>1. r = l
    BY <1>7, <1>16
  <2>2. NamesIn(l)' = NamesIn(l) /\ NamesIn(1)' = NamesIn(1)
    BY <1>7, <1>16, <2>1, NamesKept
  <2>3. SeenNow' = SeenNow
    BY <1>5, <1>16, SeenUnchanged, WalkingTypes DEF Here
  <2> QED BY <1>8, <2>1, <2>2, <2>3
<1>17. Goal
  BY <1>13, <1>14, <1>15, <1>16
<1>18. NamesIn(Len(name_scope))' = SeenNow'
  BY <1>4, <1>17 DEF NamesIn
<1>19. (walk # <<>> /\ Subject.type = "NFUN" => NamesIn(1) = GlobalNames)'
  BY <1>5, <1>17, ContextKept DEF ScopesHold
<1> QED BY <1>12, <1>18, <1>19 DEF ScopesHold, BlocksTo

-----------------------------------------------------------------------------
(* What is still to be looked for.                                         *)

\* It stays as it is for the activations below the top.
LEMMA ToComeBelow ==
  ASSUME Walking, NEW k \in 1..(Len(walk) - 1), k <= Len(walk')
  PROVE  /\ walk'[k] = walk[k]
         /\ NamesToCome(k)' = NamesToCome(k)
         /\ CallsToCome(k)' = CallsToCome(k)
         /\ ReturnToCome(k)' <=> ReturnToCome(k)
         /\ SeenBy(k)' = SeenBy(k)
<1>1. walk'[k] = walk[k]
  BY WalkingTypes, ProceedWalk DEF Walking
<1>2. k \in 1..Len(walk) /\ walk' # <<>>
  BY WalkingTypes
<1>3. SeenBy(k)' = SeenBy(k)
  BY <1>2, SeenKept
<1>4. NamesToCome(k)' = NamesToCome(k)
  BY <1>1 DEF NamesToCome
<1>5. CallsToCome(k)' = CallsToCome(k)
  BY <1>1 DEF CallsToCome
<1>6. ReturnToCome(k)' <=> ReturnToCome(k)
  BY <1>1 DEF ReturnToCome
<1> QED BY <1>1, <1>3, <1>4, <1>5, <1>6

\* A node that is entered will look for all its tree needs.
LEMMA ToComeEntered ==
  ASSUME Walking, NEW m \in Nat, m = Len(walk'), m = Len(walk) + 1
  PROVE  /\ walk'[m].node \in Node
         /\ \/ Top.stage = COMPILING_LEFT /\ walk'[m].node = Top.node.left
            \/ Top.stage = COMPILING_RIGHT /\ walk'[m].node = Top.node.right
         /\ NamesToCome(m)' = Free[walk'[m].node]
         /\ CallsToCome(m)' = CallsOf[walk'[m].node]
         /\ ReturnToCome(m)' <=>
              IF walk'[m].node.type = "BLOCK" THEN ReturnsItself[walk'[m].node.right]
              ELSE ReturnsItself[walk'[m].node]
<1>1. /\ walk'[m].stage = 0
      /\ \/ Top.stage = COMPILING_LEFT /\ walk'[m].node = Top.node.left
         \/ Top.stage = COMPILING_RIGHT /\ walk'[m].node = Top.node.right
  BY WalkingTypes, ProceedWalk DEF Walking, COMPILING_LEFT
<1>2. PICK c \in Node : c = walk'[m].node
  <2>1. m \in 1..Len(walk')
    BY WalkingTypes
  <2> QED BY <2>1, WalkingTypes
<1>3. NamesToCome(m)' = Free[c]
  <2>1. NamesToCome(m)' = (IF c.type \in {"VAR", "ASS"} THEN {c.value} ELSE {})
      \cup (IF c.type # "NFUN" THEN Free[c.left] ELSE {}) \cup (Free[c.right] \ Binds[c.left])
    BY <1>1, <1>2 DEF NamesToCome, COMPILING_LEFT, COMPILED_RIGHT
  <2> QED BY <2>1, FreeOf
<1>4. CallsToCome(m)' = CallsOf[c]
  <2>1. CallsToCome(m)' = (IF c.type = "CALL" THEN {<<c.value, ChainOf(c.right)>>} ELSE {})
                             \cup CallsOf[c.left] \cup CallsOf[c.right]
    BY <1>1, <1>2 DEF CallsToCome, COMPILING_LEFT, COMPILED_RIGHT
  <2> QED BY <2>1, CallsOfOf
<1>5. ReturnToCome(m)' <=> IF c.type = "BLOCK" THEN ReturnsItself[c.right] ELSE ReturnsItself[c]
  <2>1. ReturnToCome(m)' <=>
          \/ c.type = "RET"
          \/ /\ c.type \in {"SEQ", "IF", "WHILE", "BRANCH", "BLOCK"}
             /\ ReturnsItself[c.left] \/ ReturnsItself[c.right]
    BY <1>1, <1>2 DEF ReturnToCome, COMPILING_LEFT, COMPILED_RIGHT
  <2>2. c.type = "BLOCK" => c.left = NULL
    <3>1. c.type = "BLOCK" => LeftChild(c.type) = {"none"}
      BY DEF LeftChild
    <3>2. c.left # NULL => c.left.type \in LeftChild(c.type) /\ c.left.type \in NodeType
      BY <1>2, Children, NodeFields
    <3> QED BY <3>1, <3>2 DEF NodeType, Statement, Expression
  <2> QED BY <2>1, <2>2, ReturnsItselfOf
<1> QED BY <1>1, <1>2, <1>3, <1>4, <1>5

\* What the activation on top still looks for, before and after the handler.
LEMMA ToComeAtTop ==
  ASSUME Walking, Top.stage # COMPILED_RIGHT, NEW n \in Nat, n = Len(walk)
  PROVE  /\ walk'[n].node = Top.node
         /\ Top.stage = COMPILING_LEFT =>
              /\ NamesToCome(n) = NamesToCome(n)'
                                    \cup (IF Top.node.type # "NFUN" THEN Free[Top.node.left] ELSE {})
              /\ CallsToCome(n) = CallsToCome(n)' \cup CallsOf[Top.node.left]
         /\ Top.stage = COMPILED_LEFT =>
              NamesToCome(n) = NamesToCome(n)' /\ CallsToCome(n) = CallsToCome(n)'
         /\ Top.stage = COMPILING_RIGHT =>
              /\ NamesToCome(n) = NamesToCome(n)' \cup (Free[Top.node.right] \ Binds[Top.node.left])
              /\ CallsToCome(n) = CallsToCome(n)' \cup CallsOf[Top.node.right]
<1> USE DEF COMPILING_LEFT, COMPILED_LEFT, COMPILING_RIGHT, COMPILED_RIGHT
<1>1. /\ walk[n] = Top /\ Top.stage \in 0..2
      /\ walk'[n].node = Top.node /\ walk'[n].stage = Top.stage + 1
  BY WalkingTypes, ProceedWalk DEF Walking
<1>2. PICK s \in 0..2 : s = Top.stage
  BY <1>1
<1>3. NamesToCome(n) = (IF Top.node.type \in {"VAR", "ASS"} THEN {Top.node.value} ELSE {})
      \cup (IF s = 0 /\ Top.node.type # "NFUN" THEN Free[Top.node.left] ELSE {})
      \cup (Free[Top.node.right] \ Binds[Top.node.left])
  BY <1>1, <1>2 DEF NamesToCome
<1>4. NamesToCome(n)' = (IF Top.node.type \in {"VAR", "ASS"} THEN {Top.node.value} ELSE {})
      \cup (IF s < 2 THEN Free[Top.node.right] \ Binds[Top.node.left] ELSE {})
  BY <1>1, <1>2 DEF NamesToCome
<1>5. CallsToCome(n) = (IF Top.node.type = "CALL" THEN {<<Top.node.value, ChainOf(Top.node.right)>>} ELSE {})
      \cup (IF s = 0 THEN CallsOf[Top.node.left] ELSE {}) \cup CallsOf[Top.node.right]
  BY <1>1, <1>2 DEF CallsToCome
<1>6. CallsToCome(n)' = (IF Top.node.type = "CALL" THEN {<<Top.node.value, ChainOf(Top.node.right)>>} ELSE {})
      \cup (IF s < 2 THEN CallsOf[Top.node.right] ELSE {})
  BY <1>1, <1>2 DEF CallsToCome
<1> QED BY <1>1, <1>2, <1>3, <1>4, <1>5, <1>6

\* A node that is left has found what it looked for.
LEMMA FoundAtTop ==
  ASSUME IInv, walk # <<>>, Top.stage = COMPILED_RIGHT, ScopesHold, Extraction,
         NamesHandled, NEW n \in Nat, n = Len(walk)
  PROVE  NamesToCome(n) \subseteq SeenBy(n) /\ CallsToCome(n) \subseteq Known
<1> USE DEF COMPILING_LEFT, COMPILED_LEFT, COMPILING_RIGHT, COMPILED_RIGHT
<1>1. walk \in Seq(Frame) /\ Top = walk[n] /\ Top.node \in Node
  BY HandlerState, TopTyped DEF Top
<1>2. NamesToCome(n) = (IF Top.node.type \in {"VAR", "ASS"} THEN {Top.node.value} ELSE {})
  BY <1>1 DEF NamesToCome
<1>3. CallsToCome(n) = (IF Top.node.type = "CALL" THEN {<<Top.node.value, ChainOf(Top.node.right)>>} ELSE {})
  BY <1>1 DEF CallsToCome
<1>4. ASSUME Top.node.type \in {"VAR", "ASS"} PROVE Top.node.value \in SeenBy(n)
  <2>1. Visible(name_scope, Top.node.value)
    BY <1>4 DEF NamesHandled, Here
  <2>2. Top.node.value \in Name
    BY <1>1, <1>4, NodeFields DEF Named
  <2>3. Top.node.value \in SeenNow
    BY <2>1, <2>2 DEF ScopesHold, NamesIn, Visible
  <2>4. Binds[Top.node.left] = {} /\ Binds[Top.node.right] = {}
    <3>1. Binds[Top.node] = Binds[Top.node.left] \cup Binds[Top.node.right]
      BY <1>1, <1>4, DeclaredNames
    <3>2. Binds[Top.node] = {}
      BY <1>1, <1>4, DeclaresNothing, Children DEF TypeOf
    <3> QED BY <3>1, <3>2
  <2>5. Added(n) = {}
    BY <1>1, <2>4, AddedAtTop
  <2>6. SeenNow = SeenBy(n) \cup Added(n)
    <3>1. PICK p \in Nat : p = n + 1
      OBVIOUS
    <3>2. n \in Nat \ {0}
      BY <1>1, EmptySeq
    <3> QED BY <3>1, <3>2, SeenBehind
  <2> QED BY <2>3, <2>5, <2>6
<1>5. ASSUME Top.node.type = "CALL" PROVE <<Top.node.value, ChainOf(Top.node.right)>> \in Known
  <2>1. /\ Defined(Top.node.value)
        /\ func_array_find_func(Top.node.value).arg_cnt = ChainOf(Top.node.right)
    BY <1>5 DEF NamesHandled, Here
  <2>2. functions \in Seq(Function)
    BY DEF IInv, TypeOK
  <2>3. PICK i \in 1..Len(functions) :
          func_array_find_func(Top.node.value) = functions[i] /\ functions[i].name = Top.node.value
    BY <2>1, <2>2, FunctionFound
  <2>4. Known = {<<functions[j].name, functions[j].arg_cnt>> : j \in 1..Len(functions)}
    BY DEF Extraction
  <2> QED BY <2>1, <2>3, <2>4
<1> QED BY <1>2, <1>3, <1>4, <1>5

\* Parameters hang on functions and on each other.
LEMMA ParameterChild ==
  ASSUME NEW n \in Node, NEW c \in Node
  PROVE  /\ c = n.left => (c.type = "ARG" <=> n.type = "NFUN") /\ n.type # "ARG"
         /\ c = n.right => (c.type = "ARG" <=> n.type = "ARG")
<1>1. n.type \in NodeType /\ c.type \in NodeType /\ c # NULL
  BY NodeFields
<1>2. ASSUME c = n.left PROVE (c.type = "ARG" <=> n.type = "NFUN") /\ n.type # "ARG"
  <2>1. c.type \in LeftChild(n.type)
    BY <1>1, <1>2, NodeFields DEF TypeOf
  <2> QED BY <1>1, <2>1 DEF LeftChild, Statement, Expression, NodeType
<1>3. ASSUME c = n.right PROVE c.type = "ARG" <=> n.type = "ARG"
  <2>1. c.type \in RightChild(n.type)
    BY <1>1, <1>3, NodeFields DEF TypeOf
  <2> QED BY <1>1, <2>1 DEF RightChild, Statement, Expression, NodeType
<1> QED BY <1>2, <1>3

\* A handler changes nothing of what the definition still has to find.
LEMMA NeedsHeld ==
  ASSUME Walking, walk' # <<>>, ScopesHold, Extraction, NamesHandled, NeedsToCome
  PROVE  NeedsToCome'
<1> USE DEF COMPILING_LEFT, COMPILED_LEFT, COMPILING_RIGHT, COMPILED_RIGHT
<1>1. PICK n \in Nat \ {0} : n = Len(walk)
  BY WalkingTypes
<1>2. PICK m \in Nat : m = Len(walk') /\ m \in (n - 1)..(n + 1)
  BY <1>1, WalkingTypes
<1>3. IInv /\ walk # <<>> /\ Top.node \in Node /\ Top.stage \in 0..3 /\ Top = walk[n]
  BY <1>1, WalkingTypes DEF Walking
<1>4. /\ Top.stage = 3 => m = n - 1
      /\ Top.stage # 3 => m \in {n, n + 1}
      /\ Top.stage = 1 => m = n
      /\ Top.stage = 0 /\ m = n => Top.node.left = NULL
      /\ Top.stage = 2 /\ m = n => Top.node.right = NULL
  BY <1>1, <1>2, WalkingTypes, ProceedWalk DEF Walking
<1> DEFINE Looks(x, k) == walk[k].node.type # "ARG" /\ x \in NamesToCome(k) /\ x \notin SeenBy(k)
           Calls(x, k) == x \in CallsToCome(k) /\ x \notin Known
<1>5. ASSUME NEW x PROVE (\E k \in 1..n : Looks(x, k)) <=> (\E k \in 1..m : Looks(x, k)')
  <2>1. ASSUME NEW k \in 1..(n - 1), k <= m PROVE Looks(x, k) <=> Looks(x, k)'
    BY <1>1, <1>2, <2>1, ToComeBelow
  <2>2. CASE Top.stage = 3
    <3>1. ~ Looks(x, n)
      BY <1>1, <1>3, <2>2, FoundAtTop
    <3> HIDE DEF Looks
    <3>2. m = n - 1
      BY <1>4, <2>2
    <3>3. 1..n = (1..m) \cup {n} /\ \A k \in 1..m : k \in 1..(n - 1) /\ k <= m
      BY <3>2
    <3> QED BY <2>1, <3>1, <3>3
  <2>3. CASE Top.stage # 3
    <3>1. /\ SeenBy(n)' = SeenBy(n) /\ walk'[n].node = Top.node
          /\ m = n + 1 =>
               /\ Top.stage = 0 => SeenBy(m)' = SeenBy(n)
               /\ Top.stage = 2 => SeenBy(m)' = SeenBy(n) \cup Binds[Top.node.left]
      BY <1>1, <1>2, <1>4, <2>3, SeenKept, ToComeAtTop, SeenEntering
    <3>2. PICK N \in Node : N = Top.node
      BY <1>3
    <3>3. Looks(x, n) <=> N.type # "ARG" /\ x \in NamesToCome(n) /\ x \notin SeenBy(n)
      BY <1>3, <3>2
    <3>4. Looks(x, n)' <=> N.type # "ARG" /\ x \in NamesToCome(n)' /\ x \notin SeenBy(n)
      BY <3>1, <3>2
    <3>5. Free[NULL] = {}
      BY FreeOf
    <3>6. ASSUME m = n + 1
          PROVE  \E c \in Node :
                   /\ \/ Top.stage = 0 /\ c = N.left
                      \/ Top.stage = 2 /\ c = N.right
                   /\ Looks(x, m)' <=> c.type # "ARG" /\ x \in Free[c] /\ x \notin SeenBy(m)'
      BY <1>1, <1>2, <3>2, <3>6, ToComeEntered
    <3>7. Looks(x, n) <=> Looks(x, n)' \/ (m = n + 1 /\ Looks(x, m)')
      <4>1. CASE Top.stage = 0 /\ m = n + 1
        <5>1. PICK c \in Node : c = N.left /\ (Looks(x, m)' <=> c.type # "ARG" /\ x \in Free[c] /\ x \notin SeenBy(m)')
          BY <3>6, <4>1
        <5>2. c.type = "ARG" <=> N.type = "NFUN"
          BY <5>1, ParameterChild
        <5>3. N.type # "ARG"
          BY <5>1, ParameterChild
        <5>4. NamesToCome(n) = NamesToCome(n)' \cup (IF N.type # "NFUN" THEN Free[c] ELSE {})
          BY <1>1, <3>2, <4>1, <5>1, ToComeAtTop
        <5>5. SeenBy(m)' = SeenBy(n)
          BY <3>1, <4>1
        <5> HIDE DEF Looks
        <5> QED BY <3>3, <3>4, <4>1, <5>1, <5>2, <5>3, <5>4, <5>5
      <4>2. CASE Top.stage = 2 /\ m = n + 1
        <5>1. PICK c \in Node : c = N.right /\ (Looks(x, m)' <=> c.type # "ARG" /\ x \in Free[c] /\ x \notin SeenBy(m)')
          BY <3>6, <4>2
        <5>2. c.type = "ARG" <=> N.type = "ARG"
          BY <5>1, ParameterChild
        <5>3. NamesToCome(n) = NamesToCome(n)' \cup (Free[c] \ Binds[N.left])
          BY <1>1, <3>2, <4>2, <5>1, ToComeAtTop
        <5>4. SeenBy(m)' = SeenBy(n) \cup Binds[N.left]
          BY <3>1, <3>2, <4>2
        <5> HIDE DEF Looks
        <5> QED BY <3>3, <3>4, <4>2, <5>1, <5>2, <5>3, <5>4
      <4>3. CASE m = n
        <5>1. NamesToCome(n) = NamesToCome(n)'
          <6>1. CASE Top.stage = 0
            <7>1. Top.node.left = NULL
              BY <1>4, <4>3, <6>1
            <7>2. NamesToCome(n) = NamesToCome(n)' \cup (IF Top.node.type # "NFUN" THEN Free[Top.node.left] ELSE {})
              BY <1>1, <6>1, ToComeAtTop
            <7> QED BY <3>5, <7>1, <7>2
          <6>2. CASE Top.stage = 1
            BY <1>1, <6>2, ToComeAtTop
          <6>3. CASE Top.stage = 2
            <7>1. Top.node.right = NULL
              BY <1>4, <4>3, <6>3
            <7>2. NamesToCome(n) = NamesToCome(n)' \cup (Free[Top.node.right] \ Binds[Top.node.left])
              BY <1>1, <6>3, ToComeAtTop
            <7> QED BY <3>5, <7>1, <7>2
          <6> QED BY <1>3, <2>3, <6>1, <6>2, <6>3
        <5> HIDE DEF Looks
        <5>2. m # n + 1
          BY <4>3
        <5> QED BY <3>3, <3>4, <5>1, <5>2
      <4> QED BY <1>3, <1>4, <2>3, <4>1, <4>2, <4>3
    <3> HIDE DEF Looks
    <3>8. m \in {n, n + 1}
      BY <1>4, <2>3
    <3>9. 1..n = (1..(n - 1)) \cup {n} /\ 1..(n + 1) = (1..(n - 1)) \cup {n} \cup {n + 1}
      OBVIOUS
    <3>10. \A k \in 1..(n - 1) : k <= m
      BY <3>8
    <3>11. CASE m = n
      <4>1. m # n + 1
        BY <3>11
      <4> QED BY <2>1, <3>7, <3>9, <3>10, <3>11, <4>1
    <3>12. CASE m = n + 1
      BY <2>1, <3>7, <3>9, <3>10, <3>12
    <3> QED BY <3>8, <3>11, <3>12
  <2> QED BY <2>2, <2>3
<1>6. ASSUME NEW x PROVE (\E k \in 1..n : Calls(x, k)) <=> (\E k \in 1..m : Calls(x, k)')
  <2>1. Known' = Known
    BY ContextKept
  <2>2. ASSUME NEW k \in 1..(n - 1), k <= m PROVE Calls(x, k) <=> Calls(x, k)'
    BY <1>1, <1>2, <2>1, <2>2, ToComeBelow
  <2>3. CASE Top.stage = 3
    <3>1. ~ Calls(x, n)
      BY <1>1, <1>3, <2>3, FoundAtTop
    <3> HIDE DEF Calls
    <3>2. m = n - 1
      BY <1>4, <2>3
    <3>3. 1..n = (1..m) \cup {n} /\ \A k \in 1..m : k \in 1..(n - 1) /\ k <= m
      BY <3>2
    <3> QED BY <2>2, <3>1, <3>3
  <2>4. CASE Top.stage # 3
    <3>1. CallsOf[NULL] = {}
      BY CallsOfOf
    <3>2. ASSUME NEW c, \/ Top.stage = 0 /\ c = Top.node.left
                        \/ Top.stage = 2 /\ c = Top.node.right
          PROVE  /\ CallsToCome(n) = CallsToCome(n)' \cup CallsOf[c]
                 /\ m = n \/ (m = n + 1 /\ CallsToCome(m)' = CallsOf[c])
                 /\ m = n => c = NULL
      <4>1. m = n + 1 => CallsToCome(m)' = CallsOf[c]
        BY <1>1, <1>2, <3>2, ToComeEntered
      <4> QED BY <1>1, <1>4, <2>4, <3>2, <4>1, ToComeAtTop
    <3>3. Calls(x, n) <=> Calls(x, n)' \/ (m = n + 1 /\ Calls(x, m)')
      <4>1. CASE Top.stage = 1
        <5>1. CallsToCome(n) = CallsToCome(n)' /\ m # n + 1
          BY <1>1, <1>4, <4>1, ToComeAtTop
        <5> QED BY <2>1, <5>1
      <4>2. CASE Top.stage \in {0, 2}
        <5>1. PICK c : \/ Top.stage = 0 /\ c = Top.node.left
                       \/ Top.stage = 2 /\ c = Top.node.right
          BY <4>2
        <5>2. /\ CallsToCome(n) = CallsToCome(n)' \cup CallsOf[c]
              /\ m = n \/ (m = n + 1 /\ CallsToCome(m)' = CallsOf[c])
              /\ m = n => c = NULL
          BY <3>2, <5>1
        <5> QED BY <2>1, <3>1, <5>2
      <4> QED BY <1>3, <2>4, <4>1, <4>2
    <3> HIDE DEF Calls
    <3>4. m \in {n, n + 1}
      BY <1>4, <2>4
    <3>5. 1..n = (1..(n - 1)) \cup {n} /\ 1..(n + 1) = (1..(n - 1)) \cup {n} \cup {n + 1}
      OBVIOUS
    <3>6. \A k \in 1..(n - 1) : k <= m
      BY <3>4
    <3>7. CASE m = n
      <4>1. m # n + 1
        BY <3>7
      <4> QED BY <2>2, <3>3, <3>5, <3>6, <3>7, <4>1
    <3>8. CASE m = n + 1
      BY <2>2, <3>3, <3>5, <3>6, <3>8
    <3> QED BY <3>4, <3>7, <3>8
  <2> QED BY <2>3, <2>4
<1>7. \A x : x \in Free[Subject] \ GlobalNames <=> \E k \in 1..n : Looks(x, k)
  BY <1>1, <1>3 DEF NeedsToCome
<1>8. \A x : x \in CallsOf[Subject] \ Known <=> \E k \in 1..n : Calls(x, k)
  BY <1>1, <1>3 DEF NeedsToCome
<1>9. Subject' = Subject /\ GlobalNames' = GlobalNames /\ Known' = Known
  BY ContextKept
<1>10. (Free[Subject] \ GlobalNames)' =
         UNION {NamesToCome(k)' \ SeenBy(k)' : k \in {j \in 1..m : walk'[j].node.type # "ARG"}}
  <2>1. ASSUME NEW x
        PROVE  (\E k \in 1..m : Looks(x, k)') <=>
                 x \in UNION {NamesToCome(k)' \ SeenBy(k)' : k \in {j \in 1..m : walk'[j].node.type # "ARG"}}
    OBVIOUS
  <2> HIDE DEF Looks
  <2>2. ASSUME NEW x PROVE x \in (Free[Subject] \ GlobalNames)' <=> \E k \in 1..m : Looks(x, k)'
    BY <1>5, <1>7, <1>9
  <2> QED BY <2>1, <2>2
<1>11. (CallsOf[Subject] \ Known)' = UNION {CallsToCome(k)' \ Known' : k \in 1..m}
  <2>1. ASSUME NEW x
        PROVE  (\E k \in 1..m : Calls(x, k)') <=> x \in UNION {CallsToCome(k)' \ Known' : k \in 1..m}
    OBVIOUS
  <2> HIDE DEF Calls
  <2>2. ASSUME NEW x PROVE x \in (CallsOf[Subject] \ Known)' <=> \E k \in 1..m : Calls(x, k)'
    BY <1>6, <1>8, <1>9
  <2> QED BY <2>1, <2>2
<1> QED BY <1>2, <1>10, <1>11 DEF NeedsToCome

-----------------------------------------------------------------------------
(* The return a function has or will meet.                                 *)

\* A block has one subtree.
LEMMA BlockLeft ==
  ASSUME NEW n \in Node, n.type = "BLOCK"
  PROVE  n.left = NULL
<1>1. LeftChild(n.type) = {"none"}
  BY DEF LeftChild
<1>2. n.left # NULL => n.left.type \in LeftChild(n.type) /\ n.left.type \in NodeType
  BY Children, NodeFields
<1> QED BY <1>1, <1>2 DEF NodeType, Statement, Expression

\* There is no return in what is no statement.
LEMMA NoReturnBelow ==
  ASSUME NEW n \in Node, n.type \notin {"SEQ", "IF", "WHILE", "BRANCH", "BLOCK", "NFUN", "DEFS"}
  PROVE  ReturnsItself[n.left] = FALSE /\ ReturnsItself[n.right] = FALSE
<1>1. n.type \in NodeType /\ n.left \in Trees /\ n.right \in Trees
  BY NodeFields, Children
<1>2. ASSUME NEW c \in Trees, c = n.left \/ c = n.right
      PROVE  TypeOf(c) \notin {"RET", "SEQ", "IF", "WHILE", "BRANCH"}
  <2>1. TypeOf(c) \in LeftChild(n.type) \cup RightChild(n.type)
    BY <1>2, NodeFields
  <2> QED BY <1>1, <2>1 DEF LeftChild, RightChild, NodeType, Statement, Expression
<1>3. ASSUME NEW c \in Trees, TypeOf(c) \notin {"RET", "SEQ", "IF", "WHILE", "BRANCH"}
      PROVE  ReturnsItself[c] = FALSE
  BY <1>3, ReturnsItselfOf DEF Trees, TypeOf
<1> QED BY <1>1, <1>2, <1>3

\* Inside the body the block depth is one as long as no other block is open.
LEMMA DepthOne ==
  ASSUME IInv, CodeInv, walk # <<>>, Subject.type = "NFUN",
         Top.node.type \notin {"NFUN", "ARG", "BLOCK"}
  PROVE  block_depth = 1 <=> \A j \in 3..Len(walk) : walk[j].node.type # "BLOCK"
<1> USE DEF COMPILING_LEFT, COMPILED_LEFT, COMPILING_RIGHT, COMPILED_RIGHT
<1>1. walk \in Seq(Frame) /\ WalkLinked
  BY HandlerState DEF CodeInv
<1>2. PICK n \in Nat \ {0} : n = Len(walk)
  BY <1>1, EmptySeq
<1>3. Top = walk[n] /\ n >= 2 /\ walk[2].node.type = "BLOCK" /\ walk[1].node.type = "NFUN"
  BY <1>2, InBody DEF Top, Subject
<1>4. \A j \in 1..n : walk[j].node \in Node /\ walk[j].stage \in 0..3
  <2>1. \A fr \in Frame : fr.node \in Node /\ fr.stage \in 0..3
    BY DEF Frame
  <2> QED BY <1>1, <1>2, <2>1
<1>5. ASSUME NEW j \in 1..n, walk[j].node.type = "BLOCK" PROVE j \in OpenBlocks
  <2>1. j # n
    BY <1>3, <1>5
  <2>2. j \in 1..(n - 1) /\ j + 1 \in 1..n
    BY <2>1
  <2>3. walk[j].stage = 3 \/ walk[j + 1].node = walk[j].node.left
    BY <1>1, <1>2, <2>2 DEF WalkLinked
  <2>4. walk[j].node.left = NULL
    BY <1>4, <1>5, BlockLeft
  <2>5. walk[j + 1].node # NULL
    BY <1>4, <2>2, NodeFields
  <2> QED BY <1>2, <1>5, <2>3, <2>4, <2>5 DEF OpenBlocks, Open
<1>6. \A j \in OpenBlocks : j \in 1..n /\ walk[j].node.type = "BLOCK" /\ j # 1
  BY <1>2, <1>3 DEF OpenBlocks, Open
<1>7. 2 \in OpenBlocks
  BY <1>3, <1>5
<1>8. block_depth = Cardinality(OpenBlocks)
  BY DEF IInv, ScopesMatchWalk
<1>9. ASSUME \A j \in 3..n : walk[j].node.type # "BLOCK" PROVE block_depth = 1
  <2>1. \A j \in OpenBlocks : j = 2
    BY <1>6, <1>9
  <2>2. OpenBlocks = {2}
    BY <1>7, <2>1
  <2> QED BY <1>8, <2>2, FS_Singleton
<1>10. ASSUME NEW j \in 3..n, walk[j].node.type = "BLOCK" PROVE block_depth # 1
  <2>1. j \in OpenBlocks /\ j > 2
    BY <1>5, <1>10
  <2>2. /\ Cardinality(BlocksTo(2)) < Cardinality(OpenBlocks)
        /\ IsFiniteSet(BlocksTo(2)) /\ Cardinality(BlocksTo(2)) \in Nat
        /\ Cardinality(OpenBlocks) \in Nat
    BY <1>1, <2>1, BlockSets
  <2>3. 2 \in BlocksTo(2)
    BY <1>7 DEF BlocksTo
  <2>4. Cardinality(BlocksTo(2)) # 0
    BY <2>2, <2>3, FS_EmptySet
  <2> QED BY <1>8, <2>2, <2>4
<1> QED BY <1>2, <1>9, <1>10

\* The flag says whether the return has been met: compile_RET sets it only at the
\* depth of the body.
LEMMA ReturnsHeld ==
  ASSUME Walking, walk' # <<>>, ReturnsHandled, ReturnsFound
  PROVE  ReturnsFound'
<1> USE DEF COMPILING_LEFT, COMPILED_LEFT, COMPILING_RIGHT, COMPILED_RIGHT
<1>1. PICK n \in Nat \ {0} : n = Len(walk)
  BY WalkingTypes
<1>2. PICK m \in Nat : m = Len(walk') /\ m \in (n - 1)..(n + 1)
  BY <1>1, WalkingTypes
<1>3. /\ IInv /\ CodeInv /\ walk # <<>> /\ walk \in Seq(Frame) /\ WalkShape
      /\ Top.node \in Node /\ Top.stage \in 0..3 /\ Top = walk[n]
      /\ has_return \in BOOLEAN
  BY <1>1, WalkingTypes DEF Walking, IInv, TypeOK
<1>4. /\ Top.stage = 3 => m = n - 1
      /\ Top.stage # 3 => m \in {n, n + 1}
      /\ Top.stage = 1 => m = n
      /\ Top.stage = 0 /\ m = n => Top.node.left = NULL
      /\ Top.stage = 2 /\ m = n => Top.node.right = NULL
      /\ Top.stage # 3 => walk'[n].node = Top.node /\ walk'[n].stage = Top.stage + 1
      /\ \A i \in 1..(n - 1) : walk'[i] = walk[i]
      /\ m # 0
  BY <1>1, <1>2, WalkingTypes, ProceedWalk, EmptySeq DEF Walking
<1>5. SUFFICES ASSUME Subject.type = "NFUN" PROVE ReturnsFound'
  BY ContextKept DEF ReturnsFound
<1>6. Subject' = Subject /\ walk[1].node = Subject
  BY ContextKept DEF Subject
<1>7. CASE n = 1
  <2>1. Here("NFUN", Top.stage) /\ Top.stage # 3 /\ Top = walk[1] /\ Top.node = Subject
    BY <1>3, <1>4, <1>5, <1>6, <1>7 DEF Here
  <2>2. ~ Here("RET", 3) /\ ~ Here("NFUN", 3)
    BY <2>1 DEF Here
  <2>3. CASE Top.stage = 0
    <3>1. has_return' = FALSE /\ walk'[1].stage = 1
      BY <1>4, <1>7, <2>1, <2>3 DEF ReturnsHandled
    <3> QED BY <3>1 DEF ReturnsFound
  <2>4. CASE Top.stage # 0
    <3>1. ~ Here("NFUN", 0)
      BY <2>4 DEF Here
    <3>2. has_return' = has_return
      BY <2>2, <3>1 DEF ReturnsHandled
    <3>3. ~ has_return
      BY <1>3, <1>5, <2>1, <2>4 DEF ReturnsFound
    <3>4. CASE Top.stage = 1
      <4>1. walk'[1].stage = 2
        BY <1>4, <1>7, <3>4
      <4> QED BY <3>2, <3>3, <4>1 DEF ReturnsFound
    <3>5. CASE Top.stage = 2
      <4>1. Subject \in Node /\ Subject.right # NULL
        BY <1>3, <1>5, <2>1, FunctionBody
      <4>2. m = 2 /\ m = Len(walk) + 1
        BY <1>1, <1>4, <1>7, <2>1, <3>5, <4>1
      <4>3. walk'[2].node = Subject.right
        BY <1>2, <2>1, <3>5, <4>2, ToComeEntered
      <4>4. Subject.right.type = "BLOCK"
        <5>1. Subject.right \in Node
          BY <4>1, NodeFields
        <5> QED BY <1>5, <4>1, <5>1, ChildTypes
      <4>5. ReturnToCome(2)' <=> ReturnsItself[Subject.right.right]
        <5>1. ReturnToCome(m)' <=>
                IF walk'[m].node.type = "BLOCK" THEN ReturnsItself[walk'[m].node.right]
                ELSE ReturnsItself[walk'[m].node]
          BY <1>2, <4>2, ToComeEntered
        <5> QED BY <4>2, <4>3, <4>4, <5>1 DEF ReturnToCome
      <4>6. Len(walk') = 2 /\ walk'[1].stage = 3
        BY <1>2, <1>4, <1>7, <3>5, <4>2
      <4>7. ReturnsItself[Subject.right.right] <=>
              \E k \in 2..2 : ReturnToCome(k)' /\ \A j \in 3..k : walk'[j].node.type # "BLOCK"
        <5>1. 2..2 = {2} /\ 3..2 = {}
          OBVIOUS
        <5> QED BY <4>5, <5>1 DEF ReturnToCome
      <4> QED BY <1>6, <3>2, <3>3, <4>6, <4>7 DEF ReturnsFound
    <3> QED BY <1>3, <2>1, <2>4, <3>4, <3>5
  <2> QED BY <2>3, <2>4
<1>8. CASE n # 1
  <2>1. /\ Top.node.type \notin {"NFUN", "DEFS"} /\ 1 \in 1..(n - 1) /\ n >= 2
        /\ walk'[1] = walk[1] /\ walk[1].node.type = "NFUN"
    <3>1. n \in 2..Len(walk)
      BY <1>1, <1>8
    <3>2. walk[n].node.type = "ARG" \/ walk[n].node.type \in BodyPart
      BY <1>1, <1>3, <1>5, <3>1 DEF WalkShape, Subject
    <3> QED BY <1>3, <1>4, <1>5, <3>1, <3>2 DEF BodyPart, Statement, Expression, Subject
  <2>2. ~ Here("NFUN", 0) /\ ~ Here("NFUN", 3)
    BY <2>1 DEF Here
  <2>3. CASE Top.node.type = "ARG"
    <3>1. has_return' = has_return
      BY <2>2, <2>3 DEF ReturnsHandled, Here
    <3>2. walk[1].stage < 3
      <4>1. n \in 2..Len(walk) /\ Len(walk) > 1
        BY <1>1, <2>1
      <4> QED BY <1>3, <1>5, <2>3, <4>1 DEF WalkShape, Subject, BodyPart, Statement, Expression
    <3> QED BY <1>3, <1>5, <2>1, <3>1, <3>2 DEF ReturnsFound
  <2>4. CASE Top.node.type # "ARG"
    <3> DEFINE Clear(k) == \A j \in 3..k : walk[j].node.type # "BLOCK"
               Pends(k) == ReturnToCome(k) /\ Clear(k)
    <3>1. walk[1].stage = 3
      BY <1>3, <1>5, <2>1, <2>4, InBody
    <3>2. ReturnsItself[Subject.right.right] <=> has_return \/ \E k \in 2..n : Pends(k)
      BY <1>1, <1>3, <1>5, <3>1 DEF ReturnsFound
    <3>3. ASSUME NEW k \in 2..(n - 1), k <= m PROVE Pends(k)' <=> Pends(k)
      <4>1. ReturnToCome(k)' <=> ReturnToCome(k)
        BY <1>1, <1>2, <3>3, ToComeBelow
      <4>2. Clear(k)' <=> Clear(k)
        BY <1>4, <3>3
      <4> HIDE DEF Clear
      <4> QED BY <4>1, <4>2
    <3> DEFINE Same == has_return' \/ (\E k \in 2..m : Pends(k)') <=> has_return \/ \E k \in 2..n : Pends(k)
    <3>4. ASSUME Top.stage = 3 PROVE Same
      <4>1. ReturnToCome(n) <=> Top.node.type = "RET"
        BY <1>3, <3>4 DEF ReturnToCome
      <4>2. has_return' <=> has_return \/ Pends(n)
        <5>1. CASE Top.node.type = "RET"
          <6>1. has_return' = (has_return \/ block_depth = 1)
            BY <3>4, <5>1 DEF ReturnsHandled, Here
          <6>2. block_depth = 1 <=> Clear(n)
            BY <1>1, <1>3, <1>5, <5>1, DepthOne
          <6> HIDE DEF Clear
          <6> QED BY <4>1, <5>1, <6>1, <6>2
        <5>2. CASE Top.node.type # "RET"
          <6>1. has_return' = has_return
            BY <2>2, <5>2 DEF ReturnsHandled, Here
          <6> HIDE DEF Clear
          <6> QED BY <4>1, <5>2, <6>1
        <5> QED BY <5>1, <5>2
      <4> HIDE DEF Pends
      <4>3. m = n - 1
        BY <1>4, <3>4
      <4>4. 2..n = (2..m) \cup {n} /\ \A k \in 2..m : k \in 2..(n - 1) /\ k <= m
        BY <2>1, <4>3
      <4> QED BY <3>3, <4>2, <4>4
    <3>5. ASSUME Top.stage # 3 PROVE Same
      <4>1. has_return' = has_return
        BY <2>2, <3>5 DEF ReturnsHandled, Here
      <4>2. PICK N \in Node : N = Top.node
        BY <1>3
      <4>3. Pends(n) <=> Pends(n)' \/ (m = n + 1 /\ Pends(m)')
        <5>1. Clear(n)' <=> Clear(n)
          <6>1. \A j \in 3..n : walk'[j].node.type = walk[j].node.type
            <7>1. \A j \in 3..n : j \in 1..(n - 1) \/ j = n
              OBVIOUS
            <7> QED BY <1>3, <1>4, <3>5, <7>1
          <6> QED BY <6>1
        <5>2. m = n + 1 => (Clear(m)' <=> Clear(n) /\ walk'[m].node.type # "BLOCK")
          <6>1. 3..(n + 1) = (3..n) \cup {n + 1}
            BY <2>1
          <6> QED BY <5>1, <6>1
        <5> DEFINE Carries == N.type \in {"SEQ", "IF", "WHILE", "BRANCH", "BLOCK"}
        <5>3. ReturnToCome(n) <=>
                \/ N.type = "RET"
                \/ Carries /\ ((Top.stage = 0 /\ ReturnsItself[N.left]) \/ ReturnsItself[N.right])
          BY <1>3, <3>5, <4>2 DEF ReturnToCome
        <5>4. ReturnToCome(n)' <=>
                N.type = "RET" \/ (Carries /\ Top.stage < 2 /\ ReturnsItself[N.right])
          <6>1. walk'[n].node = N /\ walk'[n].stage = Top.stage + 1
            BY <1>4, <3>5, <4>2
          <6> QED BY <1>3, <3>5, <6>1 DEF ReturnToCome
        <5>5. ASSUME m = n + 1
              PROVE  \E c \in Node :
                       /\ (Top.stage = 0 /\ c = N.left) \/ (Top.stage = 2 /\ c = N.right)
                       /\ Pends(m)' <=> Clear(n) /\ ReturnsItself[c]
          <6>1. PICK c \in Node : c = walk'[m].node
            BY <1>1, <1>2, <5>5, ToComeEntered
          <6>2. (Top.stage = 0 /\ c = N.left) \/ (Top.stage = 2 /\ c = N.right)
            BY <1>1, <1>2, <4>2, <5>5, <6>1, ToComeEntered
          <6>3. ReturnToCome(m)' <=> IF c.type = "BLOCK" THEN ReturnsItself[c.right] ELSE ReturnsItself[c]
            BY <1>1, <1>2, <5>5, <6>1, ToComeEntered
          <6>4. c.type = "BLOCK" => ReturnsItself[c] = FALSE
            BY ReturnsItselfOf
          <6> HIDE DEF Clear
          <6>5. Pends(m)' <=> Clear(n) /\ ReturnsItself[c]
            BY <5>2, <5>5, <6>1, <6>3, <6>4
          <6> QED BY <6>2, <6>5
        <5>6. ~ Carries => ReturnsItself[N.left] = FALSE /\ ReturnsItself[N.right] = FALSE
          BY <2>1, <4>2, NoReturnBelow
        <5>7. ReturnsItself[NULL] = FALSE
          BY ReturnsItselfOf
        <5> HIDE DEF Carries, Clear
        <5>8. N.type = "RET" => ~ Carries
          BY DEF Carries
        <5>9. CASE m = n
          <6>1. m # n + 1
            BY <5>9
          <6>2. ReturnToCome(n)' <=> ReturnToCome(n)
            <7>1. CASE Top.stage = 0
              BY <1>4, <4>2, <5>3, <5>4, <5>7, <5>9, <7>1
            <7>2. CASE Top.stage = 1
              BY <5>3, <5>4, <7>2
            <7>3. CASE Top.stage = 2
              BY <1>4, <4>2, <5>3, <5>4, <5>7, <5>9, <7>3
            <7> QED BY <1>3, <3>5, <7>1, <7>2, <7>3
          <6> QED BY <5>1, <6>1, <6>2
        <5>10. CASE m = n + 1
          <6>1. PICK c \in Node :
                  /\ (Top.stage = 0 /\ c = N.left) \/ (Top.stage = 2 /\ c = N.right)
                  /\ Pends(m)' <=> Clear(n) /\ ReturnsItself[c]
            BY <5>5, <5>10
          <6>2. ReturnToCome(n) <=> ReturnToCome(n)' \/ ReturnsItself[c]
            <7>1. CASE Top.stage = 0
              BY <5>3, <5>4, <5>6, <6>1, <7>1
            <7>2. CASE Top.stage = 2
              BY <5>3, <5>4, <5>6, <6>1, <7>2
            <7> QED BY <6>1, <7>1, <7>2
          <6>3. Pends(n) <=> ReturnToCome(n) /\ Clear(n)
            OBVIOUS
          <6>4. Pends(n)' <=> ReturnToCome(n)' /\ Clear(n)
            BY <5>1
          <6> HIDE DEF Pends
          <6> QED BY <5>10, <6>1, <6>2, <6>3, <6>4
        <5> QED BY <1>4, <3>5, <5>9, <5>10
      <4> HIDE DEF Pends
      <4>4. m \in {n, n + 1}
        BY <1>4, <3>5
      <4>5. 2..n = (2..(n - 1)) \cup {n} /\ 2..(n + 1) = (2..(n - 1)) \cup {n} \cup {n + 1}
        BY <2>1
      <4>6. \A k \in 2..(n - 1) : k <= m
        BY <4>4
      <4>7. CASE m = n
        <5>1. m # n + 1
          BY <4>7
        <5> QED BY <3>3, <4>1, <4>3, <4>5, <4>6, <4>7, <5>1
      <4>8. CASE m = n + 1
        BY <3>3, <4>1, <4>3, <4>5, <4>6, <4>8
      <4> QED BY <4>4, <4>7, <4>8
    <3>6. Same
      BY <3>4, <3>5
    <3>7. ReturnsItself[Subject.right.right] <=> has_return' \/ \E k \in 2..m : Pends(k)'
      BY <3>2, <3>6
    <3> QED BY <1>2, <1>6, <2>1, <3>1, <3>7 DEF ReturnsFound
  <2> QED BY <2>3, <2>4
<1> QED BY <1>7, <1>8

-----------------------------------------------------------------------------
(* The definitions, one after the other.                                   *)

\* Types of the definitions of the program and of those still to extract.
LEMMA GivenTypes ==
  ASSUME IInv, program \in Program
  PROVE  /\ Given \in Seq(Trees) /\ Len(Given) \in Nat
         /\ Definitions[cursor] \in Seq(Trees) /\ Len(Definitions[cursor]) \in Nat
         /\ Extracted \in Int
         /\ cursor = NULL => Extracted = Len(Given)
<1>1. program \in Trees /\ cursor \in Trees
  BY ProgramAssumption DEF IInv, TypeOK, Trees
<1>2. Definitions \in [Trees -> Seq(Trees)]
  BY DefinitionsOf DEF Trees
<1>3. Given \in Seq(Trees) /\ Definitions[cursor] \in Seq(Trees)
  BY <1>1, <1>2 DEF Given
<1>4. Len(Given) \in Nat /\ Len(Definitions[cursor]) \in Nat
  BY <1>3
<1>5. cursor = NULL => Len(Definitions[cursor]) = 0
  BY DefinitionsOf
<1> QED BY <1>3, <1>4, <1>5 DEF Extracted

\* What can be called is what is in the table of functions.
LEMMA KnownNames ==
  ASSUME Extraction, NEW name
  PROVE  Defined(name) <=>
           \/ name \in {"print", "read", "sqrt"}
           \/ \E j \in FunctionsOf(Given, Extracted) : Given[j].value = name
<1>1. Defined(name) <=> \E args : <<name, args>> \in Known
  <2>1. Known = {<<functions[i].name, functions[i].arg_cnt>> : i \in 1..Len(functions)}
    BY DEF Extraction
  <2> QED BY <2>1 DEF Defined
<1>2. ASSUME NEW args, <<name, args>> \in Known
      PROVE  \/ name \in {"print", "read", "sqrt"}
             \/ \E j \in FunctionsOf(Given, Extracted) : Given[j].value = name
  BY <1>2 DEF Known, SignaturesOf, stdlib
<1>3. <<"print", 1>> \in Known /\ <<"read", 0>> \in Known /\ <<"sqrt", 1>> \in Known
  BY DEF Known, SignaturesOf, stdlib
<1>4. \A j \in FunctionsOf(Given, Extracted) : <<Given[j].value, ChainOf(Given[j].left)>> \in Known
  BY DEF Known, SignaturesOf
<1> QED BY <1>1, <1>2, <1>3, <1>4

\* While a definition is compiled all definitions before it are taken out, and
\* all definitions if it is a function.
LEMMA SubjectContext ==
  ASSUME IInv, CodeInv, walk # <<>>, phase \in {"declarations", "functions"},
         program \in Program, Extraction
  PROVE  /\ Subject.type = "NVAR" => /\ Initializing /\ phase = "declarations"
                                     /\ Extracted \in 1..Len(Given)
                                     /\ Subject = Given[Extracted]
                                     /\ GlobalNames = GlobalsOf(Given, Extracted - 1)
                                     /\ Known = SignaturesOf(Given, Extracted - 1)
         /\ Subject.type = "NFUN" => /\ phase = "functions"
                                     /\ ~ Initializing
                                     /\ Extracted = Len(Given)
                                     /\ GlobalNames = GlobalsOf(Given, Len(Given))
                                     /\ Known = SignaturesOf(Given, Len(Given))
                                     /\ next_func - 1 \in 1..Len(functions)
                                     /\ Subject = functions[next_func - 1].node
                                     /\ \E j \in FunctionsOf(Given, Len(Given)) : Subject = Given[j]
<1>1. Extracted \in 0..Len(Given) /\ Len(Given) \in Nat
  BY GivenTypes DEF Extraction
<1>2. ASSUME Subject.type = "NVAR"
      PROVE  /\ Initializing /\ phase = "declarations"
             /\ Extracted \in 1..Len(Given)
             /\ Subject = Given[Extracted]
             /\ GlobalNames = GlobalsOf(Given, Extracted - 1)
             /\ Known = SignaturesOf(Given, Extracted - 1)
  <2>1. Initializing /\ Extracted > 0 /\ Subject = Given[Extracted]
    BY <1>2 DEF Extraction
  <2>2. PICK i \in Nat : Extracted = i + 1
    BY <1>1, <2>1
  <2>3. SignaturesOf(Given, Extracted) = SignaturesOf(Given, i)
    <3>1. PICK j \in Nat : j = i + 1
      OBVIOUS
    <3>2. Given[j].type # "NFUN" /\ j = Extracted
      BY <1>2, <2>1, <2>2, <3>1
    <3>3. SignaturesOf(Given, j) = SignaturesOf(Given, i)
      <4>1. FunctionsOf(Given, j) = FunctionsOf(Given, i)
        <5>1. 1..j = (1..i) \cup {j}
          BY ONLY <3>1
        <5> QED BY ONLY <3>2, <5>1 DEF FunctionsOf
      <4> QED BY ONLY <4>1 DEF SignaturesOf
    <3> QED BY <3>2, <3>3
  <2>4. i = Extracted - 1
    BY <2>2
  <2> QED BY <1>1, <2>1, <2>3, <2>4 DEF Initializing, GlobalNames, Known
<1>3. ASSUME Subject.type = "NFUN"
      PROVE  /\ phase = "functions"
             /\ ~ Initializing
             /\ Extracted = Len(Given)
             /\ GlobalNames = GlobalsOf(Given, Len(Given))
             /\ Known = SignaturesOf(Given, Len(Given))
             /\ next_func - 1 \in 1..Len(functions)
             /\ Subject = functions[next_func - 1].node
             /\ \E j \in FunctionsOf(Given, Len(Given)) : Subject = Given[j]
  <2>1. ~ Initializing /\ phase = "functions"
    BY <1>3 DEF Extraction, Initializing
  <2>2. Extracted = Len(Given)
    BY <2>1, GivenTypes DEF Extraction
  <2>3. next_func - 1 \in 1..Len(functions) /\ Subject = functions[next_func - 1].node
    BY <1>3 DEF CodeInv, FunctionOrder, Subject
  <2>4. Subject # NULL
    <3>1. Subject \in Node
      <4>1. walk \in Seq(Frame) /\ Len(walk) >= 1
        BY HandlerState, EmptySeq
      <4>2. walk[1] \in Frame
        BY <4>1
      <4> QED BY <4>2 DEF Subject, Frame
    <3> QED BY <3>1, NodeFields
  <2>5. \E j \in FunctionsOf(Given, Extracted) : Subject = Given[j]
    BY <2>3, <2>4 DEF Extraction
  <2> QED BY <2>1, <2>2, <2>3, <2>5 DEF GlobalNames, Known
<1> QED BY <1>2, <1>3

\* A program that obeys the rules has what the definition being compiled needs.
LEMMA SubjectSupplied ==
  ASSUME IInv, CodeInv, walk # <<>>, phase \in {"declarations", "functions"},
         program \in Program, Extraction, WellFormed(program)
  PROVE  /\ Free[Subject] \subseteq GlobalNames
         /\ CallsOf[Subject] \subseteq Known
         /\ Subject.type = "NFUN" => ReturnsItself[Subject.right.right]
<1>1. Subject.type \in {"NVAR", "NFUN"}
  BY Tables
<1>2. CASE Subject.type = "NVAR"
  <2>1. /\ Extracted \in 1..Len(Given) /\ Subject = Given[Extracted]
        /\ GlobalNames = GlobalsOf(Given, Extracted - 1)
        /\ Known = SignaturesOf(Given, Extracted - 1)
    BY <1>2, SubjectContext
  <2>2. Extracted \in 1..Len(Given) \ FunctionsOf(Given, Len(Given))
    BY <1>2, <2>1 DEF FunctionsOf
  <2>3. Supplied(Given, Extracted, Extracted - 1)
    BY <2>2 DEF WellFormed, Given
  <2> QED BY <1>2, <2>1, <2>3 DEF Supplied
<1>3. CASE Subject.type = "NFUN"
  <2>1. PICK j \in FunctionsOf(Given, Len(Given)) : Subject = Given[j]
    BY <1>3, SubjectContext
  <2>2. GlobalNames = GlobalsOf(Given, Len(Given)) /\ Known = SignaturesOf(Given, Len(Given))
    BY <1>3, SubjectContext
  <2>3. Supplied(Given, j, Len(Given)) /\ ReturnsItself[Given[j].right.right]
    BY <2>1 DEF WellFormed, Given
  <2> QED BY <2>1, <2>2, <2>3 DEF Supplied
<1> QED BY <1>1, <1>2, <1>3

\* When a definition is compiled it has been given what it needs.
LEMMA SubjectFound ==
  ASSUME Walking, walk' = <<>>, ScopesHold, Extraction, NamesHandled, NeedsToCome
  PROVE  /\ Len(walk) = 1 /\ Top.stage = COMPILED_RIGHT /\ Top.node = Subject
         /\ Free[Subject] \subseteq GlobalNames
         /\ CallsOf[Subject] \subseteq Known
<1>1. PICK n \in Nat \ {0} : n = Len(walk)
  BY WalkingTypes
<1>2. Len(walk') = 0
  OBVIOUS
<1>3. n = 1 /\ Top.stage = COMPILED_RIGHT
  <2>1. walk \in Seq(Frame) /\ walk # <<>> /\ Proceed
    BY WalkingTypes DEF Walking
  <2>2. Top.stage # COMPILED_RIGHT => Len(walk') \in {n, n + 1}
    BY <1>1, <2>1, ProceedWalk
  <2>3. Top.stage = COMPILED_RIGHT
    BY <1>1, <1>2, <2>2
  <2>4. Len(walk') = n - 1
    BY <1>1, <2>1, <2>3, ProceedWalk
  <2> QED BY <1>2, <2>3, <2>4
<1>4. Top = walk[1] /\ Subject = walk[1].node
  BY <1>1, <1>3 DEF Top, Subject
<1>5. NamesToCome(1) \subseteq SeenBy(1) /\ CallsToCome(1) \subseteq Known
  BY <1>1, <1>3, FoundAtTop DEF Walking
<1>6. SeenBy(1) = GlobalNames
  BY SeenFirst
<1>7. 1..n = {1}
  BY <1>3
<1>8. walk # <<>>
  BY DEF Walking
<1>9. ASSUME NEW x \in Free[Subject], x \notin GlobalNames PROVE FALSE
  <2>1. \E k \in 1..n : x \in NamesToCome(k) /\ x \notin SeenBy(k)
    BY <1>1, <1>8, <1>9 DEF NeedsToCome
  <2> QED BY <1>5, <1>7, <2>1
<1>10. ASSUME NEW x \in CallsOf[Subject], x \notin Known PROVE FALSE
  <2>1. \E k \in 1..n : x \in CallsToCome(k) /\ x \notin Known
    BY <1>1, <1>8, <1>10 DEF NeedsToCome
  <2> QED BY <1>5, <1>7, <2>1
<1> QED BY <1>1, <1>3, <1>4, <1>9, <1>10

\* A definition is compiled: the next one may begin.
LEMMA SubjectChecked ==
  ASSUME Walking, walk' = <<>>, phase \in {"declarations", "functions"}, program \in Program,
         Extraction, Checked, ScopesHold, ScopesHandled, ReturnsHandled, NamesHandled,
         NeedsToCome, ReturnsFound
  PROVE  Checked'
<1> USE DEF COMPILING_LEFT, COMPILED_LEFT, COMPILING_RIGHT, COMPILED_RIGHT
<1>1. /\ IInv /\ CodeInv /\ walk # <<>> /\ next_func \in Nat \ {0}
      /\ UNCHANGED <<phase, cursor, next_func, functions, program>>
  BY DEF Walking, control, IInv, TypeOK
<1>2. Given' = Given /\ Extracted' = Extracted
  BY ContextKept
<1>3. /\ Len(walk) = 1 /\ Top.stage = 3 /\ Top.node = Subject
      /\ Free[Subject] \subseteq GlobalNames /\ CallsOf[Subject] \subseteq Known
  BY SubjectFound
<1>4. Subject.type \in {"NVAR", "NFUN"}
  BY <1>1, Tables
<1>5. ASSUME NEW i \in 1..Extracted \ FunctionsOf(Given, Extracted)
      PROVE  Supplied(Given, i, i - 1)
  <2>1. CASE Initializing /\ i = Extracted
    <3>1. Subject.type = "NVAR"
      BY <1>1, <2>1 DEF Extraction
    <3>2. /\ Subject = Given[Extracted]
          /\ GlobalNames = GlobalsOf(Given, Extracted - 1)
          /\ Known = SignaturesOf(Given, Extracted - 1)
      BY <1>1, <3>1, SubjectContext
    <3> QED BY <1>3, <2>1, <3>2 DEF Supplied
  <2>2. CASE ~ (Initializing /\ i = Extracted)
    BY <2>2 DEF Checked
  <2> QED BY <2>1, <2>2
<1>6. ASSUME NEW k \in Compiled', NEW j \in FunctionsOf(Given, Extracted), functions[k].node = Given[j]
      PROVE  Supplied(Given, j, Len(Given)) /\ ReturnsItself[Given[j].right.right]
  <2>1. k \in 1..Len(functions) /\ functions[k].node # NULL /\ (k < next_func - 1 \/ k = next_func - 1)
    BY <1>1 DEF Compiled
  <2>2. CASE k < next_func - 1
    <3>1. k \in Compiled
      BY <2>1, <2>2 DEF Compiled
    <3> QED BY <1>6, <3>1 DEF Checked
  <2>3. CASE k = next_func - 1
    <3>1. Subject.type = "NFUN"
      <4>1. Subject.type = "NVAR" => next_func = 1
        BY <1>1 DEF CodeInv, FunctionOrder, Subject
      <4> QED BY <1>1, <1>4, <2>1, <2>3, <4>1
    <3>2. /\ Subject = Given[j]
          /\ GlobalNames = GlobalsOf(Given, Len(Given))
          /\ Known = SignaturesOf(Given, Len(Given))
      BY <1>1, <1>6, <2>3, <3>1, SubjectContext
    <3>3. has_return
      BY <1>3, <3>1 DEF ReturnsHandled, Here
    <3>4. ReturnsItself[Subject.right.right]
      <4>1. walk[1].stage = 3
        BY <1>3 DEF Top
      <4> QED BY <1>1, <3>1, <3>3, <4>1 DEF ReturnsFound
    <3> QED BY <1>3, <3>2, <3>4 DEF Supplied
  <2> QED BY <2>1, <2>2, <2>3
<1>7. FunctionsOf(Given, Extracted)' = FunctionsOf(Given, Extracted)
  BY <1>2 DEF FunctionsOf
<1>8. \A i : Supplied(Given, i, i - 1)' = Supplied(Given, i, i - 1)
  BY <1>2 DEF Supplied, GlobalsOf, SignaturesOf, FunctionsOf
<1>9. \A i : Supplied(Given, i, Len(Given))' = Supplied(Given, i, Len(Given))
  BY <1>2 DEF Supplied, GlobalsOf, SignaturesOf, FunctionsOf
<1>10. functions' = functions
  BY <1>1
<1> QED BY <1>2, <1>5, <1>6, <1>7, <1>8, <1>9, <1>10 DEF Checked

\* Between two definitions the globals are what the definitions so far declare.
LEMMA SeenAtEnd ==
  ASSUME walk' = <<>>
  PROVE  /\ SeenNow' = GlobalNames'
         /\ GlobalNames' = GlobalsOf(Given', Extracted')
         /\ OpenBlocks' = {}
         /\ NeedsToCome' /\ ReturnsFound'
<1>1. Len(walk') = 0 /\ ~ (walk' # <<>>)
  OBVIOUS
<1>2. 1..Len(walk') = {}
  BY <1>1
<1>3. OpenBlocks' = {}
  BY <1>2 DEF OpenBlocks, Open
<1>4. GlobalNames' = GlobalsOf(Given', Extracted')
  BY <1>1 DEF GlobalNames, GlobalsOf, Initializing
<1>5. SeenNow' = GlobalNames'
  <2>1. 1..(Len(walk') + 1 - 1) = {}
    BY <1>1
  <2>2. UNION {Added(j)' : j \in 1..(Len(walk') + 1 - 1)} = {}
    BY <2>1
  <2>3. SeenNow' = GlobalNames' \cup UNION {Added(j)' : j \in 1..(Len(walk') + 1 - 1)}
    BY DEF SeenNow, SeenBy
  <2> QED BY <2>2, <2>3
<1> QED BY <1>1, <1>3, <1>4, <1>5 DEF NeedsToCome, ReturnsFound

\* Its name, if it is a variable, has joined those of the global table.
LEMMA SubjectScoped ==
  ASSUME Walking, walk' = <<>>, IInv', phase \in {"declarations", "functions"},
         program \in Program, Extraction, ScopesHandled, ScopesHold, NamesHandled, NeedsToCome
  PROVE  ScopesHold'
<1> USE DEF COMPILING_LEFT, COMPILED_LEFT, COMPILING_RIGHT, COMPILED_RIGHT
<1>1. /\ IInv /\ CodeInv /\ walk # <<>> /\ walk \in Seq(Frame) /\ Top.node \in Node
      /\ Given' = Given /\ Extracted' = Extracted
  BY WalkingTypes, ContextKept DEF Walking
<1>2. Len(walk) = 1 /\ Top.stage = 3 /\ Top.node = Subject
  BY SubjectFound
<1>3. PICK l \in Nat, r \in Nat : l = Len(name_scope) /\ r = Len(name_scope')
  <2>1. name_scope \in Seq(VarTable) /\ name_scope' \in Seq(VarTable)
    BY <1>1 DEF IInv, TypeOK
  <2>2. Len(name_scope) \in Nat /\ Len(name_scope') \in Nat
    BY ONLY <2>1
  <2> QED BY <2>2
<1>4. SeenNow' = GlobalNames' /\ GlobalNames' = GlobalsOf(Given, Extracted) /\ OpenBlocks' = {}
  BY <1>1, SeenAtEnd
<1>5. walk' = <<>>
  OBVIOUS
<1>6. Subject.type \in {"NVAR", "NFUN"}
  BY <1>1, Tables
<1>7. CASE Subject.type = "NVAR"
  <2>1. l = 1 /\ Here("NVAR", 3)
    BY <1>1, <1>2, <1>3, <1>7, Tables DEF Here
  <2>2. r = 1 /\ \A x : Declares(name_scope'[1], x)
                          <=> Declares(name_scope[1], x) \/ x = Top.node.value
    BY <1>3, <2>1, TablesHandled
  <2>3. NamesIn(1)' = NamesIn(1) \cup {Top.node.value}
    <3>1. Top.node.value \in Name
      BY <1>1, <1>2, <1>7, NodeAssumption DEF Named
    <3>2. 1..1 = {1}
      OBVIOUS
    <3> QED BY <2>2, <3>1, <3>2 DEF NamesIn
  <2>4. NamesIn(1) = GlobalNames
    <3>1. NamesIn(1) = SeenNow
      BY <1>3, <2>1 DEF ScopesHold
    <3>2. SeenNow = SeenBy(1) \cup Added(1)
      BY <1>2, SeenBehind
    <3>3. Added(1) = {}
      BY <1>1, <1>2, <1>7, AddedAtTop, DeclaredNames
    <3> QED BY <3>1, <3>2, <3>3, SeenFirst
  <2>5. GlobalsOf(Given, Extracted) = GlobalNames \cup {Top.node.value}
    <3>1. /\ Extracted \in 1..Len(Given) /\ Subject = Given[Extracted]
          /\ GlobalNames = GlobalsOf(Given, Extracted - 1)
      BY <1>1, <1>7, SubjectContext
    <3>2. PICK i \in Nat, j \in Nat : j = i + 1 /\ j = Extracted /\ i = Extracted - 1
      BY <1>1, <3>1, GivenTypes
    <3>3. GlobalsOf(Given, j) = GlobalsOf(Given, i) \cup Binds[Given[j]]
      <4>1. 1..j = (1..i) \cup {j}
        BY ONLY <3>2
      <4> QED BY ONLY <4>1 DEF GlobalsOf
    <3>4. Binds[Subject] = {Subject.value}
      BY <1>1, <1>2, <1>7, DeclaredNames
    <3>5. Extracted = j /\ Extracted - 1 = i
      BY <3>2
    <3> QED BY ONLY <1>2, <3>1, <3>3, <3>4, <3>5
  <2>6. NamesIn(r)' = SeenNow'
    BY <1>4, <2>2, <2>3, <2>4, <2>5
  <2> QED BY <1>3, <1>4, <1>5, <2>6 DEF ScopesHold, NamesIn
<1>8. CASE Subject.type = "NFUN"
  <2>1. Here("NFUN", 3)
    BY <1>2, <1>8 DEF Here
  <2>2. r = 1 /\ l = 3
    BY <1>3, <2>1, TablesHandled
  <2>3. NamesIn(1)' = NamesIn(1)
    <3>1. \A u \in 1..1 : name_scope'[u] = name_scope[u]
      BY <1>3, <2>1, <2>2, TablesHandled
    <3> QED BY <3>1, NamesKept
  <2>4. NamesIn(1) = GlobalNames
    BY <1>1, <1>8 DEF ScopesHold
  <2>5. GlobalNames = GlobalsOf(Given, Extracted)
    BY <1>1, <1>8, SubjectContext
  <2>6. NamesIn(r)' = SeenNow'
    BY <1>4, <2>2, <2>3, <2>4, <2>5
  <2> QED BY <1>3, <1>4, <1>5, <2>6 DEF ScopesHold, NamesIn
<1> QED BY <1>6, <1>7, <1>8

\* A handler runs while declarations are extracted or functions compiled.
LEMMA HandlerPhase ==
  ASSUME HandleNode
  PROVE  phase \in {"declarations", "functions"}
<1>1. CASE compile_NVAR \/ compile_ASS \/ compile_VAR \/ compile_CONST
  BY <1>1 DEF compile_NVAR, compile_ASS, compile_VAR, compile_CONST, Handling
<1>2. CASE compile_OP_dividend \/ compile_OP \/ compile_CALL \/ compile_RET \/ compile_SEQ
  BY <1>2 DEF compile_OP_dividend, compile_OP, compile_CALL, compile_RET, compile_SEQ, Handling
<1>3. CASE compile_BLOCK_begin \/ compile_BLOCK_end
  BY <1>3 DEF compile_BLOCK_begin, compile_BLOCK_end, Handling
<1>4. CASE compile_WHILE_start \/ compile_WHILE_test \/ compile_WHILE_end
  BY <1>4 DEF compile_WHILE_start, compile_WHILE_test, compile_WHILE_end, Handling
<1>5. CASE compile_BRANCH_test \/ compile_BRANCH_else \/ compile_BRANCH_end
  BY <1>5 DEF compile_BRANCH_test, compile_BRANCH_else, compile_BRANCH_end, Handling
<1>6. CASE compile_NFUN_begin \/ compile_NFUN_body \/ compile_NFUN_end
  BY <1>6 DEF compile_NFUN_begin, compile_NFUN_body, compile_NFUN_end, Handling
<1>7. CASE compile_nothing
  BY <1>7 DEF compile_nothing
<1> QED BY <1>1, <1>2, <1>3, <1>4, <1>5, <1>6, <1>7 DEF HandleNode

\* The definitions stay extracted.
LEMMA ExtractionHeld ==
  ASSUME Walking, Extraction
  PROVE  Extraction'
<1>1. /\ Given' = Given /\ Extracted' = Extracted /\ Known' = Known
      /\ UNCHANGED <<phase, cursor, functions>>
  BY ContextKept DEF Walking, control
<1>2. /\ Extracted' \in 0..Len(Given')
      /\ Definitions[cursor'] = SubSeq(Given', Extracted' + 1, Len(Given'))
      /\ Known' = {<<functions'[i].name, functions'[i].arg_cnt>> : i \in 1..Len(functions')}
  BY <1>1 DEF Extraction
<1>3. FunctionsOf(Given', Extracted') = FunctionsOf(Given, Extracted)
  BY <1>1
<1>4. phase' = "functions" => cursor' = NULL /\ Defined("main")'
  BY <1>1 DEF Extraction, Defined
<1>5. /\ {NULL} \cup {Given'[j] : j \in FunctionsOf(Given', Extracted')} =
           {functions'[i].node : i \in 1..Len(functions')}
      /\ \A j \in FunctionsOf(Given', Extracted') :
           /\ Given'[j].value \notin {"print", "read", "sqrt"}
           /\ \A k \in FunctionsOf(Given', Extracted') : Given'[j].value = Given'[k].value => j = k
  <2>1. /\ {NULL} \cup {Given[j] : j \in FunctionsOf(Given, Extracted)} =
             {functions[i].node : i \in 1..Len(functions)}
        /\ \A j \in FunctionsOf(Given, Extracted) :
             /\ Given[j].value \notin {"print", "read", "sqrt"}
             /\ \A k \in FunctionsOf(Given, Extracted) : Given[j].value = Given[k].value => j = k
    BY DEF Extraction
  <2>2. functions' = functions /\ Given' = Given
    BY <1>1
  <2>3. {Given'[j] : j \in FunctionsOf(Given', Extracted')}
          = {Given[j] : j \in FunctionsOf(Given, Extracted)}
    BY ONLY <1>3, <2>2
  <2>4. {functions'[i].node : i \in 1..Len(functions')}
          = {functions[i].node : i \in 1..Len(functions)}
    BY ONLY <2>2
  <2> QED BY ONLY <1>3, <2>1, <2>2, <2>3, <2>4
<1>6. CASE walk' # <<>>
  <2>1. Subject' = Subject /\ Initializing' = Initializing
    BY <1>6, ContextKept
  <2>2. walk # <<>>
    BY DEF Walking
  <2>3. /\ Initializing' <=> Subject'.type = "NVAR"
        /\ Initializing' => Extracted' > 0 /\ Subject' = Given'[Extracted']
    BY <1>1, <2>1, <2>2 DEF Extraction
  <2> QED BY <1>2, <1>4, <1>5, <2>3 DEF Extraction, FunctionsOf
<1>7. CASE walk' = <<>>
  <2>1. ~ Initializing'
    BY <1>7 DEF Initializing
  <2> QED BY <1>2, <1>4, <1>5, <1>7, <2>1 DEF Extraction, FunctionsOf
<1> QED BY <1>6, <1>7

\* While a definition is compiled nothing is added to what is checked.
LEMMA CheckedHeld ==
  ASSUME Walking, walk' # <<>>, Checked
  PROVE  Checked'
<1>1. /\ Given' = Given /\ Extracted' = Extracted /\ Initializing' = Initializing
      /\ UNCHANGED <<next_func, functions>> /\ walk # <<>>
  BY ContextKept DEF Walking, control
<1>2. Compiled' = Compiled
  BY <1>1 DEF Compiled
<1>3. FunctionsOf(Given, Extracted)' = FunctionsOf(Given, Extracted)
  BY <1>1 DEF FunctionsOf
<1>4. \A i : Supplied(Given, i, i - 1)' = Supplied(Given, i, i - 1)
  BY <1>1 DEF Supplied, GlobalsOf, SignaturesOf, FunctionsOf
<1>5. \A i : Supplied(Given, i, Len(Given))' = Supplied(Given, i, Len(Given))
  BY <1>1 DEF Supplied, GlobalsOf, SignaturesOf, FunctionsOf
<1> QED BY <1>1, <1>2, <1>3, <1>4, <1>5 DEF Checked

\* The invariant when a handler returns.
LEMMA HandlerKeepsRules ==
  ASSUME IInv, CodeInv, IInv', HandleNode, UNCHANGED program, RulesInv
  PROVE  RulesInv'
<1>1. phase \in {"declarations", "functions"} /\ phase' = phase
  BY HandlerPhase, HandlerProceeds DEF control
<1>2. Walking
  BY HandlerProceeds DEF Walking
<1>3. ScopesHandled /\ ReturnsHandled /\ NamesHandled
  BY Handled
<1>4. /\ program \in Program
      /\ Extraction /\ Checked /\ ScopesHold /\ NeedsToCome /\ ReturnsFound
  BY <1>1 DEF RulesInv
<1>5. Extraction'
  BY <1>2, <1>4, ExtractionHeld
<1>6. CASE walk' # <<>>
  <2>1. Checked'
    BY <1>2, <1>4, <1>6, CheckedHeld
  <2>2. ScopesHold'
    BY <1>2, <1>3, <1>4, <1>6, ScopesHeld
  <2>3. NeedsToCome'
    BY <1>2, <1>3, <1>4, <1>6, NeedsHeld
  <2>4. ReturnsFound'
    BY <1>2, <1>3, <1>4, <1>6, ReturnsHeld
  <2> QED BY <1>1, <1>4, <1>5, <2>1, <2>2, <2>3, <2>4 DEF RulesInv
<1>7. CASE walk' = <<>>
  <2>1. Checked'
    BY <1>1, <1>2, <1>3, <1>4, <1>7, SubjectChecked
  <2>2. ScopesHold'
    BY <1>1, <1>2, <1>3, <1>4, <1>7, SubjectScoped
  <2>3. NeedsToCome' /\ ReturnsFound'
    BY <1>7, SeenAtEnd
  <2> QED BY <1>1, <1>4, <1>5, <2>1, <2>2, <2>3 DEF RulesInv
<1> QED BY <1>6, <1>7

-----------------------------------------------------------------------------
(* Between the definitions.                                                *)

\* What a program defines are nodes.
LEMMA GivenNodes ==
  ASSUME program \in Program
  PROVE  Given \in Seq(Node)
<1> DEFINE S == {n \in Trees : TypeOf(n) \in {"DEFS", "none"} => Definitions[n] \in Seq(Node)}
<1>1. NULL \in S
  BY DefinitionsOf DEF Trees
<1>2. ASSUME NEW n \in Node, n.left \in S, n.right \in S PROVE n \in S
  <2>1. n \in Trees /\ TypeOf(n) = n.type /\ n.type # "none" /\ n # NULL
    BY NodeAssumption DEF Trees, TypeOf, NodeType, Expression, Statement
  <2>2. CASE n.type = "DEFS"
    <3>1. /\ TypeOf(n.left) \in {"NVAR", "NFUN"} /\ n.left \in Trees
          /\ TypeOf(n.right) \in {"DEFS", "none"}
      BY <2>2, NodeAssumption DEF LeftChild, RightChild, Trees
    <3>2. n.left \in Node
      BY <3>1 DEF TypeOf, Trees
    <3>3. Definitions[n.right] \in Seq(Node)
      BY <1>2, <3>1
    <3>4. << n.left >> \in Seq(Node)
      BY <3>2
    <3>5. Definitions[n] = << n.left >> \o Definitions[n.right]
      BY DefinitionsOf
    <3>6. Definitions[n] \in Seq(Node)
      BY ONLY <3>3, <3>4, <3>5
    <3> QED BY <2>1, <3>6
  <2>3. CASE n.type # "DEFS"
    BY <2>1, <2>3
  <2> QED BY <2>2, <2>3
<1> HIDE DEF S
<1>3. \A n \in Trees : n \in S
  BY <1>1, <1>2, TreeInduction
<1> USE DEF S
<1>4. program \in Node /\ program.type = "DEFS"
  BY ProgramAssumption
<1>5. program \in Trees /\ TypeOf(program) = "DEFS"
  BY <1>4, NodeAssumption DEF Trees, TypeOf
<1> QED BY <1>3, <1>5 DEF Given

\* The definition at the cursor is the next one of the program.
LEMMA AtCursor ==
  ASSUME IInv, program \in Program, Extraction, cursor # NULL
  PROVE  /\ Extracted \in Nat /\ Extracted + 1 \in 1..Len(Given)
         /\ Given[Extracted + 1] = cursor.left /\ cursor.left \in Node
         /\ Definitions[cursor.right] = SubSeq(Given, Extracted + 2, Len(Given))
         /\ Len(Given) - Len(Definitions[cursor.right]) = Extracted + 1
<1>1. cursor \in Node /\ cursor.type = "DEFS"
  BY DEF IInv, TypeOK, FunctionTable
<1>2. cursor.left \in Node /\ cursor.right \in Trees
  <2>1. cursor.left \in Trees /\ cursor.right \in Trees /\ TypeOf(cursor.left) \in {"NVAR", "NFUN"}
    BY <1>1, NodeAssumption DEF LeftChild, Trees
  <2> QED BY <2>1 DEF TypeOf, Trees
<1>3. PICK rest \in Seq(Trees) : rest = Definitions[cursor.right]
  BY <1>2, DefinitionsOf DEF Trees
<1>4. Definitions[cursor] = << cursor.left >> \o rest
  BY <1>1, <1>3, DefinitionsOf
<1>5. PICK given \in Seq(Trees), n \in Nat, e \in Nat :
        given = Given /\ n = Len(given) /\ e = Extracted /\ e <= n
  BY GivenTypes DEF Extraction
<1>6. << cursor.left >> \o rest = SubSeq(given, e + 1, n)
  BY <1>4, <1>5 DEF Extraction
<1>7. PICK r \in Nat : r = Len(rest)
  BY <1>3
<1>8. << cursor.left >> \in Seq(Trees) /\ Len(<< cursor.left >>) = 1
  BY <1>2 DEF Trees
<1>9. Len(<< cursor.left >> \o rest) = 1 + r
  BY ONLY <1>3, <1>7, <1>8
<1>10. Len(SubSeq(given, e + 1, n)) = n - e
  BY ONLY <1>5
<1>11. r = n - (e + 1) /\ e + 1 <= n
  <2>1. 1 + r = n - e
    BY ONLY <1>6, <1>9, <1>10
  <2>2. r \in Nat /\ n \in Nat /\ e \in Nat
    OBVIOUS
  <2> QED BY ONLY <2>1, <2>2
<1>12. given[e + 1] = cursor.left
  <2>1. SubSeq(given, e + 1, n)[1] = given[e + 1]
    BY ONLY <1>5, <1>11
  <2>2. (<< cursor.left >> \o rest)[1] = cursor.left
    BY ONLY <1>3, <1>8
  <2> QED BY <1>6, <2>1, <2>2
<1>13. rest = SubSeq(given, e + 2, n)
  <2>1. Len(SubSeq(given, e + 2, n)) = r
    BY ONLY <1>5, <1>11
  <2>2. ASSUME NEW i \in 1..r PROVE rest[i] = SubSeq(given, e + 2, n)[i]
    <3>1. (<< cursor.left >> \o rest)[i + 1] = rest[i]
      BY ONLY <1>3, <1>7, <1>8, <2>2
    <3>2. SubSeq(given, e + 1, n)[i + 1] = given[e + 1 + i]
      BY ONLY <1>5, <1>11, <1>7
    <3>3. SubSeq(given, e + 2, n)[i] = given[e + 1 + i]
      BY ONLY <1>5, <1>11, <1>7
    <3> QED BY <1>6, <3>1, <3>2, <3>3
  <2>3. SubSeq(given, e + 2, n) \in Seq(Trees)
    BY ONLY <1>5, <1>11
  <2> QED BY ONLY <1>3, <1>7, <2>1, <2>2, <2>3
<1>14. n - r = e + 1 /\ e + 1 \in 1..n
  BY ONLY <1>5, <1>7, <1>11
<1> QED BY <1>2, <1>3, <1>5, <1>7, <1>12, <1>13, <1>14

\* Taking it.
LEMMA NextTaken ==
  ASSUME IInv, program \in Program, Extraction, cursor # NULL,
         cursor' = cursor.right, program' = program
  PROVE  /\ Given' = Given /\ Extracted' = Extracted + 1 /\ Extracted \in Nat
         /\ Extracted' \in 1..Len(Given)
         /\ Given[Extracted + 1] = cursor.left /\ cursor.left \in Node
         /\ Definitions[cursor'] = SubSeq(Given, Extracted' + 1, Len(Given))
<1>1. Given' = Given
  BY DEF Given
<1>2. Extracted' = Extracted + 1
  BY <1>1, AtCursor DEF Extracted
<1>3. Extracted \in Nat /\ Extracted' + 1 = Extracted + 2
  BY <1>2, AtCursor
<1> QED BY <1>1, <1>2, <1>3, AtCursor

\* Between two definitions.
LEMMA Between ==
  ASSUME IInv, walk = <<>>
  PROVE  /\ SeenNow = GlobalNames
         /\ GlobalNames = GlobalsOf(Given, Extracted)
         /\ OpenBlocks = {} /\ ~ Initializing
         /\ Len(name_scope) = 1
<1>1. Len(walk) = 0 /\ ~ (walk # <<>>)
  OBVIOUS
<1>2. 1..Len(walk) = {}
  BY <1>1
<1>3. OpenBlocks = {} /\ OpenParameterScopes = {} /\ OpenBodyScopes = {}
  BY <1>2 DEF OpenBlocks, OpenParameterScopes, OpenBodyScopes, Open
<1>4. GlobalNames = GlobalsOf(Given, Extracted) /\ ~ Initializing
  BY <1>1 DEF GlobalNames, Initializing
<1>5. SeenNow = GlobalNames
  <2>1. 1..(Len(walk) + 1 - 1) = {}
    BY <1>1
  <2>2. UNION {Added(j) : j \in 1..(Len(walk) + 1 - 1)} = {}
    BY <2>1
  <2>3. SeenNow = GlobalNames \cup UNION {Added(j) : j \in 1..(Len(walk) + 1 - 1)}
    BY DEF SeenNow, SeenBy
  <2> QED BY <2>2, <2>3
<1>6. Len(name_scope) = 1
  <2>1. Cardinality({}) = 0
    BY FS_EmptySet
  <2> QED BY <1>3, <2>1 DEF IInv, ScopesMatchWalk
<1> QED BY <1>3, <1>4, <1>5, <1>6

\* The next definition is entered: all it needs is still to be looked for.
LEMMA SubjectEntered ==
  ASSUME NEW d \in Node, d.type \in {"NVAR", "NFUN"},
         walk' = << [node |-> d, stage |-> COMPILING_LEFT] >>,
         Len(name_scope) = 1, name_scope' = name_scope, NamesIn(1) = GlobalNames'
  PROVE  Subject' = d /\ ScopesHold' /\ NeedsToCome' /\ ReturnsFound'
<1> USE DEF COMPILING_LEFT, COMPILED_LEFT, COMPILING_RIGHT, COMPILED_RIGHT
<1>1. Len(walk') = 1 /\ walk'[1].node = d /\ walk'[1].stage = 0 /\ walk' # <<>>
  OBVIOUS
<1>2. Subject' = d
  BY <1>1 DEF Subject
<1>3. 1..1 = {1} /\ 1..Len(walk') = {1}
  BY <1>1
<1>4. OpenBlocks' = {}
  BY <1>1, <1>3 DEF OpenBlocks, Open
<1>5. SeenBy(1)' = GlobalNames'
  BY SeenFirst
<1>6. SeenNow' = GlobalNames'
  <2>1. SeenBy(2)' = SeenBy(1)' \cup Added(1)' /\ SeenNow' = SeenBy(2)'
    BY <1>1, SeenBehind
  <2>2. Added(1)' = {}
    BY <1>1 DEF Added
  <2> QED BY <1>5, <2>1, <2>2
<1>7. NamesIn(1)' = GlobalNames'
  <2>1. \A u \in 1..1 : name_scope'[u] = name_scope[u]
    OBVIOUS
  <2> QED BY <2>1, NamesKept
<1>8. ScopesHold'
  <2>1. NamesIn(Len(name_scope))' = SeenNow'
    BY <1>6, <1>7 DEF NamesIn
  <2> QED BY <1>4, <1>7, <2>1 DEF ScopesHold
<1>9. NamesToCome(1)' = Free[d] /\ CallsToCome(1)' = CallsOf[d]
  <2>1. /\ Free[d] = (IF d.type \in {"VAR", "ASS"} THEN {d.value} ELSE {})
                       \cup (IF d.type = "NFUN" THEN {} ELSE Free[d.left])
                       \cup (Free[d.right] \ Binds[d.left])
        /\ CallsOf[d] = (IF d.type = "CALL" THEN {<<d.value, ChainOf(d.right)>>} ELSE {})
                          \cup CallsOf[d.left] \cup CallsOf[d.right]
    BY FreeOf, CallsOfOf
  <2> QED BY <1>1, <2>1 DEF NamesToCome, CallsToCome
<1>10. NeedsToCome'
  <2>1. {j \in 1..Len(walk') : walk'[j].node.type # "ARG"} = {1}
    BY <1>1, <1>3
  <2>2. Free[Subject'] \ GlobalNames' =
          UNION {NamesToCome(k)' \ SeenBy(k)' :
                   k \in {j \in 1..Len(walk') : walk'[j].node.type # "ARG"}}
    BY <1>2, <1>5, <1>9, <2>1
  <2>3. CallsOf[Subject'] \ Known' = UNION {CallsToCome(k)' \ Known' : k \in 1..Len(walk')}
    BY <1>2, <1>3, <1>9
  <2> QED BY <2>2, <2>3 DEF NeedsToCome
<1>11. ReturnsFound'
  BY <1>1 DEF ReturnsFound
<1> QED BY <1>2, <1>8, <1>10, <1>11

\* The names of the globals between two definitions.
LEMMA GlobalsDeclared ==
  ASSUME IInv, walk = <<>>, ScopesHold
  PROVE  /\ NamesIn(1) = GlobalsOf(Given, Extracted)
         /\ Len(name_scope) = 1 /\ ~ Initializing
BY Between DEF ScopesHold

\* The next definition adds what it declares and whether it is a function.
LEMMA OneMore ==
  ASSUME NEW defs, NEW i \in Nat, NEW j \in Nat, j = i + 1
  PROVE  /\ 1..j = (1..i) \cup {j}
         /\ GlobalsOf(defs, j) = GlobalsOf(defs, i) \cup Binds[defs[j]]
         /\ defs[j].type # "NFUN" =>
              /\ FunctionsOf(defs, j) = FunctionsOf(defs, i)
              /\ SignaturesOf(defs, j) = SignaturesOf(defs, i)
         /\ defs[j].type = "NFUN" =>
              /\ FunctionsOf(defs, j) = FunctionsOf(defs, i) \cup {j}
              /\ SignaturesOf(defs, j) =
                   SignaturesOf(defs, i) \cup {<<defs[j].value, ChainOf(defs[j].left)>>}
<1>1. 1..j = (1..i) \cup {j}
  OBVIOUS
<1>2. GlobalsOf(defs, j) = GlobalsOf(defs, i) \cup Binds[defs[j]]
  BY ONLY <1>1 DEF GlobalsOf
<1>3. ASSUME defs[j].type # "NFUN"
      PROVE  /\ FunctionsOf(defs, j) = FunctionsOf(defs, i)
             /\ SignaturesOf(defs, j) = SignaturesOf(defs, i)
  <2>1. FunctionsOf(defs, j) = FunctionsOf(defs, i)
    BY ONLY <1>1, <1>3 DEF FunctionsOf
  <2> QED BY ONLY <2>1 DEF SignaturesOf
<1>4. ASSUME defs[j].type = "NFUN"
      PROVE  /\ FunctionsOf(defs, j) = FunctionsOf(defs, i) \cup {j}
             /\ SignaturesOf(defs, j) =
                  SignaturesOf(defs, i) \cup {<<defs[j].value, ChainOf(defs[j].left)>>}
  <2>1. FunctionsOf(defs, j) = FunctionsOf(defs, i) \cup {j}
    BY ONLY <1>1, <1>4 DEF FunctionsOf
  <2> QED BY ONLY <2>1 DEF SignaturesOf
<1> QED BY <1>1, <1>2, <1>3, <1>4

-----------------------------------------------------------------------------
(* The driver keeps the invariant.                                         *)

\* No function is compiled before all declarations are extracted.
LEMMA NoneCompiledYet ==
  ASSUME IInv, CodeInv, phase = "declarations"
  PROVE  next_func = 1 /\ Compiled = {}
<1>1. next_func = 1
  BY DEF CodeInv, FunctionOrder
<1> QED BY <1>1 DEF Compiled

\* extract_declarations turns to the initializer of a global variable.
LEMMA VariableExtracted ==
  ASSUME IInv, CodeInv, extract_variable, UNCHANGED program, RulesInv
  PROVE  RulesInv'
<1>1. /\ walk = <<>> /\ phase = "declarations" /\ cursor # NULL /\ cursor.left.type = "NVAR"
      /\ walk' = Enter(walk, cursor.left) /\ cursor' = cursor.right
      /\ UNCHANGED <<phase, next_func, functions, name_scope, program>>
  BY DEF extract_variable, Extracting, scoping
<1>2. /\ program \in Program /\ Extraction /\ Checked /\ ScopesHold
  BY <1>1 DEF RulesInv
<1>3. /\ Given' = Given /\ Extracted' = Extracted + 1 /\ Extracted \in Nat
      /\ Extracted' \in 1..Len(Given)
      /\ Given[Extracted + 1] = cursor.left /\ cursor.left \in Node
      /\ Definitions[cursor'] = SubSeq(Given, Extracted' + 1, Len(Given))
  BY <1>1, <1>2, NextTaken
<1>4. walk' = << [node |-> cursor.left, stage |-> COMPILING_LEFT] >>
  <2>1. cursor.left # NULL
    BY <1>3, NodeAssumption
  <2>2. walk' = Append(<<>>, [node |-> cursor.left, stage |-> COMPILING_LEFT])
    BY <1>1, <2>1 DEF Enter
  <2> QED BY ONLY <2>2
<1>5. PICK defs, i, j : defs = Given /\ i = Extracted /\ i \in Nat /\ j = i + 1 /\ j \in Nat
  <2>1. Extracted \in Nat /\ Extracted + 1 \in Nat
    BY <1>3
  <2> QED BY ONLY <2>1
<1>6. /\ 1..j = (1..i) \cup {j}
      /\ FunctionsOf(defs, j) = FunctionsOf(defs, i)
      /\ SignaturesOf(defs, j) = SignaturesOf(defs, i)
  <2>1. defs[j].type # "NFUN"
    BY <1>1, <1>3, <1>5
  <2> QED BY <1>5, <2>1, OneMore
<1>7. Given' = defs /\ Extracted' = j /\ defs[j] = cursor.left
  BY <1>3, <1>5
<1>8. walk' # <<>> /\ Initializing'
  BY <1>1, <1>4 DEF Initializing
<1>9. GlobalNames' = GlobalsOf(defs, i)
  <2>1. GlobalNames' = GlobalsOf(Given', Extracted' - 1)
    BY <1>8 DEF GlobalNames, GlobalsOf
  <2>2. Extracted' - 1 = i
    BY ONLY <1>5, <1>7
  <2> QED BY <1>7, <2>1, <2>2
<1>10. NamesIn(1) = GlobalsOf(defs, i) /\ Len(name_scope) = 1 /\ ~ Initializing
  BY <1>1, <1>2, <1>5, GlobalsDeclared
<1>11. Subject' = cursor.left /\ ScopesHold' /\ NeedsToCome' /\ ReturnsFound'
  BY <1>1, <1>3, <1>4, <1>9, <1>10, SubjectEntered
<1>12. Extraction'
  <2>1. /\ Extracted' \in 0..Len(Given')
        /\ Definitions[cursor'] = SubSeq(Given', Extracted' + 1, Len(Given'))
        /\ Extracted' > 0
    BY <1>3
  <2>2. Subject' = Given'[Extracted'] /\ (Initializing' <=> Subject'.type = "NVAR")
    BY <1>1, <1>7, <1>8, <1>11
  <2>3. Known' = Known
    <3>1. Known' = SignaturesOf(Given', Extracted')
      BY DEF Known
    <3> QED BY <1>5, <1>6, <1>7, <3>1 DEF Known
  <2>4. Known' = {<<functions'[k].name, functions'[k].arg_cnt>> : k \in 1..Len(functions')}
    BY <1>1, <1>2, <2>3 DEF Extraction
  <2>5. FunctionsOf(Given', Extracted') = FunctionsOf(Given, Extracted)
    BY <1>5, <1>6, <1>7
  <2>6. /\ {NULL} \cup {Given[k] : k \in FunctionsOf(Given, Extracted)} =
             {functions[k].node : k \in 1..Len(functions)}
        /\ \A k \in FunctionsOf(Given, Extracted) :
             /\ Given[k].value \notin {"print", "read", "sqrt"}
             /\ \A l \in FunctionsOf(Given, Extracted) : Given[k].value = Given[l].value => k = l
    BY <1>2 DEF Extraction
  <2>7. {Given'[k] : k \in FunctionsOf(Given', Extracted')}
          = {Given[k] : k \in FunctionsOf(Given, Extracted)}
    BY <1>3, <2>5
  <2>8. {functions'[k].node : k \in 1..Len(functions')}
          = {functions[k].node : k \in 1..Len(functions)}
    BY <1>1
  <2>9. /\ {NULL} \cup {Given'[k] : k \in FunctionsOf(Given', Extracted')} =
             {functions'[k].node : k \in 1..Len(functions')}
        /\ \A k \in FunctionsOf(Given', Extracted') :
             /\ Given'[k].value \notin {"print", "read", "sqrt"}
             /\ \A l \in FunctionsOf(Given', Extracted') : Given'[k].value = Given'[l].value => k = l
    BY ONLY <1>3, <2>5, <2>6, <2>7, <2>8
  <2>10. phase' # "functions"
    BY <1>1
  <2> QED BY <1>8, <2>1, <2>2, <2>4, <2>9, <2>10 DEF Extraction, FunctionsOf
<1>13. Checked'
  <2>1. Compiled' = {}
    <3>1. next_func' = 1
      BY <1>1, NoneCompiledYet
    <3> QED BY <3>1 DEF Compiled
  <2>2. ASSUME NEW k \in 1..j \ FunctionsOf(defs, j), k # j
        PROVE  Supplied(defs, k, k - 1)
    <3>1. k \in 1..i \ FunctionsOf(defs, i)
      BY <1>6, <2>2
    <3> QED BY <1>2, <1>5, <1>10, <3>1 DEF Checked
  <2>3. FunctionsOf(Given, Extracted)' = FunctionsOf(defs, j)
    BY <1>7 DEF FunctionsOf
  <2>4. \A k : Supplied(Given, k, k - 1)' = Supplied(defs, k, k - 1)
    BY <1>7 DEF Supplied, GlobalsOf, SignaturesOf, FunctionsOf
  <2>5. ASSUME NEW k \in 1..Extracted' \ FunctionsOf(Given, Extracted)'
        PROVE  Supplied(Given, k, k - 1)' \/ (Initializing' /\ k = Extracted')
    BY <1>7, <1>8, <2>2, <2>3, <2>4
  <2> QED BY <2>1, <2>5 DEF Checked
<1> QED BY <1>1, <1>2, <1>11, <1>12, <1>13 DEF RulesInv

\* extract_declarations puts a function into the table.
LEMMA FunctionExtracted ==
  ASSUME IInv, CodeInv, extract_function, UNCHANGED program, RulesInv
  PROVE  RulesInv'
<1> DEFINE name == cursor.left.value
           args == ChainOf(cursor.left.left)
           f    == function(cursor.left, Len(heap) + 1, name, args)
<1>1. /\ walk = <<>> /\ phase = "declarations" /\ cursor # NULL /\ cursor.left.type = "NFUN"
      /\ ~ Defined(name) /\ functions' = Append(functions, f) /\ cursor' = cursor.right
      /\ UNCHANGED <<phase, next_func, walk, name_scope, program>>
  BY DEF extract_function, Extracting, scoping
<1>2. /\ program \in Program /\ Extraction /\ Checked /\ ScopesHold
  BY <1>1 DEF RulesInv
<1>3. /\ Given' = Given /\ Extracted' = Extracted + 1 /\ Extracted \in Nat
      /\ Extracted' \in 1..Len(Given)
      /\ Given[Extracted + 1] = cursor.left /\ cursor.left \in Node
      /\ Definitions[cursor'] = SubSeq(Given, Extracted' + 1, Len(Given))
  BY <1>1, <1>2, NextTaken
<1>4. f.node = cursor.left /\ f.name = name /\ f.arg_cnt = args
  BY DEF function
<1> HIDE DEF name, args, f
<1>5. PICK defs, i, j : defs = Given /\ i = Extracted /\ i \in Nat /\ j = i + 1 /\ j \in Nat
  <2>1. Extracted \in Nat /\ Extracted + 1 \in Nat
    BY <1>3
  <2> QED BY ONLY <2>1
<1>6. defs[j] = cursor.left /\ defs[j].type = "NFUN"
      /\ defs[j].value = name /\ ChainOf(defs[j].left) = args
  BY <1>1, <1>3, <1>5 DEF name, args
<1>7. /\ 1..j = (1..i) \cup {j}
      /\ GlobalsOf(defs, j) = GlobalsOf(defs, i) \cup Binds[defs[j]]
      /\ FunctionsOf(defs, j) = FunctionsOf(defs, i) \cup {j}
      /\ SignaturesOf(defs, j) = SignaturesOf(defs, i) \cup {<<name, args>>}
  <2>1. /\ 1..j = (1..i) \cup {j}
        /\ GlobalsOf(defs, j) = GlobalsOf(defs, i) \cup Binds[defs[j]]
        /\ defs[j].type = "NFUN" =>
             /\ FunctionsOf(defs, j) = FunctionsOf(defs, i) \cup {j}
             /\ SignaturesOf(defs, j) =
                  SignaturesOf(defs, i) \cup {<<defs[j].value, ChainOf(defs[j].left)>>}
    BY <1>5, OneMore
  <2> QED BY ONLY <1>6, <2>1
<1>8. Given' = defs /\ Extracted' = j
  BY <1>3, <1>5
<1>9. walk' = <<>> /\ ~ Initializing'
  BY <1>1 DEF Initializing
<1>10. PICK m : /\ m = Len(functions) /\ m \in Nat /\ Len(functions') = m + 1
                /\ 1..(m + 1) = (1..m) \cup {m + 1}
                /\ \A k \in 1..m : functions'[k] = functions[k]
                /\ functions'[m + 1] = f
  <2>1. functions \in Seq(Function)
    BY DEF IInv, TypeOK
  <2>2. Len(functions) \in Nat
    BY ONLY <2>1
  <2>3. /\ Len(functions') = Len(functions) + 1
        /\ \A k \in 1..Len(functions) : functions'[k] = functions[k]
        /\ functions'[Len(functions) + 1] = f
    BY ONLY <1>1, <2>1
  <2>4. 1..(Len(functions) + 1) = (1..Len(functions)) \cup {Len(functions) + 1}
    BY ONLY <2>2
  <2> QED BY ONLY <2>2, <2>3, <2>4
<1>11. NamesIn(1) = GlobalsOf(defs, i) /\ Len(name_scope) = 1 /\ ~ Initializing
  BY <1>1, <1>2, <1>5, GlobalsDeclared
<1>12. /\ SeenNow' = GlobalNames' /\ GlobalNames' = GlobalsOf(defs, j)
       /\ OpenBlocks' = {} /\ NeedsToCome' /\ ReturnsFound'
  BY <1>8, <1>9, SeenAtEnd
<1>13. ScopesHold'
  <2>1. NamesIn(1)' = NamesIn(1)
    BY <1>1 DEF NamesIn
  <2>2. Binds[defs[j]] = {}
    BY <1>3, <1>6, DeclaredNames
  <2>3. NamesIn(Len(name_scope))' = SeenNow'
    BY <1>1, <1>7, <1>11, <1>12, <2>1, <2>2 DEF NamesIn
  <2> QED BY <1>9, <1>12, <2>3 DEF ScopesHold
<1>14. /\ SignaturesOf(defs, i) = {<<functions[k].name, functions[k].arg_cnt>> : k \in 1..m}
       /\ {NULL} \cup {defs[k] : k \in FunctionsOf(defs, i)} = {functions[k].node : k \in 1..m}
       /\ \A k \in FunctionsOf(defs, i) :
            /\ defs[k].value \notin {"print", "read", "sqrt"}
            /\ \A l \in FunctionsOf(defs, i) : defs[k].value = defs[l].value => k = l
  <2>1. /\ SignaturesOf(Given, Extracted) =
             {<<functions[k].name, functions[k].arg_cnt>> : k \in 1..Len(functions)}
        /\ {NULL} \cup {Given[k] : k \in FunctionsOf(Given, Extracted)} =
             {functions[k].node : k \in 1..Len(functions)}
        /\ \A k \in FunctionsOf(Given, Extracted) :
             /\ Given[k].value \notin {"print", "read", "sqrt"}
             /\ \A l \in FunctionsOf(Given, Extracted) : Given[k].value = Given[l].value => k = l
    BY <1>2 DEF Extraction, Known
  <2>2. defs = Given /\ i = Extracted /\ m = Len(functions)
    BY <1>5, <1>10
  <2> QED BY ONLY <2>1, <2>2
<1>15. /\ name \notin {"print", "read", "sqrt"}
       /\ \A k \in FunctionsOf(defs, i) : defs[k].value # name
  BY <1>1, <1>2, <1>5, KnownNames
<1>16. Extraction'
  <2>1. /\ Extracted' \in 0..Len(Given')
        /\ Definitions[cursor'] = SubSeq(Given', Extracted' + 1, Len(Given'))
    BY <1>3
  <2>2. Known' = {<<functions'[k].name, functions'[k].arg_cnt>> : k \in 1..Len(functions')}
    <3>1. Known' = SignaturesOf(defs, j)
      BY <1>8 DEF Known, SignaturesOf, FunctionsOf
    <3>2. {<<functions'[k].name, functions'[k].arg_cnt>> : k \in 1..(m + 1)}
            = {<<functions[k].name, functions[k].arg_cnt>> : k \in 1..m} \cup {<<name, args>>}
      BY ONLY <1>4, <1>10
    <3> QED BY ONLY <1>7, <1>10, <1>14, <3>1, <3>2
  <2>3. {NULL} \cup {defs[k] : k \in FunctionsOf(defs, j)} = {functions'[k].node : k \in 1..(m + 1)}
    <3>1. {functions'[k].node : k \in 1..(m + 1)} = {functions[k].node : k \in 1..m} \cup {cursor.left}
      BY ONLY <1>4, <1>10
    <3>2. {defs[k] : k \in FunctionsOf(defs, j)} = {defs[k] : k \in FunctionsOf(defs, i)} \cup {cursor.left}
      BY ONLY <1>6, <1>7
    <3> QED BY ONLY <1>14, <3>1, <3>2
  <2>4. \A k \in FunctionsOf(defs, j) :
          /\ defs[k].value \notin {"print", "read", "sqrt"}
          /\ \A l \in FunctionsOf(defs, j) : defs[k].value = defs[l].value => k = l
    BY ONLY <1>6, <1>7, <1>14, <1>15
  <2>5. FunctionsOf(Given, Extracted)' = FunctionsOf(defs, j)
    BY <1>8 DEF FunctionsOf
  <2>6. {Given'[k] : k \in FunctionsOf(Given, Extracted)'} = {defs[k] : k \in FunctionsOf(defs, j)}
    BY ONLY <1>8, <2>5
  <2>7. phase' # "functions"
    BY <1>1
  <2>8. /\ {NULL} \cup {Given'[k] : k \in FunctionsOf(Given, Extracted)'} =
             {functions'[k].node : k \in 1..Len(functions')}
        /\ \A k \in FunctionsOf(Given, Extracted)' :
             /\ Given'[k].value \notin {"print", "read", "sqrt"}
             /\ \A l \in FunctionsOf(Given, Extracted)' : Given'[k].value = Given'[l].value => k = l
    BY ONLY <1>8, <1>10, <2>3, <2>4, <2>5, <2>6
  <2> QED BY <1>9, <2>1, <2>2, <2>7, <2>8 DEF Extraction
<1>17. Checked'
  <2>1. Compiled' = {}
    <3>1. next_func' = 1
      BY <1>1, NoneCompiledYet
    <3> QED BY <3>1 DEF Compiled
  <2>2. ASSUME NEW k \in 1..j \ FunctionsOf(defs, j)
        PROVE  Supplied(defs, k, k - 1)
    <3>1. k \in 1..i \ FunctionsOf(defs, i)
      BY <1>7, <2>2
    <3> QED BY <1>2, <1>5, <1>11, <3>1 DEF Checked
  <2>3. FunctionsOf(Given, Extracted)' = FunctionsOf(defs, j)
    BY <1>8 DEF FunctionsOf
  <2>4. \A k : Supplied(Given, k, k - 1)' = Supplied(defs, k, k - 1)
    BY <1>8 DEF Supplied, GlobalsOf, SignaturesOf, FunctionsOf
  <2>5. ASSUME NEW k \in 1..Extracted' \ FunctionsOf(Given, Extracted)'
        PROVE  Supplied(Given, k, k - 1)'
    BY <1>8, <2>2, <2>3, <2>4
  <2> QED BY <2>1, <2>5 DEF Checked
<1> QED BY <1>1, <1>2, <1>12, <1>13, <1>16, <1>17 DEF RulesInv

\* When no definition is taken, what is extracted stays so.
LEMMA NoneTaken ==
  ASSUME Extraction, UNCHANGED <<cursor, functions, program>>, ~ Initializing',
         walk' # <<>> => Subject'.type # "NVAR",
         phase' = "functions" => cursor = NULL /\ Defined("main")
  PROVE  /\ Extraction'
         /\ Given' = Given /\ Extracted' = Extracted
<1>1. Given' = Given /\ Extracted' = Extracted
  BY DEF Given, Extracted
<1>2. Known' = Known
  BY <1>1 DEF Known, SignaturesOf, FunctionsOf
<1>3. FunctionsOf(Given, Extracted)' = FunctionsOf(Given, Extracted)
  BY <1>1 DEF FunctionsOf
<1>4. /\ {NULL} \cup {Given[k] : k \in FunctionsOf(Given, Extracted)} =
           {functions[k].node : k \in 1..Len(functions)}
      /\ \A k \in FunctionsOf(Given, Extracted) :
           /\ Given[k].value \notin {"print", "read", "sqrt"}
           /\ \A l \in FunctionsOf(Given, Extracted) : Given[k].value = Given[l].value => k = l
  BY DEF Extraction
<1>5. {Given'[k] : k \in FunctionsOf(Given, Extracted)'}
        = {Given[k] : k \in FunctionsOf(Given, Extracted)}
  BY ONLY <1>1, <1>3
<1>6. functions' = functions
  OBVIOUS
<1>7. /\ {NULL} \cup {Given'[k] : k \in FunctionsOf(Given, Extracted)'} =
           {functions'[k].node : k \in 1..Len(functions')}
      /\ \A k \in FunctionsOf(Given, Extracted)' :
           /\ Given'[k].value \notin {"print", "read", "sqrt"}
           /\ \A l \in FunctionsOf(Given, Extracted)' : Given'[k].value = Given'[l].value => k = l
  <2>1. {functions'[k].node : k \in 1..Len(functions')} = {functions[k].node : k \in 1..Len(functions)}
    BY ONLY <1>6
  <2> QED BY ONLY <1>1, <1>3, <1>4, <1>5, <2>1
<1>8. /\ Extracted' \in 0..Len(Given')
      /\ Definitions[cursor'] = SubSeq(Given', Extracted' + 1, Len(Given'))
  BY <1>1 DEF Extraction
<1>9. phase' = "functions" => cursor' = NULL /\ Defined("main")'
  BY DEF Defined
<1>10. Known' = {<<functions'[k].name, functions'[k].arg_cnt>> : k \in 1..Len(functions')}
  BY <1>2, <1>6 DEF Extraction
<1>11. walk' # <<>> => (Initializing' <=> Subject'.type = "NVAR")
  OBVIOUS
<1>12. Extraction'
  BY <1>7, <1>8, <1>9, <1>10, <1>11 DEF Extraction
<1> QED BY <1>1, <1>12

\* When no function is finished, what is checked stays so.
LEMMA NoneFinished ==
  ASSUME Checked, Given' = Given, Extracted' = Extracted, functions' = functions,
         Compiled' = Compiled, ~ Initializing
  PROVE  Checked'
<1>1. FunctionsOf(Given, Extracted)' = FunctionsOf(Given, Extracted)
  BY DEF FunctionsOf
<1>2. \A i : Supplied(Given, i, i - 1)' = Supplied(Given, i, i - 1)
  BY DEF Supplied, GlobalsOf, SignaturesOf, FunctionsOf
<1>3. \A i : Supplied(Given, i, Len(Given))' = Supplied(Given, i, Len(Given))
  BY DEF Supplied, GlobalsOf, SignaturesOf, FunctionsOf
<1> QED BY <1>1, <1>2, <1>3 DEF Checked

\* When no definition is entered, the names stay declared.
LEMMA NoneEntered ==
  ASSUME IInv, walk = <<>>, walk' = <<>>, ScopesHold, name_scope' = name_scope,
         Given' = Given, Extracted' = Extracted
  PROVE  ScopesHold' /\ NeedsToCome' /\ ReturnsFound'
<1>1. /\ SeenNow' = GlobalNames' /\ GlobalNames' = GlobalsOf(Given, Extracted)
      /\ OpenBlocks' = {} /\ NeedsToCome' /\ ReturnsFound'
  BY SeenAtEnd
<1>2. NamesIn(1) = GlobalsOf(Given, Extracted) /\ Len(name_scope) = 1
  BY GlobalsDeclared
<1>3. NamesIn(Len(name_scope))' = SeenNow'
  BY <1>1, <1>2 DEF NamesIn
<1>4. ~ (walk' # <<>>)
  OBVIOUS
<1> QED BY <1>1, <1>3, <1>4 DEF ScopesHold

\* All definitions are extracted, and there is a main.
LEMMA EntryEmitted ==
  ASSUME IInv, CodeInv, emit_entry, UNCHANGED program, RulesInv
  PROVE  RulesInv'
<1>1. /\ walk = <<>> /\ phase = "declarations" /\ cursor = NULL /\ Defined("main")
      /\ phase' = "functions"
      /\ UNCHANGED <<cursor, next_func, functions, walk, name_scope, program>>
  BY DEF emit_entry, Extracting, scoping
<1>2. /\ program \in Program /\ Extraction /\ Checked /\ ScopesHold
  BY <1>1 DEF RulesInv
<1>3. walk' = <<>> /\ ~ Initializing' /\ ~ Initializing
  BY <1>1 DEF Initializing
<1>4. Extraction' /\ Given' = Given /\ Extracted' = Extracted
  BY <1>1, <1>2, <1>3, NoneTaken
<1>5. Checked'
  <2>1. Compiled' = Compiled
    BY <1>1 DEF Compiled
  <2> QED BY <1>1, <1>2, <1>3, <1>4, <2>1, NoneFinished
<1>6. ScopesHold' /\ NeedsToCome' /\ ReturnsFound'
  BY <1>1, <1>2, <1>4, NoneEntered
<1> QED BY <1>1, <1>2, <1>4, <1>5, <1>6 DEF RulesInv

\* compile_node is called for the next function of the table.
LEMMA FunctionEntered ==
  ASSUME IInv, CodeInv, compile_next_function, UNCHANGED program, RulesInv
  PROVE  RulesInv'
<1>1. /\ walk = <<>> /\ phase = "functions" /\ next_func <= Len(functions)
      /\ walk' = Enter(walk, functions[next_func].node) /\ next_func' = next_func + 1
      /\ UNCHANGED <<phase, cursor, functions, name_scope, program>>
  BY DEF compile_next_function, scoping
<1>2. /\ program \in Program /\ Extraction /\ Checked /\ ScopesHold
  BY <1>1 DEF RulesInv
<1>3. ~ Initializing' /\ ~ Initializing
  BY <1>1 DEF Initializing
<1>4. cursor = NULL /\ Defined("main")
  BY <1>1, <1>2 DEF Extraction
<1>5. next_func \in 1..Len(functions) /\ functions \in Seq(Function)
  <2>1. functions \in Seq(Function) /\ next_func \in Nat \ {0}
    BY DEF IInv, TypeOK
  <2> QED BY ONLY <1>1, <2>1
<1>6. CASE functions[next_func].node = NULL
  <2>1. walk' = <<>>
    BY <1>1, <1>6 DEF Enter
  <2>2. Extraction' /\ Given' = Given /\ Extracted' = Extracted
    BY <1>1, <1>2, <1>3, <1>4, <2>1, NoneTaken
  <2>3. Compiled' = Compiled
    BY <1>1, <1>5, <1>6, <2>1 DEF Compiled
  <2>4. Checked'
    BY <1>1, <1>2, <1>3, <2>2, <2>3, NoneFinished
  <2>5. ScopesHold' /\ NeedsToCome' /\ ReturnsFound'
    BY <1>1, <1>2, <2>1, <2>2, NoneEntered
  <2> QED BY <1>1, <1>2, <2>2, <2>4, <2>5 DEF RulesInv
<1>7. CASE functions[next_func].node # NULL
  <2>1. PICK d \in Node : d = functions[next_func].node /\ d.type = "NFUN"
    <3>1. functions[next_func] \in Function
      BY ONLY <1>5
    <3>2. functions[next_func].node \in Node \cup {NULL}
      BY ONLY <3>1 DEF Function
    <3>3. functions[next_func].node.type = "NFUN"
      BY <1>5, <1>7 DEF IInv, FunctionTable
    <3> QED BY <1>7, <3>2, <3>3
  <2>2. walk' = << [node |-> d, stage |-> COMPILING_LEFT] >>
    <3>1. walk' = Append(<<>>, [node |-> d, stage |-> COMPILING_LEFT])
      BY <1>1, <1>7, <2>1 DEF Enter
    <3> QED BY ONLY <3>1
  <2>3. Given' = Given /\ Extracted' = Extracted
    BY <1>1 DEF Given, Extracted
  <2>4. GlobalNames' = GlobalsOf(Given, Extracted)
    BY <1>3, <2>3 DEF GlobalNames, GlobalsOf
  <2>5. NamesIn(1) = GlobalsOf(Given, Extracted) /\ Len(name_scope) = 1
    BY <1>1, <1>2, GlobalsDeclared
  <2>6. Subject' = d /\ ScopesHold' /\ NeedsToCome' /\ ReturnsFound'
    BY <1>1, <2>1, <2>2, <2>4, <2>5, SubjectEntered
  <2>7. Extraction'
    <3>1. Subject'.type # "NVAR"
      BY <2>1, <2>6
    <3> QED BY <1>1, <1>2, <1>3, <1>4, <3>1, NoneTaken
  <2>8. Compiled' = Compiled
    <3>1. walk' # <<>>
      BY <2>2
    <3> QED BY <1>1, <1>5, <3>1 DEF Compiled
  <2>9. Checked'
    BY <1>1, <1>2, <1>3, <2>3, <2>8, NoneFinished
  <2> QED BY <1>1, <1>2, <2>6, <2>7, <2>9 DEF RulesInv
<1> QED BY <1>6, <1>7

-----------------------------------------------------------------------------
(* The verdict.                                                            *)

\* When all is compiled, the program obeys the rules.
LEMMA AllObey ==
  ASSUME IInv, CodeInv, all_compiled, UNCHANGED program, RulesInv
  PROVE  RulesInv'
<1>1. /\ walk = <<>> /\ phase = "functions" /\ next_func > Len(functions)
      /\ phase' = "done" /\ program' = program
  BY DEF all_compiled
<1>2. /\ program \in Program /\ Extraction /\ Checked
  BY <1>1 DEF RulesInv
<1>3. Extracted = Len(Given) /\ Defined("main") /\ ~ Initializing
  BY <1>1, <1>2, GivenTypes DEF Extraction, Initializing
<1>4. PICK defs, n : defs = Given /\ n = Len(Given) /\ n = Extracted
  BY <1>3
<1>5. /\ {NULL} \cup {defs[j] : j \in FunctionsOf(defs, n)} =
           {functions[i].node : i \in 1..Len(functions)}
      /\ \A j \in FunctionsOf(defs, n) :
           /\ defs[j].value \notin {"print", "read", "sqrt"}
           /\ \A k \in FunctionsOf(defs, n) : defs[j].value = defs[k].value => j = k
  <2>1. /\ {NULL} \cup {Given[j] : j \in FunctionsOf(Given, Extracted)} =
             {functions[i].node : i \in 1..Len(functions)}
        /\ \A j \in FunctionsOf(Given, Extracted) :
             /\ Given[j].value \notin {"print", "read", "sqrt"}
             /\ \A k \in FunctionsOf(Given, Extracted) : Given[j].value = Given[k].value => j = k
    BY <1>2 DEF Extraction
  <2> QED BY ONLY <1>4, <2>1
<1>6. \E j \in FunctionsOf(defs, n) : defs[j].value = "main"
  BY <1>2, <1>3, <1>4, KnownNames
<1>7. ASSUME NEW j \in FunctionsOf(defs, n)
      PROVE  Supplied(defs, j, n) /\ ReturnsItself[defs[j].right.right]
  <2>1. PICK k \in 1..Len(functions) : functions[k].node = defs[j]
    BY <1>5
  <2>2. defs[j] # NULL
    <3>1. defs \in Seq(Node) /\ j \in 1..Len(defs)
      BY <1>2, <1>4, GivenNodes DEF FunctionsOf
    <3>2. defs[j] \in Node
      BY ONLY <3>1
    <3> QED BY <3>2, NodeAssumption
  <2>3. k < next_func - 1 \/ k = next_func - 1
    <3>1. functions \in Seq(Function) /\ next_func \in Nat
      BY DEF IInv, TypeOK
    <3> QED BY <1>1, <3>1
  <2>4. k \in Compiled
    BY <1>1, <2>1, <2>2, <2>3 DEF Compiled
  <2> QED BY <1>2, <1>4, <2>1, <2>4 DEF Checked
<1>8. ASSUME NEW i \in 1..n \ FunctionsOf(defs, n)
      PROVE  Supplied(defs, i, i - 1)
  BY <1>2, <1>3, <1>4 DEF Checked
<1>9. WellFormed(program)
  <2>1. defs = Definitions[program] /\ n = Len(Definitions[program])
    BY <1>4 DEF Given
  <2> QED BY ONLY <1>5, <1>6, <1>7, <1>8, <2>1 DEF WellFormed
<1> QED BY <1>1, <1>2, <1>9 DEF RulesInv

\* A function of a program that obeys the rules has a name of its own.
LEMMA NamesUnique ==
  ASSUME WellFormed(program)
  PROVE  /\ \E j \in FunctionsOf(Given, Len(Given)) : Given[j].value = "main"
         /\ \A j \in FunctionsOf(Given, Len(Given)) :
              /\ Given[j].value \notin {"print", "read", "sqrt"}
              /\ \A k \in FunctionsOf(Given, Len(Given)) : Given[j].value = Given[k].value => j = k
BY DEF WellFormed, Given

\* What the activation on top looks for and does not find, the definition lacks.
LEMMA LacksName ==
  ASSUME IInv, CodeInv, walk # <<>>, ScopesHold, NeedsToCome,
         Top.node.type \in {"ASS", "VAR"}, Top.stage = COMPILED_RIGHT,
         ~ Visible(name_scope, Top.node.value)
  PROVE  ~ (Free[Subject] \subseteq GlobalNames)
<1>1. PICK n : n \in Nat \ {0} /\ n = Len(walk) /\ walk \in Seq(Frame)
  <2>1. walk \in Seq(Frame) /\ walk # <<>>
    BY HandlerState
  <2>2. Len(walk) \in Nat \ {0}
    BY ONLY <2>1, EmptySeq
  <2> QED BY <2>1, <2>2
<1>2. Top = walk[n] /\ Top.node \in Node
  BY <1>1, HandlerState, TopTyped DEF Top
<1>3. Top.node.value \in Name
  BY <1>2, NodeFields DEF Named
<1>4. Top.node.value \in NamesToCome(n)
  BY <1>2 DEF NamesToCome
<1>5. Top.node.value \notin SeenNow
  <2>1. Top.node.value \notin NamesIn(Len(name_scope))
    BY DEF NamesIn, Visible
  <2> QED BY <2>1 DEF ScopesHold
<1>6. SeenBy(n) \subseteq SeenNow
  <2>1. PICK p \in Nat : p = n + 1
    BY <1>1
  <2>2. SeenBy(p) = SeenBy(n) \cup Added(n) /\ SeenNow = SeenBy(p)
    BY <1>1, <2>1, SeenBehind
  <2> QED BY <2>2
<1>7. n \in {j \in 1..Len(walk) : walk[j].node.type # "ARG"}
  BY <1>1, <1>2
<1>8. Top.node.value \in Free[Subject] \ GlobalNames
  BY <1>4, <1>5, <1>6, <1>7 DEF NeedsToCome
<1> QED BY <1>8

\* A call that is refused is one the definition may not make.
LEMMA LacksFunction ==
  ASSUME IInv, CodeInv, walk # <<>>, Extraction, NeedsToCome,
         Top.node.type = "CALL", Top.stage = COMPILED_RIGHT,
         Defined(Top.node.value) =>
           func_array_find_func(Top.node.value).arg_cnt # ChainOf(Top.node.right)
  PROVE  ~ (CallsOf[Subject] \subseteq Known)
<1>1. PICK n : n \in 1..Len(walk) /\ n = Len(walk)
  <2>1. walk \in Seq(Frame) /\ walk # <<>>
    BY HandlerState
  <2>2. Len(walk) \in Nat \ {0}
    BY ONLY <2>1, EmptySeq
  <2>3. Len(walk) \in 1..Len(walk)
    BY ONLY <2>2
  <2> QED BY <2>3
<1>2. Top = walk[n]
  BY <1>1 DEF Top
<1>3. <<Top.node.value, ChainOf(Top.node.right)>> \in CallsToCome(n)
  BY <1>2 DEF CallsToCome
<1>4. ASSUME <<Top.node.value, ChainOf(Top.node.right)>> \in Known PROVE FALSE
  <2>1. Known = {<<functions[j].name, functions[j].arg_cnt>> : j \in 1..Len(functions)}
    BY DEF Extraction
  <2>2. PICK i \in 1..Len(functions) :
          functions[i].name = Top.node.value /\ functions[i].arg_cnt = ChainOf(Top.node.right)
    BY <1>4, <2>1
  <2>3. Defined(Top.node.value) /\ functions \in Seq(Function)
    BY <2>2 DEF Defined, IInv, TypeOK
  <2>4. PICK k \in 1..Len(functions) :
          func_array_find_func(Top.node.value) = functions[k] /\ functions[k].name = Top.node.value
    BY <2>3, FunctionFound
  <2>5. i = k
    BY <2>2, <2>4 DEF CodeInv, FunctionOrder
  <2> QED BY <2>2, <2>3, <2>4, <2>5
<1>5. <<Top.node.value, ChainOf(Top.node.right)>> \in CallsOf[Subject] \ Known
  BY <1>1, <1>3, <1>4 DEF NeedsToCome
<1> QED BY <1>5

\* A function that is refused at its end has no return of its own.
LEMMA LacksReturn ==
  ASSUME IInv, CodeInv, walk # <<>>, ReturnsFound,
         Top.node.type = "NFUN", Top.stage = COMPILED_RIGHT, ~ has_return
  PROVE  Subject.type = "NFUN" /\ ~ ReturnsItself[Subject.right.right]
<1> USE DEF COMPILING_LEFT, COMPILED_LEFT, COMPILING_RIGHT, COMPILED_RIGHT
<1>1. PICK n \in Nat : n = Len(walk) /\ n >= 1
  <2>1. walk \in Seq(Frame) /\ walk # <<>>
    BY HandlerState
  <2>2. Len(walk) \in Nat \ {0}
    BY ONLY <2>1, EmptySeq
  <2> QED BY <2>2
<1>2. Top = walk[n]
  BY <1>1 DEF Top
<1>3. n = 1
  <2>1. \A i \in 2..n : walk[i].node.type # "NFUN"
    BY <1>1 DEF IInv, WalkShape, ExpressionPart, BodyPart, Expression, Statement
  <2> QED BY <1>1, <1>2, <2>1
<1>4. Subject = Top.node /\ walk[1].stage = 3
  BY <1>2, <1>3 DEF Subject
<1>5. 2..n = {}
  BY <1>3
<1> QED BY <1>1, <1>4, <1>5 DEF ReturnsFound

\* A program that is refused does not obey the rules.
LEMMA Refused ==
  ASSUME IInv, CodeInv, Failure, UNCHANGED program, RulesInv
  PROVE  RulesInv'
<1>1. phase' = "failed" /\ phase \in {"declarations", "functions"}
  BY DEF Failure, UndefinedVariable, UndefinedFunction, WrongArgumentCount, MissingReturn,
         Redefinition, MissingMain, Fail, Handling, Extracting
<1>2. /\ program \in Program /\ Extraction /\ ScopesHold /\ NeedsToCome /\ ReturnsFound
  BY <1>1 DEF RulesInv
<1>3. SUFFICES ASSUME WellFormed(program) PROVE FALSE
  BY <1>1, <1>2 DEF RulesInv
<1>4. walk # <<>> => /\ Free[Subject] \subseteq GlobalNames
                     /\ CallsOf[Subject] \subseteq Known
                     /\ Subject.type = "NFUN" => ReturnsItself[Subject.right.right]
  BY <1>1, <1>2, <1>3, SubjectSupplied
<1>5. CASE UndefinedVariable
  BY <1>2, <1>4, <1>5, LacksName DEF UndefinedVariable, Handling
<1>6. CASE UndefinedFunction
  BY <1>2, <1>4, <1>6, LacksFunction DEF UndefinedFunction, Handling
<1>7. CASE WrongArgumentCount
  BY <1>2, <1>4, <1>7, LacksFunction DEF WrongArgumentCount, Handling
<1>8. CASE MissingReturn
  BY <1>2, <1>4, <1>8, LacksReturn DEF MissingReturn, Handling
<1>9. CASE Redefinition
  <2>1. cursor # NULL /\ cursor.left.type = "NFUN" /\ Defined(cursor.left.value)
    BY <1>9 DEF Redefinition
  <2>2. PICK e : /\ e = Extracted /\ e \in Nat /\ e + 1 \in 1..Len(Given)
                 /\ Given[e + 1] = cursor.left
    BY <1>2, <2>1, AtCursor
  <2>3. e + 1 \in FunctionsOf(Given, Len(Given))
    BY <2>1, <2>2 DEF FunctionsOf
  <2>4. cursor.left.value \notin {"print", "read", "sqrt"}
    BY <1>3, <2>2, <2>3, NamesUnique
  <2>5. PICK j \in FunctionsOf(Given, e) : Given[j].value = cursor.left.value
    BY <1>2, <2>1, <2>2, <2>4, KnownNames
  <2>6. j \in FunctionsOf(Given, Len(Given)) /\ j # e + 1
    <3>1. Len(Given) \in Nat
      BY <1>2, GivenTypes
    <3>2. j \in 1..e /\ Given[j].type = "NFUN"
      BY <2>5 DEF FunctionsOf
    <3>3. j \in 1..Len(Given) /\ j # e + 1
      BY ONLY <2>2, <3>1, <3>2
    <3> QED BY <3>2, <3>3 DEF FunctionsOf
  <2> QED BY <1>3, <2>2, <2>3, <2>5, <2>6, NamesUnique
<1>10. CASE MissingMain
  <2>1. cursor = NULL /\ ~ Defined("main")
    BY <1>10 DEF MissingMain
  <2>2. Extracted = Len(Given)
    BY <1>2, <2>1, GivenTypes
  <2> QED BY <1>2, <1>3, <2>1, <2>2, KnownNames, NamesUnique
<1> QED BY <1>5, <1>6, <1>7, <1>8, <1>9, <1>10 DEF Failure

-----------------------------------------------------------------------------
(* Every step.                                                             *)

\* The invariant holds of the generator before its first step.
LEMMA RulesInitially ==
  ASSUME RulesInit
  PROVE  RulesInv
<1>1. /\ phase = "declarations" /\ next_func = 1 /\ walk = <<>> /\ program = cursor
      /\ functions = << function(NULL, 2, "print", 1), function(NULL, 3, "read", 0),
                        function(NULL, 4, "sqrt", 1) >>
      /\ name_scope = << var_table(GLOBAL_BASE, TRUE) >>
      /\ program \in Program /\ Init
  BY DEF RulesInit, Init, table_stack_ctor
<1>2. IInv
  BY <1>1, InitialState
<1>3. Given \in Seq(Trees) /\ Extracted = 0 /\ Definitions[cursor] = Given
  <2>1. Given \in Seq(Trees) /\ Len(Given) \in Nat
    BY <1>1, <1>2, GivenTypes
  <2> QED BY <1>1, <2>1 DEF Given, Extracted
<1>4. PICK defs : defs = Given
  OBVIOUS
<1>5. Definitions[cursor] = SubSeq(Given, Extracted + 1, Len(Given)) /\ Extracted \in 0..Len(Given)
  <2>1. SubSeq(defs, 0 + 1, Len(defs)) = defs /\ 0 \in 0..Len(defs)
    <3>1. defs \in Seq(Trees)
      BY <1>3, <1>4
    <3> QED BY ONLY <3>1
  <2> QED BY <1>3, <1>4, <2>1
<1>6. 1..0 = {}
  OBVIOUS
<1>7. FunctionsOf(Given, Extracted) = {} /\ SignaturesOf(Given, Extracted) = stdlib
      /\ GlobalsOf(Given, Extracted) = {}
  BY <1>3, <1>6 DEF FunctionsOf, SignaturesOf, GlobalsOf
<1>8. /\ Len(functions) = 3 /\ 1..3 = {1, 2, 3}
      /\ functions[1] = function(NULL, 2, "print", 1) /\ functions[2] = function(NULL, 3, "read", 0)
      /\ functions[3] = function(NULL, 4, "sqrt", 1)
  BY <1>1
<1>9. Known = {<<functions[i].name, functions[i].arg_cnt>> : i \in 1..Len(functions)}
  <2>1. {<<functions[i].name, functions[i].arg_cnt>> : i \in 1..Len(functions)}
          = {<<"print", 1>>, <<"read", 0>>, <<"sqrt", 1>>}
    BY ONLY <1>8 DEF function
  <2> QED BY ONLY <1>7, <2>1 DEF Known, stdlib
<1>10. {functions[i].node : i \in 1..Len(functions)} = {NULL}
  BY ONLY <1>8 DEF function
<1>11. {Given[j] : j \in FunctionsOf(Given, Extracted)} = {}
  BY ONLY <1>7
<1>12. Extraction
  BY <1>1, <1>5, <1>7, <1>9, <1>10, <1>11 DEF Extraction, Initializing
<1>13. Checked
  <2>1. Compiled = {}
    BY ONLY <1>8 DEF Compiled, function
  <2> QED BY <1>3, <1>6, <2>1 DEF Checked
<1>14. ScopesHold
  <2>1. /\ SeenNow = {} /\ OpenBlocks = {} /\ Len(name_scope) = 1
    BY <1>1, <1>2, <1>7, Between
  <2>2. NamesIn(1) = {}
    <3>1. name_scope[1].vars = <<>>
      BY <1>1 DEF var_table
    <3>2. \A x : ~ Declares(name_scope[1], x)
      BY <3>1 DEF Declares
    <3>3. \A u \in 1..1 : u = 1
      OBVIOUS
    <3> QED BY <3>2, <3>3 DEF NamesIn
  <2> QED BY <1>1, <2>1, <2>2 DEF ScopesHold
<1>15. NeedsToCome /\ ReturnsFound
  BY <1>1 DEF NeedsToCome, ReturnsFound
<1> QED BY <1>1, <1>12, <1>13, <1>14, <1>15 DEF RulesInv

\* Nothing happens.
LEMMA RulesStutter ==
  ASSUME RulesInv, UNCHANGED <<vars, program>>
  PROVE  RulesInv'
<1>1. UNCHANGED <<phase, cursor, next_func, functions, walk, name_scope, has_return, program>>
  BY DEF vars, control, scoping, returns
<1>2. /\ Given' = Given /\ Extracted' = Extracted /\ Subject' = Subject
      /\ (Initializing' <=> Initializing)
  BY <1>1 DEF Given, Extracted, Subject, Initializing
<1>3. Known' = Known /\ GlobalNames' = GlobalNames
  BY <1>2 DEF Known, GlobalNames, SignaturesOf, FunctionsOf, GlobalsOf
<1>4. FunctionsOf(Given, Extracted)' = FunctionsOf(Given, Extracted)
  BY <1>2 DEF FunctionsOf
<1>5. Extraction => Extraction'
  <2>1. {Given'[j] : j \in FunctionsOf(Given, Extracted)'} = {Given[j] : j \in FunctionsOf(Given, Extracted)}
    BY ONLY <1>2, <1>4
  <2>2. {functions'[i].node : i \in 1..Len(functions')} = {functions[i].node : i \in 1..Len(functions)}
    BY ONLY <1>1
  <2>3. {<<functions'[i].name, functions'[i].arg_cnt>> : i \in 1..Len(functions')}
          = {<<functions[i].name, functions[i].arg_cnt>> : i \in 1..Len(functions)}
    BY ONLY <1>1
  <2>4. Defined("main")' <=> Defined("main")
    BY <1>1 DEF Defined
  <2> QED BY <1>1, <1>2, <1>3, <1>4, <2>1, <2>2, <2>3, <2>4 DEF Extraction
<1>6. Checked => Checked'
  <2>1. Compiled' = Compiled
    BY <1>1 DEF Compiled
  <2>2. \A i : Supplied(Given, i, i - 1)' = Supplied(Given, i, i - 1)
    BY <1>2 DEF Supplied, GlobalsOf, SignaturesOf, FunctionsOf
  <2>3. \A i : Supplied(Given, i, Len(Given))' = Supplied(Given, i, Len(Given))
    BY <1>2 DEF Supplied, GlobalsOf, SignaturesOf, FunctionsOf
  <2> QED BY <1>1, <1>2, <1>4, <2>1, <2>2, <2>3 DEF Checked
<1>7. \A k : Added(k)' = Added(k)
  BY <1>1 DEF Added
<1>8. \A k : SeenBy(k)' = SeenBy(k)
  BY <1>3, <1>7 DEF SeenBy
<1>9. SeenNow' = SeenNow
  BY <1>1, <1>3, <1>7 DEF SeenNow, SeenBy
<1>10. OpenBlocks' = OpenBlocks
  BY <1>1 DEF OpenBlocks, Open
<1>11. \A t : NamesIn(t)' = NamesIn(t)
  BY <1>1 DEF NamesIn
<1>12. ScopesHold => ScopesHold'
  <2>1. NamesIn(Len(name_scope))' = NamesIn(Len(name_scope))
    BY <1>1 DEF NamesIn
  <2>2. \A k : NamesIn(2 + Cardinality({i \in OpenBlocks : i <= k}))'
                 = NamesIn(2 + Cardinality({i \in OpenBlocks : i <= k}))
    BY <1>1, <1>10 DEF NamesIn
  <2> QED BY <1>1, <1>2, <1>3, <1>8, <1>9, <1>10, <1>11, <2>1, <2>2 DEF ScopesHold
<1>13. \A k : NamesToCome(k)' = NamesToCome(k) /\ CallsToCome(k)' = CallsToCome(k)
              /\ (ReturnToCome(k)' <=> ReturnToCome(k))
  BY <1>1 DEF NamesToCome, CallsToCome, ReturnToCome
<1>14. NeedsToCome => NeedsToCome'
  BY <1>1, <1>2, <1>3, <1>8, <1>13 DEF NeedsToCome
<1>15. ReturnsFound => ReturnsFound'
  BY <1>1, <1>2, <1>13 DEF ReturnsFound
<1> QED BY <1>1, <1>5, <1>6, <1>12, <1>14, <1>15 DEF RulesInv

\* Every step keeps the invariant.
LEMMA RulesStep ==
  ASSUME IInv, IInv', CodeInv, RulesInv, [RulesNext]_<<vars, program>>
  PROVE  RulesInv'
<1>1. CASE HandleNode /\ UNCHANGED program
  BY <1>1, HandlerKeepsRules
<1>2. CASE Driver /\ UNCHANGED program
  BY <1>2, VariableExtracted, FunctionExtracted, EntryEmitted, FunctionEntered, AllObey DEF Driver
<1>3. CASE Failure /\ UNCHANGED program
  BY <1>3, Refused
<1>4. CASE UNCHANGED <<vars, program>>
  BY <1>4, RulesStutter
<1> QED BY <1>1, <1>2, <1>3, <1>4 DEF RulesNext, Next, CodeGenStep, Returned

\* For every program, while it is compiled the tables hold the names that the
\* rules make visible, what a definition needs and has not got is what will not
\* be found, and what has been compiled obeys the rules (compiler.cpp, all of
\* compile_node and its handlers).
THEOREM RulesInvariance == RulesSpec => []RulesInv
<1>1. RulesInit => RulesInv
  BY RulesInitially
<1>2. IInv /\ IInv' /\ CodeInv /\ RulesInv /\ [RulesNext]_<<vars, program>> => RulesInv'
  BY RulesStep
<1>3. RulesSpec => Spec
  <2>1. RulesInit => Init
    BY DEF RulesInit
  <2>2. [RulesNext]_<<vars, program>> => [Next]_vars
    BY DEF RulesNext
  <2> QED BY <2>1, <2>2, PTL DEF RulesSpec, Spec
<1> QED BY <1>1, <1>2, <1>3, CodeInvariance, PTL DEF RulesSpec

\* For every program, code generation gives at most one verdict, and it is
\* that of the static rules: it succeeds on no program that breaks one and
\* fails on none that obeys them all (compiler_tree_to_asm in compiler.cpp).
THEOREM VerdictJustified ==
  RulesSpec => Promise!VerdictInit
                 /\ [][Promise!Decide]_<<program, IF phase \in {"done", "failed"} THEN phase ELSE "none">>
<1>1. RulesInit => Promise!VerdictInit
  BY DEF RulesInit, Init, Promise!VerdictInit
<1>2. RulesInv' /\ [RulesNext]_<<vars, program>> =>
        [Promise!Decide]_<<program, IF phase \in {"done", "failed"} THEN phase ELSE "none">>
  <2> DEFINE v == IF phase \in {"done", "failed"} THEN phase ELSE "none"
  <2> SUFFICES ASSUME RulesInv', [RulesNext]_<<vars, program>>, ~ UNCHANGED <<program, v>>
               PROVE  Promise!Decide
    OBVIOUS
  <2>1. program' = program /\ phase' # phase
    BY DEF RulesNext
  <2>2. phase \in {"declarations", "functions"}
    <3>1. Next
      BY <2>1 DEF RulesNext, vars, control
    <3>2. ~ Returned
      BY <2>1 DEF Returned, vars, control
    <3>3. CASE HandleNode
      BY <3>3, HandlerPhase
    <3>4. CASE Driver
      BY <3>4 DEF Driver, extract_variable, extract_function, emit_entry, compile_next_function,
                  all_compiled, Extracting
    <3>5. CASE Failure
      BY <3>5 DEF Failure, UndefinedVariable, UndefinedFunction, WrongArgumentCount, MissingReturn,
                  Redefinition, MissingMain, Fail, Handling, Extracting
    <3> QED BY <3>1, <3>2, <3>3, <3>4, <3>5 DEF Next, CodeGenStep
  <2>3. v = "none" /\ v' # "none"
    BY <2>1, <2>2
  <2>4. phase' \in {"done", "failed"} /\ v' = phase'
    BY <2>3
  <2>5. v' = IF WellFormed(program) THEN "done" ELSE "failed"
    <3>1. /\ phase' = "done" => WellFormed(program')
          /\ phase' = "failed" => ~ WellFormed(program')
      BY DEF RulesInv
    <3> HIDE DEF v
    <3> QED BY ONLY <2>1, <2>4, <3>1
  <2> QED BY <2>1, <2>3, <2>5 DEF Promise!Decide
<1> QED BY <1>1, <1>2, RulesInvariance, PTL DEF RulesSpec

=============================================================================

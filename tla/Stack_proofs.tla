----------------------------- MODULE Stack_proofs -----------------------------
(***************************************************************************)
(* Why the stack of a tidy program is in order, second half: the machine.  *)
(* Wherever control is, the cells of the stack are those that the shape of *)
(* the instruction speaks of, in this activation and in all of its callers.*)
(***************************************************************************)
EXTENDS Shape_proofs

-----------------------------------------------------------------------------
(* The stack of the running program.                                       *)

\* Cell i holds the saved RBP of an activation, and the return address is
\* below it.
Opened(cells, i) == i > 1 /\ cells[i - 1].kind = "return" /\ cells[i].kind = "rbp"

\* The cells up to len are those of an instruction of shape s, with RBP at b
\* and f frame cells.
Cells(cells, s, len, b, f) ==
  CASE s.place = "entry"   -> len = s.height /\ \A c \in 1..len : cells[c].kind = "value"
    [] s.place = "called"  -> len > 0 /\ cells[len].kind = "return"
    [] s.place = "pushed"  -> Opened(cells, len)
    [] s.place = "entered" -> Opened(cells, b) /\ len = b
    [] s.place = "body"    -> /\ Opened(cells, b)
                              /\ len = b + (f + s.height)
                              /\ \A c \in (b + 1)..len :
                                   cells[c].kind = IF c <= b + f THEN "frame" ELSE "value"

\* An instruction: its address, its shape and the size of its function's frame.
Spot == [at : Int, shape : Shape, frame : Nat]

\* The RBP of the activation whose return address is cell r: it is saved in
\* the next cell, unless the callee has not done so yet, or has restored it.
CallerRbp(cells, r, b) == IF r = Len(cells) THEN b ELSE cells[r + 1].saved

\* The cells below a return address are those of the instruction returned to.
Balanced(spots, cells, b) ==
  \A r \in 1..Len(cells) : cells[r].kind = "return" =>
    \E spot \in spots : /\ spot.at = cells[r].saved
                        /\ Plain(spot.shape)
                        /\ Cells(cells, spot.shape, r - 1, CallerRbp(cells, r, b), spot.frame)

\* The stack fits an instruction of shape s with f frame cells.
Fits(spots, cells, b, s, f) == Cells(cells, s, Len(cells), b, f) /\ Balanced(spots, cells, b)

\* What the cells of a shape are, place by place.
LEMMA CellsBy ==
  ASSUME NEW cells, NEW s, NEW len, NEW b, NEW f
  PROVE  /\ s.place = "entry" =>
              (Cells(cells, s, len, b, f) <=>
                 len = s.height /\ \A c \in 1..len : cells[c].kind = "value")
         /\ s.place = "called" =>
              (Cells(cells, s, len, b, f) <=> len > 0 /\ cells[len].kind = "return")
         /\ s.place = "pushed" => (Cells(cells, s, len, b, f) <=> Opened(cells, len))
         /\ s.place = "entered" => (Cells(cells, s, len, b, f) <=> Opened(cells, b) /\ len = b)
         /\ s.place = "body" =>
              (Cells(cells, s, len, b, f) <=>
                 /\ Opened(cells, b)
                 /\ len = b + (f + s.height)
                 /\ \A c \in (b + 1)..len :
                      cells[c].kind = IF c <= b + f THEN "frame" ELSE "value")
BY DEF Cells

\* Only the cells up to len count.
LEMMA CellsKept ==
  ASSUME NEW cells, NEW other, NEW s \in Shape, NEW len \in Nat, NEW b \in Int, NEW f \in Nat,
         \A c \in 1..len : other[c] = cells[c], Cells(cells, s, len, b, f)
  PROVE  Cells(other, s, len, b, f)
<1>1. s.height \in Nat /\ s.place \in {"entry", "called", "pushed", "entered", "body"}
  BY DEF Shape
<1>2. ASSUME NEW i \in Int, i <= len, Opened(cells, i) PROVE Opened(other, i)
  <2>1. i > 1
    BY <1>2 DEF Opened
  <2>2. i \in 1..len /\ i - 1 \in 1..len
    BY <1>2, <2>1
  <2> QED BY <1>2, <2>1, <2>2 DEF Opened
<1>3. CASE s.place = "entry"
  BY <1>3, CellsBy
<1>4. CASE s.place = "called"
  <2>1. len > 0 /\ cells[len].kind = "return"
    BY <1>4, CellsBy
  <2>2. len \in 1..len
    BY <2>1
  <2> QED BY <1>4, <2>1, <2>2, CellsBy
<1>5. CASE s.place = "pushed"
  <2>1. Opened(cells, len) /\ len <= len /\ len \in Int
    BY <1>5, CellsBy
  <2> QED BY <1>2, <1>5, <2>1, CellsBy
<1>6. CASE s.place = "entered"
  <2>1. Opened(cells, b) /\ b <= len /\ len = b
    BY <1>6, CellsBy
  <2> QED BY <1>2, <1>6, <2>1, CellsBy
<1>7. CASE s.place = "body"
  <2>1. /\ Opened(cells, b) /\ len = b + (f + s.height)
        /\ \A c \in (b + 1)..len : cells[c].kind = IF c <= b + f THEN "frame" ELSE "value"
    BY <1>7, CellsBy
  <2>2. b <= len /\ b > 1
    BY <1>1, <2>1 DEF Opened
  <2>3. (b + 1)..len \subseteq 1..len
    BY <2>2
  <2>4. Opened(other, b)
    BY <1>2, <2>1, <2>2
  <2>5. \A c \in (b + 1)..len : other[c].kind = IF c <= b + f THEN "frame" ELSE "value"
    BY <2>1, <2>3
  <2> QED BY <1>7, <2>1, <2>4, <2>5, CellsBy
<1> QED BY <1>1, <1>3, <1>4, <1>5, <1>6, <1>7

\* Where a return address can be among the cells of an instruction: nowhere
\* in the entry code, and only below the saved RBP in a function.
LEMMA NoReturn ==
  ASSUME NEW cells, NEW s \in Shape, s.place # "called",
         NEW len \in Nat, NEW b \in Int, NEW f \in Nat, Cells(cells, s, len, b, f)
  PROVE  /\ s.place = "entry" => \A r \in 1..len : cells[r].kind # "return"
         /\ s.place # "entry" => len > 1
         /\ s.place \in {"entered", "body"} =>
              /\ b \in Nat /\ b > 1 /\ b <= len
              /\ \A r \in b..len : cells[r].kind # "return"
         /\ len > 0 => cells[len].kind # "return"
<1>1. s.height \in Nat /\ s.place \in {"entry", "pushed", "entered", "body"}
  BY DEF Shape
<1>2. CASE s.place = "entry"
  <2>1. \A r \in 1..len : cells[r].kind = "value"
    BY <1>2, CellsBy
  <2>2. len > 0 => len \in 1..len
    OBVIOUS
  <2> QED BY <1>2, <2>1, <2>2
<1>3. CASE s.place = "pushed"
  <2>1. Opened(cells, len)
    BY <1>3, CellsBy
  <2> QED BY <1>3, <2>1 DEF Opened
<1>4. CASE s.place = "entered"
  <2>1. Opened(cells, b) /\ len = b
    BY <1>4, CellsBy
  <2>2. \A r \in b..len : r = b
    BY <2>1
  <2> QED BY <1>4, <2>1, <2>2 DEF Opened
<1>5. CASE s.place = "body"
  <2>1. /\ Opened(cells, b) /\ len = b + (f + s.height)
        /\ \A c \in (b + 1)..len : cells[c].kind = IF c <= b + f THEN "frame" ELSE "value"
    BY <1>5, CellsBy
  <2>2. b <= len /\ b > 1 /\ b \in Nat
    BY <1>1, <2>1 DEF Opened
  <2>3. ASSUME NEW r \in b..len PROVE cells[r].kind # "return"
    <3>1. CASE r = b
      BY <2>1, <3>1 DEF Opened
    <3>2. CASE r # b
      <4>1. r \in (b + 1)..len
        BY <3>2
      <4> QED BY <2>1, <4>1
    <3> QED BY <3>1, <3>2
  <2>4. len \in b..len
    BY <2>2
  <2> QED BY <1>5, <2>2, <2>3, <2>4
<1> QED BY <1>1, <1>2, <1>3, <1>4, <1>5

\* What is below a return address stays in order when only cells above it are
\* changed, and the RBP of the caller is still where it was.
LEMMA BalanceKept ==
  ASSUME NEW spots \in SUBSET Spot, NEW cells \in Seq(Cell), NEW other \in Seq(Cell),
         NEW b \in Int, NEW later \in Int, NEW m \in Nat, m <= Len(cells), m <= Len(other),
         \A r \in 1..m : other[r] = cells[r],
         \A r \in (m + 1)..Len(other) : other[r].kind # "return",
         \A r \in 1..m : cells[r].kind = "return" =>
           CallerRbp(other, r, later) = CallerRbp(cells, r, b),
         Balanced(spots, cells, b)
  PROVE  Balanced(spots, other, later)
<1>1. Len(cells) \in Nat /\ Len(other) \in Nat
  OBVIOUS
<1>2. ASSUME NEW r \in 1..Len(other), other[r].kind = "return"
      PROVE  \E spot \in spots :
               /\ spot.at = other[r].saved
               /\ Plain(spot.shape)
               /\ Cells(other, spot.shape, r - 1, CallerRbp(other, r, later), spot.frame)
  <2>1. r \in 1..m
    <3>1. r \notin (m + 1)..Len(other)
      BY <1>2
    <3> QED BY <1>1, <3>1
  <2>2. r \in 1..Len(cells) /\ other[r] = cells[r] /\ cells[r].kind = "return"
    BY <1>1, <1>2, <2>1
  <2>3. PICK v : v = CallerRbp(cells, r, b)
    OBVIOUS
  <2>4. CallerRbp(other, r, later) = v
    BY <2>1, <2>2, <2>3
  <2>5. PICK spot \in spots : /\ spot.at = cells[r].saved
                              /\ Plain(spot.shape)
                              /\ Cells(cells, spot.shape, r - 1, v, spot.frame)
    BY <2>2, <2>3 DEF Balanced
  <2>6. v \in Int
    <3>1. CASE r = Len(cells)
      BY <2>3, <3>1 DEF CallerRbp
    <3>2. CASE r # Len(cells)
      <4>1. r + 1 \in 1..Len(cells)
        BY <1>1, <2>2, <3>2
      <4>2. cells[r + 1] \in Cell
        BY <4>1
      <4> QED BY <2>3, <3>2, <4>2 DEF CallerRbp, Cell
    <3> QED BY <3>1, <3>2
  <2>7. spot.shape \in Shape /\ spot.frame \in Nat
    BY DEF Spot
  <2>8. r - 1 \in Nat /\ \A c \in 1..(r - 1) : c \in 1..m
    BY <2>1
  <2>9. Cells(other, spot.shape, r - 1, v, spot.frame)
    BY <2>5, <2>6, <2>7, <2>8, CellsKept
  <2> QED BY <2>2, <2>4, <2>5, <2>9
<1> QED BY <1>2 DEF Balanced

\* So it does when the topmost cell that is kept is no return address.
LEMMA BalanceAbove ==
  ASSUME NEW spots \in SUBSET Spot, NEW cells \in Seq(Cell), NEW other \in Seq(Cell),
         NEW b \in Int, NEW later \in Int, NEW m \in Nat, m <= Len(cells), m <= Len(other),
         \A r \in 1..m : other[r] = cells[r],
         \A r \in (m + 1)..Len(other) : other[r].kind # "return",
         m > 0 => cells[m].kind # "return",
         Balanced(spots, cells, b)
  PROVE  Balanced(spots, other, later)
<1>1. Len(cells) \in Nat /\ Len(other) \in Nat
  OBVIOUS
<1>2. ASSUME NEW r \in 1..m, cells[r].kind = "return"
      PROVE  CallerRbp(other, r, later) = CallerRbp(cells, r, b)
  <2>1. r # m
    BY <1>2
  <2>2. r + 1 \in 1..m /\ r # Len(cells) /\ r # Len(other)
    BY <1>1, <2>1
  <2> QED BY <2>2 DEF CallerRbp
<1> QED BY <1>2, BalanceKept

\* A value is pushed.
LEMMA ValuePushed ==
  ASSUME NEW spots \in SUBSET Spot, NEW cells \in Seq(Cell), NEW b \in Int,
         NEW s \in Shape, Plain(s), NEW f \in Nat, Fits(spots, cells, b, s, f)
  PROVE  Fits(spots, Append(cells, M!Value), b, Raised(s, 1), f)
<1>1. PICK n \in Nat : n = Len(cells)
  OBVIOUS
<1>2. M!Value \in Cell /\ M!Value.kind = "value"
  BY DEF M!Value, Cell
<1>3. PICK other \in Seq(Cell) : other = Append(cells, M!Value)
  <2>1. Append(cells, M!Value) \in Seq(Cell)
    BY <1>2
  <2> QED BY <2>1
<1>4. /\ Len(other) = n + 1 /\ other[n + 1].kind = "value"
      /\ \A r \in 1..n : other[r] = cells[r]
  BY <1>1, <1>2, <1>3
<1>5. Cells(cells, s, n, b, f) /\ Balanced(spots, cells, b)
  BY <1>1 DEF Fits
<1>6. s.height \in Nat /\ s.place \in {"entry", "body"}
  BY DEF Shape, Plain
<1>7. Raised(s, 1).place = s.place /\ Raised(s, 1).height = s.height + 1
  BY DEF Raised, shape
<1>8. Balanced(spots, other, b)
  <2>1. n > 0 => cells[n].kind # "return"
    BY <1>5, <1>6, NoReturn
  <2>2. \A r \in (n + 1)..Len(other) : r = n + 1
    BY <1>4
  <2>3. \A r \in (n + 1)..Len(other) : other[r].kind # "return"
    BY <1>4, <2>2
  <2>4. n <= Len(cells) /\ n <= Len(other)
    BY <1>1, <1>4
  <2> QED BY <1>4, <1>5, <2>1, <2>3, <2>4, BalanceAbove
<1>9. \A c \in 1..(n + 1) : c \in 1..n \/ c = n + 1
  OBVIOUS
<1>10. CASE s.place = "entry"
  <2>1. n = s.height /\ \A c \in 1..n : cells[c].kind = "value"
    BY <1>5, <1>10, CellsBy
  <2>2. \A c \in 1..(n + 1) : other[c].kind = "value"
    BY <1>4, <1>9, <2>1
  <2>3. Cells(other, Raised(s, 1), n + 1, b, f)
    BY <1>7, <1>10, <2>1, <2>2, CellsBy
  <2> QED BY <1>3, <1>4, <1>8, <2>3 DEF Fits
<1>11. CASE s.place = "body"
  <2>1. /\ Opened(cells, b) /\ n = b + (f + s.height)
        /\ \A c \in (b + 1)..n : cells[c].kind = IF c <= b + f THEN "frame" ELSE "value"
    BY <1>5, <1>11, CellsBy
  <2>2. b > 1
    BY <2>1 DEF Opened
  <2>3. b \in 1..n /\ b - 1 \in 1..n /\ n + 1 = b + (f + (s.height + 1)) /\ ~ (n + 1 <= b + f)
    BY <1>6, <2>1, <2>2
  <2>4. Opened(other, b)
    BY <1>4, <2>1, <2>3 DEF Opened
  <2>5. ASSUME NEW c \in (b + 1)..(n + 1)
        PROVE  other[c].kind = IF c <= b + f THEN "frame" ELSE "value"
    <3>1. CASE c = n + 1
      BY <1>4, <2>3, <3>1
    <3>2. CASE c # n + 1
      <4>1. c \in (b + 1)..n /\ c \in 1..n
        BY <2>3, <3>2
      <4> QED BY <1>4, <2>1, <4>1
    <3> QED BY <3>1, <3>2
  <2>6. Cells(other, Raised(s, 1), n + 1, b, f)
    <3>1. PICK t : t = Raised(s, 1)
      OBVIOUS
    <3>2. t.place = "body" /\ n + 1 = b + (f + t.height)
      BY <1>7, <1>11, <2>3, <3>1
    <3>3. Cells(other, t, n + 1, b, f)
      BY ONLY <2>4, <2>5, <3>2, CellsBy
    <3> QED BY <3>1, <3>3
  <2> QED BY <1>3, <1>4, <1>8, <2>6 DEF Fits
<1> QED BY <1>6, <1>10, <1>11

\* Values are dropped, by a pop or by an ADD.
LEMMA ValuesDropped ==
  ASSUME NEW spots \in SUBSET Spot, NEW cells \in Seq(Cell), NEW b \in Int,
         NEW t \in Shape, Plain(t), NEW k \in Nat, NEW f \in Nat,
         Fits(spots, cells, b, Raised(t, k), f)
  PROVE  /\ k <= Len(cells)
         /\ \A c \in (Len(cells) - k + 1)..Len(cells) : cells[c].kind = "value"
         /\ Fits(spots, SubSeq(cells, 1, Len(cells) - k), b, t, f)
<1>1. PICK n \in Nat : n = Len(cells)
  OBVIOUS
<1>2. t.height \in Nat /\ t.place \in {"entry", "body"}
  BY DEF Shape, Plain
<1>3. PICK s \in Shape : s = Raised(t, k)
  BY <1>2 DEF Raised, shape, Shape
<1>4. s.place = t.place /\ s.height = t.height + k
  BY <1>3 DEF Raised, shape
<1>5. Cells(cells, s, n, b, f) /\ Balanced(spots, cells, b)
  BY <1>1, <1>3 DEF Fits
<1>6. s.place = "body" => Opened(cells, b) /\ n = b + (f + s.height) /\ b > 1
  BY <1>5, CellsBy DEF Opened
<1>7. s.place = "entry" => n = s.height
  BY <1>5, CellsBy
<1>8. k <= n
  BY <1>2, <1>4, <1>6, <1>7
<1>9. PICK m \in Nat : m = n - k
  BY <1>8
<1>10. PICK other \in Seq(Cell) : other = SubSeq(cells, 1, m)
  <2>1. m \in 0..Len(cells)
    BY <1>1, <1>8, <1>9
  <2>2. SubSeq(cells, 1, m) \in Seq(Cell)
    BY <2>1
  <2> QED BY <2>2
<1>11. Len(other) = m /\ \A r \in 1..m : other[r] = cells[r]
  BY <1>1, <1>8, <1>9, <1>10
<1>12. Cells(cells, t, m, b, f) /\ \A c \in (m + 1)..n : cells[c].kind = "value"
  <2>1. CASE s.place = "entry"
    <3>1. n = s.height /\ \A c \in 1..n : cells[c].kind = "value"
      BY <1>5, <2>1, CellsBy
    <3>2. m = t.height /\ (\A c \in 1..m : c \in 1..n) /\ \A c \in (m + 1)..n : c \in 1..n
      <4>1. PICK h \in Nat : h = t.height
        BY <1>2
      <4>2. n = h + k
        BY ONLY <1>4, <3>1, <4>1
      <4>3. m = h
        BY ONLY <1>9, <4>1, <4>2, k \in Nat, n \in Nat
      <4> QED BY ONLY <4>1, <4>2, <4>3, k \in Nat, n \in Nat
    <3>3. t.place = "entry" /\ \A c \in 1..m : cells[c].kind = "value"
      BY <1>4, <2>1, <3>1, <3>2
    <3>4. Cells(cells, t, m, b, f)
      BY <3>2, <3>3, CellsBy
    <3> QED BY <3>1, <3>2, <3>4
  <2>2. CASE s.place = "body"
    <3>1. /\ Opened(cells, b) /\ n = b + (f + s.height)
          /\ \A c \in (b + 1)..n : cells[c].kind = IF c <= b + f THEN "frame" ELSE "value"
      BY <1>5, <2>2, CellsBy
    <3>2. PICK h \in Nat : h = t.height
      BY <1>2
    <3>3. n = b + (f + (h + k)) /\ m = n - k
      BY <1>4, <1>9, <3>1, <3>2
    <3>4. m = b + (f + h)
      BY ONLY <3>3, b \in Int, f \in Nat, h \in Nat, k \in Nat, n \in Nat, m \in Nat
    <3>5. ASSUME NEW c \in (b + 1)..m PROVE c \in (b + 1)..n
      BY <1>8, <1>9
    <3>6. ASSUME NEW c \in (m + 1)..n PROVE c \in (b + 1)..n /\ ~ (c <= b + f)
      BY <3>4
    <3>7. t.place = "body" /\ m = b + (f + t.height)
      BY <1>4, <2>2, <3>2, <3>4
    <3>8. \A c \in (b + 1)..m : cells[c].kind = IF c <= b + f THEN "frame" ELSE "value"
      BY <3>1, <3>5
    <3>9. \A c \in (m + 1)..n : cells[c].kind = "value"
      BY <3>1, <3>6
    <3>10. Cells(cells, t, m, b, f)
      BY <3>1, <3>7, <3>8, CellsBy
    <3> QED BY <3>9, <3>10
  <2> QED BY <1>2, <1>4, <2>1, <2>2
<1>13. Cells(other, t, m, b, f)
  BY <1>11, <1>12, CellsKept
<1>14. Balanced(spots, other, b)
  <2>1. m > 0 => cells[m].kind # "return"
    BY <1>2, <1>12, NoReturn
  <2>2. m <= Len(cells) /\ m <= Len(other) /\ \A r \in (m + 1)..Len(other) : FALSE
    BY <1>1, <1>8, <1>9, <1>11
  <2> QED BY <1>5, <1>11, <2>1, <2>2, BalanceAbove
<1> QED BY <1>1, <1>8, <1>9, <1>10, <1>11, <1>12, <1>13, <1>14 DEF Fits

\* The prologue saves RBP.
LEMMA RbpSaved ==
  ASSUME NEW spots \in SUBSET Spot, NEW cells \in Seq(Cell), NEW b \in Int,
         NEW f \in Nat, Fits(spots, cells, b, Called, f)
  PROVE  Fits(spots, Append(cells, M!SavedRbp(b)), b, Pushed, f)
<1>1. PICK n \in Nat : n = Len(cells)
  OBVIOUS
<1>2. M!SavedRbp(b) \in Cell /\ M!SavedRbp(b).kind = "rbp" /\ M!SavedRbp(b).saved = b
  BY DEF M!SavedRbp, Cell
<1>3. PICK other \in Seq(Cell) : other = Append(cells, M!SavedRbp(b))
  <2>1. Append(cells, M!SavedRbp(b)) \in Seq(Cell)
    BY <1>2
  <2> QED BY <2>1
<1>4. /\ Len(other) = n + 1 /\ other[n + 1].kind = "rbp" /\ other[n + 1].saved = b
      /\ \A r \in 1..n : other[r] = cells[r]
  BY <1>1, <1>2, <1>3
<1>5. Cells(cells, Called, n, b, f) /\ Balanced(spots, cells, b)
  BY <1>1 DEF Fits
<1>6. Called.place = "called" /\ Pushed.place = "pushed"
  BY DEF Called, Pushed, shape
<1>7. n > 0 /\ cells[n].kind = "return"
  BY <1>5, <1>6, CellsBy
<1>8. Cells(other, Pushed, n + 1, b, f)
  <2>1. n \in 1..n /\ (n + 1) - 1 = n /\ n + 1 > 1
    BY <1>7
  <2>2. Opened(other, n + 1)
    BY <1>4, <1>7, <2>1 DEF Opened
  <2> QED BY <1>6, <2>2, CellsBy
<1>9. Balanced(spots, other, b)
  <2>1. ASSUME NEW r \in 1..n PROVE CallerRbp(other, r, b) = CallerRbp(cells, r, b)
    <3>1. CASE r = n
      <4>1. r # Len(other)
        BY <1>4, <3>1
      <4> QED BY <1>1, <1>4, <3>1, <4>1 DEF CallerRbp
    <3>2. CASE r # n
      <4>1. r # Len(other) /\ r + 1 \in 1..n
        BY <1>4, <3>2
      <4> QED BY <1>1, <1>4, <3>2, <4>1 DEF CallerRbp
    <3> QED BY <3>1, <3>2
  <2>2. \A r \in (n + 1)..Len(other) : r = n + 1
    BY <1>4
  <2>3. \A r \in (n + 1)..Len(other) : other[r].kind # "return"
    BY <1>4, <2>2
  <2>4. n <= Len(cells) /\ n <= Len(other)
    BY <1>1, <1>4
  <2> QED BY <1>4, <1>5, <2>1, <2>3, <2>4, BalanceKept
<1> QED BY <1>3, <1>4, <1>8, <1>9 DEF Fits

\* The prologue makes RBP point to where it was saved.
LEMMA RbpSet ==
  ASSUME NEW spots \in SUBSET Spot, NEW cells \in Seq(Cell), NEW b \in Int,
         NEW f \in Nat, Fits(spots, cells, b, Pushed, f)
  PROVE  /\ Fits(spots, cells, Len(cells), Entered, f)
         /\ f = 0 => Fits(spots, cells, Len(cells), Idle, f)
<1>1. PICK n \in Nat : n = Len(cells)
  OBVIOUS
<1>2. Cells(cells, Pushed, n, b, f) /\ Balanced(spots, cells, b)
  BY <1>1 DEF Fits
<1>3. /\ Pushed.place = "pushed" /\ Entered.place = "entered"
      /\ Idle.place = "body" /\ Idle.height = 0
  BY DEF Pushed, Entered, Idle, shape
<1>4. Opened(cells, n)
  BY <1>2, <1>3, CellsBy
<1>5. Balanced(spots, cells, n)
  <2>1. cells[n].kind # "return"
    BY <1>4 DEF Opened
  <2>2. n <= Len(cells) /\ n \in Int /\ \A r \in (n + 1)..Len(cells) : FALSE
    BY <1>1
  <2> QED BY <1>2, <2>1, <2>2, BalanceAbove
<1>6. Cells(cells, Entered, n, n, f)
  BY <1>3, <1>4, CellsBy
<1>7. ASSUME f = 0 PROVE Cells(cells, Idle, n, n, f)
  <2>1. n = n + (f + 0) /\ \A c \in (n + 1)..n : FALSE
    BY <1>7
  <2> QED BY <1>3, <1>4, <2>1, CellsBy
<1> QED BY <1>1, <1>5, <1>6, <1>7 DEF Fits

\* The prologue makes the frame.
LEMMA FrameMade ==
  ASSUME NEW spots \in SUBSET Spot, NEW cells \in Seq(Cell), NEW b \in Int,
         NEW f \in Nat, Fits(spots, cells, b, Entered, f)
  PROVE  Fits(spots, cells \o M!Cells(f), b, Idle, f)
<1>1. PICK n \in Nat : n = Len(cells)
  OBVIOUS
<1>2. M!FrameCell \in Cell /\ M!FrameCell.kind = "frame"
  BY DEF M!FrameCell, Cell
<1>3. PICK frame \in Seq(Cell) : /\ frame = M!Cells(f) /\ Len(frame) = f
                                 /\ \A i \in 1..f : frame[i] = M!FrameCell
  <2>1. M!Cells(f) = [i \in 1..f |-> M!FrameCell]
    BY DEF M!Cells
  <2>2. [i \in 1..f |-> M!FrameCell] \in [1..f -> Cell]
    BY <1>2
  <2>3. M!Cells(f) \in Seq(Cell)
    BY <2>1, <2>2
  <2> QED BY <2>1, <2>3
<1>4. PICK other \in Seq(Cell) : other = cells \o frame
  <2>1. cells \o frame \in Seq(Cell)
    OBVIOUS
  <2> QED BY <2>1
<1>5. /\ Len(other) = n + f
      /\ \A r \in 1..n : other[r] = cells[r]
      /\ \A r \in (n + 1)..(n + f) : other[r].kind = "frame"
  <2>1. Len(other) = n + f /\ \A r \in 1..(n + f) :
          other[r] = IF r <= n THEN cells[r] ELSE frame[r - n]
    <3>1. /\ Len(cells \o frame) = Len(cells) + Len(frame)
          /\ \A r \in 1..(Len(cells) + Len(frame)) :
               (cells \o frame)[r]
                 = IF r <= Len(cells) THEN cells[r] ELSE frame[r - Len(cells)]
      OBVIOUS
    <3> QED BY ONLY <1>1, <1>3, <1>4, <3>1, Zenon
  <2>2. \A r \in 1..n : r \in 1..(n + f) /\ r <= n
    OBVIOUS
  <2>3. \A r \in (n + 1)..(n + f) : r \in 1..(n + f) /\ ~ (r <= n) /\ r - n \in 1..f
    OBVIOUS
  <2> QED BY <1>2, <1>3, <2>1, <2>2, <2>3
<1>6. Cells(cells, Entered, n, b, f) /\ Balanced(spots, cells, b)
  BY <1>1 DEF Fits
<1>7. Entered.place = "entered" /\ Idle.place = "body" /\ Idle.height = 0
  BY DEF Entered, Idle, shape
<1>8. Opened(cells, b) /\ n = b
  BY <1>6, <1>7, CellsBy
<1>9. Cells(other, Idle, n + f, b, f)
  <2>1. b > 1 /\ b \in 1..n /\ b - 1 \in 1..n
    BY <1>8 DEF Opened
  <2>2. Opened(other, b)
    BY <1>5, <1>8, <2>1 DEF Opened
  <2>3. n + f = b + (f + 0) /\ \A c \in (b + 1)..(n + f) : c \in (n + 1)..(n + f) /\ c <= b + f
    BY <1>8
  <2> QED BY <1>5, <1>7, <2>2, <2>3, CellsBy
<1>10. Balanced(spots, other, b)
  <2>1. cells[n].kind # "return"
    BY <1>8 DEF Opened
  <2>2. n <= Len(cells) /\ n <= Len(other)
    BY <1>1, <1>5
  <2>3. \A r \in (n + 1)..Len(other) : other[r].kind # "return"
    BY <1>5
  <2> QED BY <1>5, <1>6, <2>1, <2>2, <2>3, BalanceAbove
<1> QED BY <1>3, <1>4, <1>5, <1>9, <1>10 DEF Fits

\* The epilogue drops it.
LEMMA FrameDropped ==
  ASSUME NEW spots \in SUBSET Spot, NEW cells \in Seq(Cell), NEW b \in Int,
         NEW f \in Nat, Fits(spots, cells, b, Idle, f)
  PROVE  /\ f <= Len(cells)
         /\ Fits(spots, SubSeq(cells, 1, Len(cells) - f), b, Entered, f)
<1>1. PICK n \in Nat : n = Len(cells)
  OBVIOUS
<1>2. Cells(cells, Idle, n, b, f) /\ Balanced(spots, cells, b)
  BY <1>1 DEF Fits
<1>3. Entered.place = "entered" /\ Idle.place = "body" /\ Idle.height = 0 /\ Idle \in Shape
  BY DEF Entered, Idle, shape, Shape
<1>4. Opened(cells, b) /\ n = b + (f + 0) /\ b > 1
  BY <1>2, <1>3, CellsBy DEF Opened
<1>5. f <= n /\ b = n - f /\ b \in Nat /\ b \in 0..Len(cells)
  BY <1>1, <1>4
<1>6. PICK other \in Seq(Cell) : other = SubSeq(cells, 1, b)
  <2>1. SubSeq(cells, 1, b) \in Seq(Cell)
    BY <1>5
  <2> QED BY <2>1
<1>7. Len(other) = b /\ \A r \in 1..b : other[r] = cells[r]
  BY <1>5, <1>6
<1>8. Cells(other, Entered, b, b, f)
  <2>1. b \in 1..b /\ b - 1 \in 1..b
    BY <1>4, <1>5
  <2>2. Opened(other, b)
    BY <1>4, <1>7, <2>1 DEF Opened
  <2> QED BY <1>3, <2>2, CellsBy
<1>9. Balanced(spots, other, b)
  <2>1. cells[b].kind # "return"
    BY <1>4 DEF Opened
  <2>2. b <= Len(cells) /\ b <= Len(other) /\ \A r \in (b + 1)..Len(other) : FALSE
    BY <1>1, <1>5, <1>7
  <2> QED BY <1>2, <1>5, <1>7, <2>1, <2>2, BalanceAbove
<1> QED BY <1>1, <1>5, <1>6, <1>7, <1>8, <1>9 DEF Fits

\* The epilogue restores RBP, which is on top of the stack.
LEMMA RbpRestored ==
  ASSUME NEW spots \in SUBSET Spot, NEW cells \in Seq(Cell), NEW b \in Int,
         NEW f \in Nat, NEW s \in {Entered, Idle}, s = Idle => f = 0, Fits(spots, cells, b, s, f)
  PROVE  /\ Len(cells) = b /\ cells # <<>> /\ cells[b].kind = "rbp" /\ cells[b].saved \in Int
         /\ Fits(spots, SubSeq(cells, 1, Len(cells) - 1), cells[b].saved, Called, f)
<1>1. PICK n \in Nat : n = Len(cells)
  OBVIOUS
<1>2. Cells(cells, s, n, b, f) /\ Balanced(spots, cells, b)
  BY <1>1 DEF Fits
<1>3. /\ Entered.place = "entered" /\ Called.place = "called"
      /\ Idle.place = "body" /\ Idle.height = 0
  BY DEF Entered, Called, Idle, shape
<1>4. Opened(cells, b) /\ n = b
  <2>1. CASE s = Entered
    BY <1>2, <1>3, <2>1, CellsBy
  <2>2. CASE s = Idle
    <3>1. Opened(cells, b) /\ n = b + (0 + 0)
      BY <1>2, <1>3, <2>2, CellsBy
    <3> QED BY <3>1
  <2> QED BY <2>1, <2>2
<1>5. b > 1 /\ cells[b - 1].kind = "return" /\ cells[b].kind = "rbp"
  BY <1>4 DEF Opened
<1>6. PICK m \in Nat : m = b - 1
  BY <1>5
<1>7. m \in 1..n /\ b \in 1..n /\ m \in 0..Len(cells) /\ m + 1 = b /\ m = Len(cells) - 1
  BY <1>1, <1>4, <1>5, <1>6
<1>8. PICK v \in Int : v = cells[b].saved
  <2>1. cells[b] \in Cell
    BY <1>1, <1>7
  <2> QED BY <2>1 DEF Cell
<1>9. PICK other \in Seq(Cell) : other = SubSeq(cells, 1, m)
  <2>1. SubSeq(cells, 1, m) \in Seq(Cell)
    BY <1>7
  <2> QED BY <2>1
<1>10. Len(other) = m /\ \A r \in 1..m : other[r] = cells[r]
  BY <1>7, <1>9
<1>11. Cells(other, Called, m, v, f)
  <2>1. m > 0 /\ m \in 1..m
    BY <1>7
  <2>2. other[m].kind = "return"
    BY <1>5, <1>6, <1>10, <2>1
  <2> QED BY <1>3, <2>1, <2>2, CellsBy
<1>12. Balanced(spots, other, v)
  <2>1. ASSUME NEW r \in 1..m PROVE CallerRbp(other, r, v) = CallerRbp(cells, r, b)
    <3>0. r # Len(cells)
      BY <1>7
    <3>1. CASE r = m
      BY <1>7, <1>8, <1>10, <3>0, <3>1 DEF CallerRbp
    <3>2. CASE r # m
      <4>1. r + 1 \in 1..m /\ r # Len(other)
        BY <1>10, <3>2
      <4> QED BY <1>10, <3>0, <4>1 DEF CallerRbp
    <3> QED BY <3>1, <3>2
  <2>2. m <= Len(cells) /\ m <= Len(other) /\ \A r \in (m + 1)..Len(other) : FALSE
    BY <1>7, <1>10
  <2> QED BY <1>2, <1>10, <2>1, <2>2, BalanceKept
<1>13. cells # <<>>
  BY <1>7
<1>14. Fits(spots, other, v, Called, f)
  BY <1>10, <1>11, <1>12 DEF Fits
<1> QED BY <1>1, <1>4, <1>5, <1>7, <1>8, <1>9, <1>13, <1>14

\* A call pushes the address of an instruction that the stack fits.
LEMMA ReturnPushed ==
  ASSUME NEW spots \in SUBSET Spot, NEW cells \in Seq(Cell), NEW b \in Int,
         NEW back \in spots, Plain(back.shape), Fits(spots, cells, b, back.shape, back.frame),
         NEW f \in Nat
  PROVE  Fits(spots, Append(cells, M!ReturnTo(back.at)), b, Called, f)
<1>1. PICK n \in Nat : n = Len(cells)
  OBVIOUS
<1>2. back.at \in Int /\ back.shape \in Shape /\ back.frame \in Nat
  BY DEF Spot
<1>3. /\ M!ReturnTo(back.at) \in Cell /\ M!ReturnTo(back.at).kind = "return"
      /\ M!ReturnTo(back.at).saved = back.at
  BY <1>2 DEF M!ReturnTo, Cell
<1>4. PICK other \in Seq(Cell) : other = Append(cells, M!ReturnTo(back.at))
  <2>1. Append(cells, M!ReturnTo(back.at)) \in Seq(Cell)
    BY <1>3
  <2> QED BY <2>1
<1>5. /\ Len(other) = n + 1 /\ other[n + 1].kind = "return" /\ other[n + 1].saved = back.at
      /\ \A r \in 1..n : other[r] = cells[r]
  BY <1>1, <1>3, <1>4
<1>6. Cells(cells, back.shape, n, b, back.frame) /\ Balanced(spots, cells, b)
  BY <1>1 DEF Fits
<1>7. Cells(other, Called, n + 1, b, f)
  <2>1. Called.place = "called" /\ n + 1 > 0
    BY DEF Called, shape
  <2> QED BY <1>5, <2>1, CellsBy
<1>8. n > 0 => cells[n].kind # "return"
  <2>1. back.shape.place # "called"
    BY DEF Plain
  <2> QED BY <1>2, <1>6, <2>1, NoReturn
<1>9. ASSUME NEW r \in 1..Len(other), other[r].kind = "return"
      PROVE  \E spot \in spots :
               /\ spot.at = other[r].saved
               /\ Plain(spot.shape)
               /\ Cells(other, spot.shape, r - 1, CallerRbp(other, r, b), spot.frame)
  <2>1. CASE r = n + 1
    <3>1. CallerRbp(other, r, b) = b /\ r - 1 = n
      BY <1>5, <2>1 DEF CallerRbp
    <3>2. Cells(other, back.shape, n, b, back.frame)
      BY <1>2, <1>5, <1>6, CellsKept
    <3> QED BY <1>5, <2>1, <3>1, <3>2
  <2>2. CASE r # n + 1
    <3>1. r \in 1..n /\ other[r] = cells[r] /\ cells[r].kind = "return"
      BY <1>5, <1>9, <2>2
    <3>2. r # n
      BY <1>8, <3>1
    <3>3. r + 1 \in 1..n /\ r # Len(cells) /\ r # Len(other)
      BY <1>1, <1>5, <3>1, <3>2
    <3>4. PICK v : v = cells[r + 1].saved
      OBVIOUS
    <3>5. CallerRbp(other, r, b) = v /\ CallerRbp(cells, r, b) = v
      BY <1>5, <3>3, <3>4 DEF CallerRbp
    <3>6. PICK spot \in spots : /\ spot.at = cells[r].saved
                                /\ Plain(spot.shape)
                                /\ Cells(cells, spot.shape, r - 1, v, spot.frame)
      BY <1>1, <1>6, <3>1, <3>5 DEF Balanced
    <3>7. v \in Int
      <4>1. cells[r + 1] \in Cell
        BY <1>1, <3>3
      <4> QED BY <3>4, <4>1 DEF Cell
    <3>8. spot.shape \in Shape /\ spot.frame \in Nat
      BY DEF Spot
    <3>9. r - 1 \in Nat /\ \A c \in 1..(r - 1) : c \in 1..n
      BY <3>1
    <3>10. Cells(other, spot.shape, r - 1, v, spot.frame)
      BY <1>5, <3>6, <3>7, <3>8, <3>9, CellsKept
    <3> QED BY <3>1, <3>5, <3>6, <3>10
  <2> QED BY <2>1, <2>2
<1>10. Balanced(spots, other, b)
  BY <1>9 DEF Balanced
<1> QED BY <1>4, <1>5, <1>7, <1>10 DEF Fits

\* A return finds the address, and behind the call the stack is what it was.
LEMMA ReturnFound ==
  ASSUME NEW spots \in SUBSET Spot, NEW cells \in Seq(Cell), NEW b \in Int,
         NEW f \in Nat, Fits(spots, cells, b, Called, f)
  PROVE  /\ cells # <<>> /\ cells[Len(cells)].kind = "return"
         /\ \E back \in spots :
              /\ back.at = cells[Len(cells)].saved
              /\ Fits(spots, SubSeq(cells, 1, Len(cells) - 1), b, back.shape, back.frame)
<1>1. PICK n \in Nat : n = Len(cells)
  OBVIOUS
<1>2. Cells(cells, Called, n, b, f) /\ Balanced(spots, cells, b)
  BY <1>1 DEF Fits
<1>3. n > 0 /\ cells[n].kind = "return"
  <2>1. Called.place = "called"
    BY DEF Called, shape
  <2> QED BY <1>2, <2>1, CellsBy
<1>4. PICK m \in Nat : m = n - 1
  BY <1>3
<1>5. n \in 1..Len(cells) /\ m \in 0..Len(cells) /\ m <= Len(cells)
  BY <1>1, <1>3, <1>4
<1>6. PICK back \in spots : /\ back.at = cells[n].saved
                            /\ Plain(back.shape)
                            /\ Cells(cells, back.shape, m, b, back.frame)
  <2>1. CallerRbp(cells, n, b) = b /\ n - 1 = m
    BY <1>1, <1>4 DEF CallerRbp
  <2> QED BY <1>2, <1>3, <1>5, <2>1 DEF Balanced
<1>7. back.shape \in Shape /\ back.frame \in Nat /\ back.shape.place # "called"
  BY <1>6 DEF Spot, Plain
<1>8. PICK other \in Seq(Cell) : other = SubSeq(cells, 1, m)
  <2>1. SubSeq(cells, 1, m) \in Seq(Cell)
    BY <1>5
  <2> QED BY <2>1
<1>9. Len(other) = m /\ \A r \in 1..m : other[r] = cells[r]
  BY <1>5, <1>8
<1>10. Cells(other, back.shape, m, b, back.frame)
  BY <1>6, <1>7, <1>9, CellsKept
<1>11. Balanced(spots, other, b)
  <2>1. m > 0 => cells[m].kind # "return"
    BY <1>6, <1>7, NoReturn
  <2>2. m <= Len(other) /\ \A r \in (m + 1)..Len(other) : FALSE
    BY <1>9
  <2> QED BY <1>2, <1>5, <1>9, <2>1, <2>2, BalanceAbove
<1>12. Fits(spots, other, b, back.shape, back.frame)
  BY <1>9, <1>10, <1>11 DEF Fits
<1>13. cells # <<>>
  BY <1>3, <1>1
<1> QED BY <1>1, <1>3, <1>4, <1>6, <1>8, <1>12, <1>13

-----------------------------------------------------------------------------
(* Where control is.                                                       *)

\* Position i is in the entry code, or in a function with f frame cells.
Sits(sh, i, f) ==
  IF sh[list[i]].place = "entry" THEN f = 0
  ELSE \E last \in i..Len(list) : \E first \in 1..i :
         Home(sh, first, last) /\ f = FrameAt(first) \div SLOT

\* The instructions of the program.
Spots(sh) ==
  {spot \in Spot : \E i \in 1..Len(list) :
     spot.at = Begins(i) /\ spot.shape = sh[list[i]] /\ Sits(sh, i, spot.frame)}

\* What is assumed of an encoded program.
Ready == IInv /\ CodeInv /\ RegionInv /\ LinkInv /\ EncoderInv /\ pass = "encoded"

\* Addresses ascend.
LEMMA Ascending ==
  ASSUME Ready, NEW i \in 1..Len(list), NEW j \in 1..Len(list), i < j
  PROVE  Begins(i) < Begins(j)
<1>1. PICK n \in Nat : n = Len(list)
  BY Layout DEF Ready
<1>2. \A c \in 1..n :
        /\ Begins(c) \in Int /\ EndOf(c) \in Int /\ Begins(c) < EndOf(c)
        /\ c # 1 => Begins(c) = EndOf(c - 1)
  <2>1. ASSUME NEW c \in 1..n
        PROVE  /\ Begins(c) \in Int /\ EndOf(c) \in Int /\ Begins(c) < EndOf(c)
               /\ c # 1 => Begins(c) = EndOf(c - 1)
    <3>1. Placement(c)
      BY <1>1, Layout DEF Ready
    <3> QED BY <3>1, PlacementBounds, Zenon
  <2> QED BY <2>1
<1> HIDE DEF Begins, EndOf
<1> DEFINE T == {c \in 1..n : i < c /\ ~ (EndOf(i) <= Begins(c))}
<1>3. CASE T # {}
  <2>1. PICK c \in T : \A d \in 1..(c - 1) : d \notin T
    <3>1. T \in SUBSET (1..n)
      OBVIOUS
    <3> HIDE DEF T
    <3> QED BY <1>3, <3>1, FirstIndex
  <2>2. c \in 1..n /\ i < c /\ ~ (EndOf(i) <= Begins(c)) /\ i \in 1..n
    BY <1>1, <2>1
  <2>3. c # 1 /\ c - 1 \in 1..n /\ c - 1 \in 1..(c - 1) /\ i <= c - 1
    BY <2>2
  <2>4. Begins(c) = EndOf(c - 1)
    BY <1>2, <2>2, <2>3
  <2>5. ASSUME c - 1 = i PROVE FALSE
    <3>1. Begins(c) = EndOf(i) /\ EndOf(i) \in Int
      BY <1>2, <2>2, <2>4, <2>5
    <3> QED BY <2>2, <3>1
  <2>6. i < c - 1 /\ EndOf(i) <= Begins(c - 1)
    BY <2>1, <2>3, <2>5
  <2>7. Begins(c - 1) < EndOf(c - 1) /\ Begins(c - 1) \in Int /\ EndOf(c - 1) \in Int
    BY <1>2, <2>3
  <2>8. EndOf(i) \in Int
    BY <1>2, <2>2
  <2> QED BY <2>2, <2>4, <2>6, <2>7, <2>8
<1>4. CASE T = {}
  <2>1. EndOf(i) <= Begins(j)
    BY <1>1, <1>4
  <2>2. /\ Begins(i) < EndOf(i) /\ Begins(i) \in Int /\ EndOf(i) \in Int
        /\ Begins(j) \in Int
    BY <1>1, <1>2
  <2> QED BY <2>1, <2>2
<1> QED BY <1>3, <1>4

\* No two instructions have the same address.
LEMMA AddressesDiffer ==
  ASSUME Ready, NEW i \in 1..Len(list), NEW j \in 1..Len(list), Begins(i) = Begins(j)
  PROVE  i = j
<1>1. Begins(i) \in Int
  <2>1. Placement(i)
    BY Layout DEF Ready
  <2> QED BY <2>1, PlacementBounds, Zenon
<1>2. ~ (i < j)
  <2>1. i < j => Begins(i) < Begins(j)
    BY Ascending
  <2> HIDE DEF Begins
  <2> QED BY <1>1, <2>1
<1>3. ~ (j < i)
  <2>1. j < i => Begins(j) < Begins(i)
    BY Ascending
  <2> HIDE DEF Begins
  <2> QED BY <1>1, <2>1
<1>4. i \in Int /\ j \in Int
  OBVIOUS
<1> QED BY <1>2, <1>3, <1>4

\* Behind an instruction that control may pass is the next one.
LEMMA NextSpot ==
  ASSUME Ready, NEW c \in 1..Len(list), At(c).operation \notin {"RET", "SYSCALL"}
  PROVE  c + 1 \in 1..Len(list) /\ c < Len(list) /\ Begins(c + 1) = EndOf(c)
<1>1. walk = <<>> /\ phase = "done"
  BY DEF Ready, EncoderInv, CodeInv, FunctionOrder
<1>2. At(Len(list)).operation \in {"RET", "SYSCALL"}
  BY <1>1 DEF Ready, LinkInv, CodeEnds
<1>3. Len(list) \in Nat
  BY Layout DEF Ready
<1>4. c # Len(list)
  BY <1>2
<1>5. c + 1 \in 1..Len(list) /\ c < Len(list) /\ c + 1 # 1 /\ (c + 1) - 1 = c
  BY <1>3, <1>4
<1>6. Placement(c + 1)
  BY <1>5, Layout DEF Ready
<1> QED BY <1>5, <1>6 DEF Placement

\* A frame is a number of cells.
LEMMA FrameCells ==
  ASSUME Ready, NEW sh, NEW last \in 1..Len(list), NEW first \in 1..last, Home(sh, first, last)
  PROVE  FrameAt(first) \in Nat /\ FrameAt(first) \div SLOT \in Nat
<1>1. Len(list) \in Nat
  BY Layout DEF Ready
<1>2. first + 5 <= last
  BY DEF Home, Region
<1>3. first + 3 \in 1..Len(list)
  BY <1>1, <1>2
<1>4. Sound(At(first + 3))
  BY <1>3 DEF Ready, LinkInv
<1>5. FrameAt(first) \in Nat
  BY <1>4 DEF FrameAt, Sound
<1>6. \A n \in Nat : n \div SLOT \in Nat
  BY DEF SLOT
<1> QED BY <1>5, <1>6

\* An instruction of the list is one of the spots.
LEMMA SpotAt ==
  ASSUME Ready, NEW sh \in Seq(Shape), Len(sh) = Len(heap),
         NEW i \in 1..Len(list), NEW f, Sits(sh, i, f)
  PROVE  /\ f \in Nat /\ sh[list[i]] \in Shape
         /\ [at |-> Begins(i), shape |-> sh[list[i]], frame |-> f] \in Spots(sh)
<1>1. f \in Nat
  <2>1. CASE sh[list[i]].place = "entry"
    BY <2>1 DEF Sits
  <2>2. CASE sh[list[i]].place # "entry"
    <3>1. PICK last \in i..Len(list), first \in 1..Len(list) :
            first \in 1..i /\ Home(sh, first, last) /\ f = FrameAt(first) \div SLOT
      <4>1. Len(list) \in Nat /\ \A k \in 1..i : k \in 1..Len(list)
        BY Layout DEF Ready
      <4> QED BY <2>2, <4>1 DEF Sits
    <3>2. last \in 1..Len(list) /\ first \in 1..last
      BY <3>1
    <3> QED BY <3>1, <3>2, FrameCells
  <2> QED BY <2>1, <2>2
<1>2. sh[list[i]] \in Shape
  <2>1. list \in Seq(1..Len(heap))
    BY HandlerState DEF Ready
  <2>2. list[i] \in 1..Len(sh)
    BY <2>1, ElementOfSeq
  <2> QED BY <2>2
<1>3. Begins(i) \in Int
  <2>1. Placement(i)
    BY Layout DEF Ready
  <2> QED BY <2>1, PlacementBounds, Zenon
<1> QED BY <1>1, <1>2, <1>3 DEF Spots, Spot

\* Where control goes on behind an instruction, the frame is the same, and it
\* is what the prologue and the epilogue change RSP by.
LEMMA SitsNext ==
  ASSUME Ready, NEW sh, NEW under, Shaped(sh, under), NEW c \in 1..Len(list), NEW f,
         Sits(sh, c, f), At(c).operation \notin {"RET", "SYSCALL"},
         At(c).operation = "JMP" => At(c).flags # "NONE"
  PROVE  /\ Flows(At(c), sh[list[c]], sh[list[c + 1]])
         /\ Sits(sh, c + 1, f)
         /\ sh[list[c]].place # "entry" =>
              /\ At(c).operation \in {"ADD", "SUB"} /\ Takes(At(c), "RSP") /\
                 (sh[list[c]] = Entered \/ sh[list[c + 1]] = Entered) => M!AmountOf(At(c)) = f
              /\ SetsRbp(At(c)) /\ (sh[list[c]] = Idle \/ sh[list[c + 1]] = Idle) => f = 0
<1>1. c + 1 \in 1..Len(list) /\ c < Len(list) /\ Len(list) \in Nat
  BY NextSpot, Layout DEF Ready
<1>2. PICK s, t, node : s = sh[list[c]] /\ t = sh[list[c + 1]] /\ node = At(c)
  OBVIOUS
<1>3. Flows(node, s, t)
  BY <1>1, <1>2 DEF Shaped, Flowing, At
<1>4. s \in Shape /\ t \in Shape
  <2>1. list \in Seq(1..Len(heap)) /\ sh \in Seq(Shape) /\ Len(sh) = Len(heap)
    BY HandlerState DEF Ready, Shaped
  <2>2. list[c] \in 1..Len(sh) /\ list[c + 1] \in 1..Len(sh)
    BY <1>1, <2>1, ElementOfSeq
  <2> QED BY <1>2, <2>1, <2>2
<1>5. t.place = "entry" <=> s.place = "entry"
  <2>1. /\ Called.place = "called" /\ Pushed.place = "pushed" /\ Entered.place = "entered"
        /\ Idle.place = "body" /\ \A n : Raised(s, n).place = s.place /\ Raised(t, n).place = t.place
    BY DEF Called, Pushed, Entered, Idle, Raised, shape
  <2>2. CASE Inert(node)
    BY <1>3, <2>2 DEF Flows
  <2>3. CASE node.operation \in {"PUSH", "POP"}
    BY <1>3, <2>1, <2>3 DEF Flows
  <2>4. CASE node.operation \in {"JMP", "CALL"}
    BY <1>2, <1>3, <2>1, <2>4 DEF Flows
  <2>5. CASE node.operation \in {"ADD", "SUB"} /\ Takes(node, "RSP")
    BY <1>3, <2>1, <2>5 DEF Flows
  <2>6. CASE node.operation = "MOV" /\ Takes(node, "RBP")
    BY <1>3, <2>1, <2>6 DEF Flows
  <2> QED BY <1>2, <2>2, <2>3, <2>4, <2>5, <2>6 DEF Inert, SetsRbp
<1>6. CASE s.place = "entry"
  BY <1>2, <1>3, <1>5, <1>6 DEF Sits
<1>7. CASE s.place # "entry"
  <2>1. PICK last \in c..Len(list), first \in 1..c :
          Home(sh, first, last) /\ f = FrameAt(first) \div SLOT
    BY <1>2, <1>7 DEF Sits
  <2>2. At(last).operation = "RET"
    BY <2>1 DEF Home, Region
  <2>3. c # last
    BY <2>2
  <2>4. last \in (c + 1)..Len(list) /\ first \in 1..(c + 1) /\ c \in first..(last - 1)
    BY <1>1, <2>3
  <2>5. Sits(sh, c + 1, f)
    BY <1>2, <1>5, <1>7, <2>1, <2>4 DEF Sits
  <2>6. Framing(node, s, t, FrameAt(first))
    BY <1>2, <2>1, <2>4 DEF Home
  <2>7. ASSUME node.operation \in {"ADD", "SUB"}, Takes(node, "RSP"), s = Entered \/ t = Entered
        PROVE  M!AmountOf(node) = f
    <3>1. node.operand2.immediate = FrameAt(first)
      BY <2>6, <2>7 DEF Framing
    <3> QED BY <2>1, <3>1 DEF M!AmountOf, SLOT
  <2>8. SetsRbp(node) /\ (s = Idle \/ t = Idle) => f = 0
    <3>1. SetsRbp(node) /\ (s = Idle \/ t = Idle) => FrameAt(first) = 0
      BY <2>6 DEF Framing
    <3> QED BY <2>1, <3>1 DEF SLOT
  <2> QED BY <1>2, <1>3, <2>5, <2>7, <2>8
<1> QED BY <1>6, <1>7

\* A jump leads to an instruction of the same function, where nothing is on
\* the stack but the frame.
LEMMA JumpSpot ==
  ASSUME Ready, NEW sh, NEW under, Shaped(sh, under), NEW c \in 1..Len(list), NEW f,
         Sits(sh, c, f), At(c).operation = "JMP"
  PROVE  /\ sh[list[c]] = Idle
         /\ \E j \in 1..Len(list) :
              /\ EndOf(c) + patched[list[c]].value = Begins(j)
              /\ sh[list[j]] = Idle /\ Sits(sh, j, f)
<1>1. sh[list[c]] = Idle
  BY DEF Shaped, Flowing, Flows, At
<1>2. Idle.place = "body"
  BY DEF Idle, shape
<1>3. PICK last \in c..Len(list), first \in 1..c :
        Home(sh, first, last) /\ f = FrameAt(first) \div SLOT
  BY <1>1, <1>2 DEF Sits
<1>4. Len(list) \in Nat
  BY Layout DEF Ready
<1>5. c \in first..last
  BY <1>3
<1>6. PICK j \in first..last : list[j] = At(c).jump_target
  BY <1>3, <1>5 DEF Home, Region
<1>7. j \in 1..Len(list) /\ last \in j..Len(list) /\ first \in 1..j
  BY <1>3, <1>4, <1>6
<1>8. /\ EndOf(c) + patched[list[c]].value = addr[At(c).jump_target]
  BY Landing DEF Ready
<1>9. sh[list[j]] = Idle
  <2>1. At(c).jump_target \in 1..Len(heap)
    BY Targets DEF Ready, EncoderInv
  <2>2. At(c).jump_target # NIL
    BY <2>1 DEF NIL
  <2>3. sh[At(c).jump_target] = Idle
    BY <2>2 DEF Shaped, Aimed
  <2> QED BY <1>6, <2>3
<1>10. Sits(sh, j, f)
  BY <1>2, <1>3, <1>7, <1>9 DEF Sits
<1> QED BY <1>1, <1>6, <1>7, <1>8, <1>9, <1>10 DEF Begins

\* A call that is not of the library leads to the head of a function, where
\* the return address is on top of the stack.
LEMMA CallSpot ==
  ASSUME Ready, NEW sh, NEW under, Shaped(sh, under), NEW c \in 1..Len(list),
         At(c).operation = "CALL",
         ~ M!IsLibraryAddress(EndOf(c) + patched[list[c]].value)
  PROVE  \E j \in 1..Len(list), f \in Nat :
           /\ EndOf(c) + patched[list[c]].value = Begins(j)
           /\ sh[list[j]] = Called /\ Sits(sh, j, f)
<1>1. PICK target : target = At(c).jump_target
  OBVIOUS
<1>2. /\ target \in DOMAIN addr
      /\ EndOf(c) + patched[list[c]].value = addr[target]
      /\ \/ \E j \in 1..Len(list) : list[j] = target
         \/ \A j \in 1..Len(list) : list[j] # target
  BY <1>1, Landing DEF Ready
<1>3. PICK j \in 1..Len(list) : list[j] = target
  BY <1>2 DEF M!IsLibraryAddress
<1>4. PICK k \in 1..Len(functions) : target = functions[k].ir_list_head
  BY <1>1 DEF Ready, RegionInv, CallsLead
<1>5. sh[list[j]] = Called
  BY <1>3, <1>4 DEF Shaped, Aimed
<1>6. Called.place = "called"
  BY DEF Called, shape
<1>7. Len(list) \in Nat /\ ~ InFunction
  BY Layout DEF Ready, EncoderInv, CodeInv, FunctionOrder, InFunction
<1>8. PICK start \in 1..(Len(list) + 1) :
        /\ Begun(start)
        /\ \A i \in 1..(start - 1) : sh[list[i]].place # "entry" =>
             \E last \in i..(start - 1) : \E first \in 1..i : Home(sh, first, last)
  BY DEF Shaped, Housed
<1>9. start - 1 = Len(list)
  BY <1>7, <1>8 DEF Begun
<1>10. PICK last \in j..Len(list), first \in 1..j : Home(sh, first, last)
  BY <1>5, <1>6, <1>8, <1>9
<1>11. PICK f : f = FrameAt(first) \div SLOT
  OBVIOUS
<1>12. f \in Nat
  <2>1. last \in 1..Len(list) /\ first \in 1..last
    BY <1>7, <1>10
  <2> QED BY <1>10, <1>11, <2>1, FrameCells
<1>13. Sits(sh, j, f)
  BY <1>5, <1>6, <1>10, <1>11 DEF Sits
<1> QED BY <1>2, <1>3, <1>5, <1>12, <1>13 DEF Begins

\* Where the processor is, with what is on the stack there.
Standing(sh) ==
  \E spot \in Spots(sh) : spot.at = pc /\ Fits(Spots(sh), stack, rbp, spot.shape, spot.frame)

\* The processor's instruction, its shape, and that the stack fits it.
LEMMA Current ==
  ASSUME Ready, MachineInv, Running, NEW sh, Len(sh) = Len(heap), Standing(sh)
  PROVE  \E c \in 1..Len(list), f \in Nat :
           /\ M!Fetch = list[c] /\ M!Instr = At(c) /\ M!NextPc = EndOf(c)
           /\ Sits(sh, c, f)
           /\ Fits(Spots(sh), stack, rbp, sh[list[c]], f)
<1>1. M!IsProgramAddress(pc)
  BY DEF MachineInv
<1>2. PICK c \in 1..Len(list) :
        M!Fetch = list[c] /\ M!Instr = At(c) /\ M!NextPc = EndOf(c) /\ Begins(c) = pc
  BY <1>1, Fetched DEF Ready
<1>3. PICK spot \in Spots(sh) :
        spot.at = pc /\ Fits(Spots(sh), stack, rbp, spot.shape, spot.frame)
  BY DEF Standing
<1>4. PICK i \in 1..Len(list) :
        spot.at = Begins(i) /\ spot.shape = sh[list[i]] /\ Sits(sh, i, spot.frame)
  BY DEF Spots
<1>5. i = c
  BY <1>2, <1>3, <1>4, AddressesDiffer
<1>6. spot.frame \in Nat
  BY DEF Spots, Spot
<1> QED BY <1>2, <1>3, <1>4, <1>5, <1>6

\* The spots of the encoded program stay while it runs.
LEMMA SpotsStay ==
  ASSUME NEW sh, UNCHANGED <<vars, encoderVars>>
  PROVE  Spots(sh)' = Spots(sh)
<1>1. UNCHANGED <<phase, next_func, functions, walk, name_scope, stack_frame_size, func_return,
                  ir_stack, heap, list, addr>>
  BY DEF vars, control, scoping, code, returns, encoderVars
<1>2. \A k, first, last : Region(k, first, last)' <=> Region(k, first, last)
  BY <1>1 DEF Region, At, FrameAt
<1>3. \A first, last : Home(sh, first, last)' <=> Home(sh, first, last)
  BY <1>1, <1>2 DEF Home, At, FrameAt
<1>4. \A i, f : Sits(sh, i, f)' <=> Sits(sh, i, f)
  BY <1>1, <1>3 DEF Sits, FrameAt, At
<1>5. \A i : Begins(i)' = Begins(i)
  BY <1>1 DEF Begins
<1> QED BY <1>1, <1>4, <1>5 DEF Spots

\* A step of the processor leads from a spot the stack fits to another one,
\* and the program exits with nothing on the stack.
LEMMA StandingKept ==
  ASSUME Ready, MachineInv, Running, M!Execute, UNCHANGED <<vars, encoderVars>>,
         NEW sh, NEW under, Shaped(sh, under), Standing(sh)
  PROVE  /\ Running' => Standing(sh)'
         /\ status' = "exited" => stack' = <<>>
<1>1. PICK spots \in SUBSET Spot : spots = Spots(sh)
  BY DEF Spots
<1>2. Spots(sh)' = spots
  BY <1>1, SpotsStay
<1>3. PICK c \in 1..Len(list), f \in Nat :
        /\ M!Fetch = list[c] /\ M!Instr = At(c) /\ M!NextPc = EndOf(c)
        /\ Sits(sh, c, f)
        /\ Fits(spots, stack, rbp, sh[list[c]], f)
  BY <1>1, Current DEF Shaped
<1>4. PICK node, s, t : node = At(c) /\ s = sh[list[c]] /\ t = sh[list[c + 1]]
  OBVIOUS
<1>5. /\ stack \in Seq(Cell) /\ rbp \in Int /\ pc \in Int /\ status = "running"
      /\ sh \in Seq(Shape) /\ Len(sh) = Len(heap)
  BY DEF MachineInv, Running, Shaped
<1>6. /\ M!Instr = node /\ Fits(spots, stack, rbp, s, f) /\ s \in Shape
      /\ Flows(node, s, t) \/ node.operation \in {"RET", "SYSCALL", "JMP"}
  <2>1. node.operation \notin {"RET", "SYSCALL", "JMP"} => Flows(node, s, t)
    BY <1>3, <1>4, SitsNext
  <2>2. s \in Shape
    BY <1>3, <1>4, <1>5, SpotAt
  <2> QED BY <1>3, <1>4, <2>1, <2>2
<1>7. ASSUME NEW j \in 1..Len(list), NEW g, Sits(sh, j, g),
             pc' = Begins(j), Fits(spots, stack', rbp', sh[list[j]], g)
      PROVE  Standing(sh)'
  <2>1. PICK spot : spot = [at |-> Begins(j), shape |-> sh[list[j]], frame |-> g]
    OBVIOUS
  <2>2. spot \in spots
    BY <1>1, <1>5, <1>7, <2>1, SpotAt
  <2>3. spot.at = pc' /\ Fits(spots, stack', rbp', spot.shape, spot.frame)
    BY <1>7, <2>1
  <2> QED BY <1>2, <2>2, <2>3 DEF Standing
<1>8. ASSUME pc' = M!NextPc, node.operation \notin {"RET", "SYSCALL"},
             node.operation = "JMP" => node.flags # "NONE",
             Fits(spots, stack', rbp', t, f)
      PROVE  Standing(sh)'
  <2>1. c + 1 \in 1..Len(list) /\ Begins(c + 1) = EndOf(c)
    BY <1>4, <1>8, NextSpot
  <2>2. Sits(sh, c + 1, f)
    BY <1>3, <1>4, <1>8, SitsNext
  <2> QED BY <1>3, <1>4, <1>7, <1>8, <2>1, <2>2
<1>9. /\ M!OnRbp <=> Takes(node, "RBP")
      /\ M!OnRsp <=> Takes(node, "RSP")
  BY <1>6 DEF M!OnRbp, M!OnRsp, Takes, M!operand_reg, operand_reg
<1>10. /\ Called.place = "called" /\ Pushed.place = "pushed" /\ Entered.place = "entered"
       /\ Idle.place = "body" /\ Entry.place = "entry" /\ Entry.height = 0
  BY DEF Called, Pushed, Entered, Idle, Entry, shape
<1>11. CASE M!exec_push
  <2>1. /\ node.operation = "PUSH" /\ pc' = M!NextPc /\ rbp' = rbp
        /\ stack' = Append(stack, IF M!OnRbp THEN M!SavedRbp(rbp) ELSE M!Value)
    BY <1>6, <1>11 DEF M!exec_push, M!Step, M!Executing
  <2>2. CASE Takes(node, "RBP")
    <3>1. s = Called /\ t = Pushed
      BY <1>6, <2>1, <2>2 DEF Flows
    <3>2. Fits(spots, Append(stack, M!SavedRbp(rbp)), rbp, Pushed, f)
      BY <1>5, <1>6, <3>1, RbpSaved
    <3> QED BY <1>5, <1>8, <1>9, <1>11, <2>1, <2>2, <3>1, <3>2 DEF M!exec_push, M!Step
  <2>3. CASE ~ Takes(node, "RBP")
    <3>1. Plain(s) /\ t = Raised(s, 1)
      BY <1>6, <2>1, <2>3 DEF Flows
    <3>2. Fits(spots, Append(stack, M!Value), rbp, t, f)
      BY <1>5, <1>6, <3>1, ValuePushed
    <3> QED BY <1>5, <1>8, <1>9, <1>11, <2>1, <2>3, <3>2 DEF M!exec_push, M!Step
  <2> QED BY <2>2, <2>3
<1>12. t \in Shape \/ node.operation \in {"RET", "SYSCALL"}
  <2>1. ASSUME node.operation \notin {"RET", "SYSCALL"} PROVE t \in Shape
    <3>1. c + 1 \in 1..Len(list)
      BY <1>4, <2>1, NextSpot
    <3>2. list \in Seq(1..Len(heap))
      BY HandlerState DEF Ready
    <3>3. list[c + 1] \in 1..Len(sh)
      BY <1>5, <3>1, <3>2, ElementOfSeq
    <3> QED BY <1>4, <1>5, <3>3
  <2> QED BY <2>1
<1>13. CASE M!exec_pop
  <2>1. /\ node.operation = "POP" /\ pc' = M!NextPc /\ stack' = M!Dropped(1)
        /\ status' = status /\ rbp' = IF M!OnRbp THEN M!StackTop.saved ELSE rbp
    BY <1>6, <1>13 DEF M!exec_pop, M!Step, M!Executing
  <2>2. CASE Takes(node, "RBP")
    <3>1. s \in {Entered, Idle} /\ t = Called
      BY <1>6, <2>1, <2>2 DEF Flows
    <3>2. s = Idle => f = 0
      <4>1. SetsRbp(node) /\ s = Idle /\ s.place # "entry" => f = 0
        BY <1>3, <1>4, <2>1, SitsNext
      <4> QED BY <1>10, <2>1, <2>2, <4>1 DEF SetsRbp
    <3>3. /\ Len(stack) = rbp
          /\ Fits(spots, SubSeq(stack, 1, Len(stack) - 1), stack[rbp].saved, Called, f)
      BY <1>5, <1>6, <3>1, <3>2, RbpRestored
    <3> QED BY <1>5, <1>8, <1>9, <2>1, <2>2, <3>1, <3>3 DEF M!Dropped, M!StackTop
  <2>3. CASE ~ Takes(node, "RBP")
    <3>1. Plain(t) /\ s = Raised(t, 1)
      BY <1>6, <2>1, <2>3 DEF Flows
    <3>2. Fits(spots, SubSeq(stack, 1, Len(stack) - 1), rbp, t, f)
      BY <1>5, <1>6, <1>12, <2>1, <3>1, ValuesDropped
    <3> QED BY <1>5, <1>8, <1>9, <2>1, <2>3, <3>2 DEF M!Dropped
  <2> QED BY <2>2, <2>3
<1>14. CASE M!exec_enter_frame
  <2>1. /\ node.operation = "MOV" /\ Takes(node, "RBP") /\ pc' = M!NextPc
        /\ stack' = stack /\ status' = status /\ rbp' = Len(stack)
    BY <1>6, <1>9, <1>14 DEF M!exec_enter_frame, M!Executing
  <2>2. s = Pushed /\ t \in {Entered, Idle}
    BY <1>6, <2>1 DEF Flows
  <2>3. t = Idle => f = 0
    <3>1. SetsRbp(node) /\ t = Idle /\ s.place # "entry" => f = 0
      BY <1>3, <1>4, <2>1, SitsNext
    <3> QED BY <1>10, <2>1, <2>2, <3>1 DEF SetsRbp
  <2>4. Fits(spots, stack, Len(stack), t, f)
    BY <1>5, <1>6, <2>2, <2>3, RbpSet
  <2> QED BY <1>5, <1>8, <2>1, <2>4
<1>15. CASE M!exec_reserve
  <2>1. /\ node.operation = "SUB" /\ Takes(node, "RSP") /\ pc' = M!NextPc /\ rbp' = rbp
        /\ status' = status /\ stack' = stack \o M!Cells(M!AmountOf(node))
    BY <1>6, <1>9, <1>15 DEF M!exec_reserve, M!Step, M!Executing
  <2>2. s = Entered /\ t = Idle
    BY <1>6, <2>1 DEF Flows
  <2>3. M!AmountOf(node) = f
    <3>1. node.operation \in {"ADD", "SUB"} /\ Takes(node, "RSP") /\ s = Entered
          /\ s.place # "entry" => M!AmountOf(node) = f
      BY <1>3, <1>4, <2>1, SitsNext
    <3> QED BY <1>10, <2>1, <2>2, <3>1
  <2>4. Fits(spots, stack \o M!Cells(f), rbp, Idle, f)
    BY <1>5, <1>6, <2>2, FrameMade
  <2> QED BY <1>5, <1>8, <2>1, <2>2, <2>3, <2>4
<1>16. CASE M!exec_release
  <2>1. /\ node.operation = "ADD" /\ Takes(node, "RSP") /\ pc' = M!NextPc /\ rbp' = rbp
        /\ status' = status /\ stack' = SubSeq(stack, 1, Len(stack) - M!AmountOf(node))
    BY <1>6, <1>9, <1>16 DEF M!exec_release, M!Step, M!Executing, M!Dropped
  <2>2. \/ Plain(t) /\ s = Raised(t, M!AmountOf(node))
        \/ s = Idle /\ t = Entered
    BY <1>6, <2>1 DEF Flows
  <2>3. CASE Plain(t) /\ s = Raised(t, M!AmountOf(node))
    <3>1. M!AmountOf(node) \in Nat
      BY <1>4, <2>1, AmountOfCells DEF Ready, Takes
    <3>2. Fits(spots, SubSeq(stack, 1, Len(stack) - M!AmountOf(node)), rbp, t, f)
      BY <1>5, <1>6, <1>12, <2>1, <2>3, <3>1, ValuesDropped
    <3> QED BY <1>5, <1>8, <2>1, <3>2
  <2>4. CASE s = Idle /\ t = Entered
    <3>1. M!AmountOf(node) = f
      <4>1. node.operation \in {"ADD", "SUB"} /\ Takes(node, "RSP") /\ t = Entered
            /\ s.place # "entry" => M!AmountOf(node) = f
        BY <1>3, <1>4, <2>1, SitsNext
      <4> QED BY <1>10, <2>1, <2>4, <4>1
    <3>2. Fits(spots, SubSeq(stack, 1, Len(stack) - f), rbp, Entered, f)
      BY <1>5, <1>6, <2>4, FrameDropped
    <3> QED BY <1>5, <1>8, <2>1, <2>4, <3>1, <3>2
  <2> QED BY <2>2, <2>3, <2>4
<1>17. CASE M!exec_call
  <2>1. /\ node.operation = "CALL" /\ pc' = M!JumpPc /\ rbp' = rbp /\ status' = status
        /\ stack' = Append(stack, M!ReturnTo(M!NextPc)) /\ ~ M!IsLibraryAddress(M!JumpPc)
    BY <1>6, <1>17 DEF M!exec_call, M!Step, M!Executing
  <2>2. M!JumpPc = EndOf(c) + patched[list[c]].value
    BY <1>3 DEF M!JumpPc
  <2>3. PICK j \in 1..Len(list), g \in Nat :
          M!JumpPc = Begins(j) /\ sh[list[j]] = Called /\ Sits(sh, j, g)
    BY <1>4, <2>1, <2>2, CallSpot
  <2>4. Plain(s) /\ t = s
    BY <1>6, <2>1 DEF Flows
  <2>5. c + 1 \in 1..Len(list) /\ Begins(c + 1) = EndOf(c) /\ Sits(sh, c + 1, f)
    BY <1>3, <1>4, <2>1, NextSpot, SitsNext
  <2>6. PICK back : back = [at |-> Begins(c + 1), shape |-> sh[list[c + 1]], frame |-> f]
    OBVIOUS
  <2>7. back \in spots
    BY <1>1, <1>5, <2>5, <2>6, SpotAt
  <2>8. back.at = M!NextPc /\ back.shape = s /\ back.frame = f
    BY <1>3, <1>4, <2>4, <2>5, <2>6
  <2>9. Fits(spots, stack', rbp', Called, g)
    BY <1>5, <1>6, <2>1, <2>4, <2>7, <2>8, ReturnPushed
  <2> QED BY <1>5, <1>7, <2>1, <2>3, <2>9
<1>18. CASE M!exec_ret
  <2>1. /\ node.operation = "RET" /\ pc' = stack[Len(stack)].saved /\ rbp' = rbp
        /\ status' = status /\ stack' = SubSeq(stack, 1, Len(stack) - 1)
    BY <1>6, <1>18 DEF M!exec_ret, M!Step, M!Executing, M!StackTop, M!Dropped
  <2>2. s = Called
    BY <1>4, <2>1 DEF Shaped, Flowing, Flows, At
  <2>3. \E back \in spots :
          /\ back.at = stack[Len(stack)].saved
          /\ Fits(spots, SubSeq(stack, 1, Len(stack) - 1), rbp, back.shape, back.frame)
    BY <1>5, <1>6, <2>2, ReturnFound
  <2> QED BY <1>2, <1>5, <2>1, <2>3 DEF Standing
<1>19. CASE M!exec_jmp
  <2>1. /\ node.operation = "JMP" /\ pc' = M!JumpPc /\ rbp' = rbp /\ status' = status
        /\ stack' = stack
    BY <1>6, <1>19 DEF M!exec_jmp, M!Step, M!Executing
  <2>2. M!JumpPc = EndOf(c) + patched[list[c]].value
    BY <1>3 DEF M!JumpPc
  <2>3. s = Idle /\ \E j \in 1..Len(list) :
          M!JumpPc = Begins(j) /\ sh[list[j]] = Idle /\ Sits(sh, j, f)
    BY <1>3, <1>4, <2>1, <2>2, JumpSpot
  <2> QED BY <1>5, <1>6, <1>7, <2>1, <2>3
<1>20. CASE M!exec_call_stdlib \/ M!exec_no_jmp \/ M!exec_data
  <2>1. /\ pc' = M!NextPc /\ rbp' = rbp /\ status' = status /\ stack' = stack
    BY <1>20 DEF M!exec_call_stdlib, M!exec_no_jmp, M!exec_data, M!Step
  <2>2. t = s /\ node.operation \notin {"RET", "SYSCALL"}
        /\ (node.operation = "JMP" => node.flags # "NONE")
    <3>1. CASE M!exec_call_stdlib
      <4>1. node.operation = "CALL"
        BY <1>6, <3>1 DEF M!exec_call_stdlib, M!Executing
      <4> QED BY <1>6, <4>1 DEF Flows
    <3>2. CASE M!exec_no_jmp
      <4>1. node.operation = "JMP" /\ node.flags # "NONE"
        BY <1>6, <3>2 DEF M!exec_no_jmp, M!Executing
      <4>2. Flows(node, s, t)
        BY <1>3, <1>4, <4>1, SitsNext
      <4> QED BY <4>1, <4>2 DEF Flows
    <3>3. CASE M!exec_data
      <4>1. /\ node.operation \notin {"PUSH", "POP", "CALL", "RET", "JMP", "SYSCALL"}
            /\ ~ Takes(node, "RSP")
            /\ ~ (node.operation = "MOV" /\ Takes(node, "RBP"))
        BY <1>6, <1>9, <3>3 DEF M!exec_data
      <4>2. Inert(node)
        BY <4>1 DEF Inert, SetsRbp
      <4> QED BY <1>6, <4>1, <4>2 DEF Flows
    <3> QED BY <1>20, <3>1, <3>2, <3>3
  <2> QED BY <1>5, <1>6, <1>8, <2>1, <2>2
<1>21. CASE M!exec_exit
  <2>1. node.operation = "SYSCALL" /\ status' = "exited" /\ stack' = stack
    BY <1>6, <1>21 DEF M!exec_exit, M!Executing, M!Halt
  <2>2. s = Entry
    BY <1>4, <2>1 DEF Shaped, Flowing, Flows, At
  <2>3. Len(stack) = 0
    BY <1>6, <1>10, <2>2, CellsBy DEF Fits
  <2>4. stack = <<>>
    BY <1>5, <2>3
  <2> QED BY <2>1, <2>4 DEF Running
<1>22. CASE M!trap \/ M!read_fault \/ M!stray \/ M!overflow
  BY <1>22 DEF M!trap, M!read_fault, M!stray, M!overflow, M!Halt, Running
<1>23. ~ M!boot
  BY <1>5 DEF M!boot
<1>24. status' = "running" \/ M!exec_exit \/ M!trap \/ M!read_fault \/ M!stray \/ M!overflow
  BY <1>5, <1>23 DEF M!Execute, M!exec_push, M!exec_pop, M!exec_enter_frame, M!exec_reserve,
     M!exec_release, M!exec_call, M!exec_call_stdlib, M!exec_ret, M!exec_jmp, M!exec_no_jmp,
     M!exec_data, M!Step
<1> QED
  BY <1>11, <1>13, <1>14, <1>15, <1>16, <1>17, <1>18, <1>19, <1>20, <1>21, <1>22, <1>23, <1>24
     DEF M!Execute

\* The program starts with nothing on the stack, at the first instruction.
LEMMA StandingAtFirst ==
  ASSUME Ready, MachineInv, M!boot, UNCHANGED <<vars, encoderVars>>,
         NEW sh, NEW under, Shaped(sh, under)
  PROVE  Standing(sh)'
<1>1. PICK spots \in SUBSET Spot : spots = Spots(sh)
  BY DEF Spots
<1>2. Spots(sh)' = spots
  BY <1>1, SpotsStay
<1>3. pc' = Begins(1) /\ stack' = <<>>
  BY DEF M!boot, MachineInv, Begins
<1>4. sh[list[1]] = Entry /\ Entry.place = "entry" /\ Entry.height = 0
  BY DEF Shaped, Aimed, Entry, shape
<1>5. 1 \in 1..Len(list) /\ Sits(sh, 1, 0)
  BY <1>4, Layout DEF Sits, Ready
<1>6. PICK spot : spot = [at |-> Begins(1), shape |-> sh[list[1]], frame |-> 0]
  OBVIOUS
<1>7. spot \in spots
  BY <1>1, <1>5, <1>6, SpotAt DEF Shaped
<1>8. Len(stack') = 0
  BY <1>3
<1>9. Fits(spots, stack', rbp', Entry, 0)
  <2>1. Cells(stack', Entry, 0, rbp', 0)
    BY <1>4, CellsBy
  <2>2. Balanced(spots, stack', rbp')
    BY <1>8 DEF Balanced
  <2> QED BY <1>8, <2>1, <2>2 DEF Fits
<1> QED BY <1>2, <1>3, <1>4, <1>6, <1>7, <1>9 DEF Standing

\* The inductive invariant: the stack fits the instruction control is at, and
\* below every return address the one returned to.
StackInv ==
  Tidy =>
    /\ Running => \E sh \in Seq(Shape), under \in Seq(Nat) : Shaped(sh, under) /\ Standing(sh)
    /\ status = "exited" => stack = <<>>

\* Every step of the backend keeps the stack in order.
LEMMA DisciplineKept ==
  ASSUME IInv, CodeInv, RegionInv, BackendInv, ShapeInv, StackInv, [BackendNext]_backendVars
  PROVE  StackInv'
<1>1. LinkInv /\ EncoderInv /\ MachineInv
  BY DEF BackendInv
<1>2. CASE Generate \/ EncodeList
  <2>1. pass # "encoded"
    BY <1>1, <1>2, NotEncoded DEF Generate, EncodeList
  <2>2. status = "off" /\ status' = status
    BY <1>1, <1>2, <2>1 DEF MachineInv, Generate, EncodeList, machineVars
  <2> QED BY <2>2 DEF StackInv, Running
<1>3. CASE RunProgram
  <2>1. Ready /\ M!Execute /\ UNCHANGED <<vars, encoderVars>>
    BY <1>1, <1>3 DEF RunProgram, Ready
  <2>2. functions' = functions /\ phase = "done"
    BY <2>1 DEF vars, control, Ready, EncoderInv
  <2> SUFFICES ASSUME Tidy'
               PROVE  /\ Running' => \E sh \in Seq(Shape), under \in Seq(Nat) :
                                       Shaped(sh, under)' /\ Standing(sh)'
                      /\ status' = "exited" => stack' = <<>>
    BY DEF StackInv
  <2>3. Tidy
    BY <2>2 DEF Tidy
  <2>4. CASE Running
    <3>1. PICK sh \in Seq(Shape), under \in Seq(Nat) : Shaped(sh, under) /\ Standing(sh)
      BY <2>3, <2>4 DEF StackInv
    <3>2. Shaped(sh, under)'
      BY <2>1, <3>1, ShapesIdle
    <3>3. (Running' => Standing(sh)') /\ (status' = "exited" => stack' = <<>>)
      BY <1>1, <2>1, <2>4, <3>1, StandingKept
    <3> QED BY <3>2, <3>3
  <2>5. CASE M!boot
    <3>1. PICK sh \in Seq(Shape), under \in Seq(Nat) : Shaped(sh, under)
      BY <2>2, <2>3 DEF ShapeInv
    <3>2. Shaped(sh, under)' /\ Standing(sh)'
      BY <1>1, <2>1, <2>5, <3>1, ShapesIdle, StandingAtFirst
    <3>3. status' = "running"
      BY <2>5 DEF M!boot
    <3> QED BY <3>2, <3>3
  <2>6. Running \/ M!boot
    BY <2>1 DEF Running, M!Execute, M!exec_push, M!exec_pop, M!exec_enter_frame, M!exec_reserve,
       M!exec_release, M!exec_call, M!exec_call_stdlib, M!exec_ret, M!exec_jmp, M!exec_no_jmp,
       M!exec_data, M!trap, M!read_fault, M!exec_exit, M!stray, M!overflow, M!Executing
  <2> QED BY <2>4, <2>5, <2>6
<1>4. CASE Ended \/ UNCHANGED backendVars
  <2>1. UNCHANGED <<vars, encoderVars>> /\ UNCHANGED <<functions, status, pc, rbp, stack>>
    BY <1>4 DEF Ended, backendVars, vars, control, machineVars
  <2> SUFFICES ASSUME Tidy'
               PROVE  /\ Running' => \E sh \in Seq(Shape), under \in Seq(Nat) :
                                       Shaped(sh, under)' /\ Standing(sh)'
                      /\ status' = "exited" => stack' = <<>>
    BY DEF StackInv
  <2>2. Tidy
    BY <2>1 DEF Tidy
  <2>3. ASSUME Running' PROVE \E sh \in Seq(Shape), under \in Seq(Nat) :
                                Shaped(sh, under)' /\ Standing(sh)'
    <3>1. Running
      BY <2>1, <2>3 DEF Running
    <3>2. PICK sh \in Seq(Shape), under \in Seq(Nat) : Shaped(sh, under) /\ Standing(sh)
      BY <2>2, <3>1 DEF StackInv
    <3>3. Shaped(sh, under)'
      BY <2>1, <3>2, ShapesIdle
    <3>4. Spots(sh)' = Spots(sh)
      BY <2>1, SpotsStay
    <3>5. Standing(sh)'
      BY <2>1, <3>2, <3>4 DEF Standing
    <3> QED BY <3>3, <3>5
  <2>4. status' = "exited" => stack' = <<>>
    BY <2>1, <2>2 DEF StackInv
  <2> QED BY <2>3, <2>4
<1> QED BY <1>2, <1>3, <1>4 DEF BackendNext

\* In every tidy program, whatever it calls and however its conditions turn
\* out, the stack is at every instruction what the code there counts on.
THEOREM StackInvariance == BackendSpec => []StackInv
<1>1. BackendInit => StackInv
  BY DEF BackendInit, M!MachineInit, StackInv, Running
<1>2. /\ IInv /\ CodeInv /\ RegionInv /\ BackendInv /\ ShapeInv /\ StackInv
      /\ [BackendNext]_backendVars
      => StackInv'
  BY DisciplineKept
<1> QED
  BY <1>1, <1>2, GeneratorInvariance, BackendInvariance, ShapeInvariance, PTL DEF BackendSpec

-----------------------------------------------------------------------------
(* What holds of every run of a tidy program.                              *)

\* What the instruction of the processor counts on, and that the stack fits.
LEMMA StackAt ==
  ASSUME Ready, MachineInv, StackInv, Tidy, Running
  PROVE  \E c \in 1..Len(list), f \in Nat, s \in Shape :
           /\ M!Instr = At(c)
           /\ Cells(stack, s, Len(stack), rbp, f)
           /\ ConsumesTop(At(c)) => Plain(s) /\ s.height > 0
           /\ At(c).operation = "POP" /\ Takes(At(c), "RBP") =>
                s = Entered \/ (s = Idle /\ f = 0)
           /\ At(c).operation = "RET" => s = Called
           /\ IsLocalAccess(At(c)) => s.place = "body" /\ SlotOf(At(c)) \div SLOT \in 1..f
<1>1. PICK sh \in Seq(Shape), under \in Seq(Nat) : Shaped(sh, under) /\ Standing(sh)
  BY DEF StackInv
<1>2. PICK c \in 1..Len(list), f \in Nat :
        /\ M!Instr = At(c) /\ Sits(sh, c, f)
        /\ Fits(Spots(sh), stack, rbp, sh[list[c]], f)
  BY <1>1, Current DEF Shaped
<1>3. PICK s, node : s = sh[list[c]] /\ node = At(c)
  OBVIOUS
<1>4. s \in Shape
  BY <1>1, <1>2, <1>3, SpotAt DEF Shaped
<1>5. PICK t : Flows(node, s, t)
  BY <1>1, <1>3 DEF Shaped, Flowing, At
<1>6. Idle.place = "body"
  BY DEF Idle, shape
<1>7. ASSUME node.operation = "POP"
      PROVE  /\ ~ Takes(node, "RBP") => Plain(s) /\ s.height > 0
             /\ Takes(node, "RBP") => s = Entered \/ (s = Idle /\ f = 0)
  <2>1. PICK next : next = sh[list[c + 1]]
    OBVIOUS
  <2>2. c + 1 \in 1..Len(list)
    BY <1>2, <1>3, <1>7, NextSpot
  <2>3. next \in Shape
    <3>1. list \in Seq(1..Len(heap)) /\ Len(sh) = Len(heap)
      BY <1>1, HandlerState DEF Ready, Shaped
    <3>2. list[c + 1] \in 1..Len(sh)
      BY <2>2, <3>1, ElementOfSeq
    <3> QED BY <1>1, <2>1, <3>2
  <2>4. /\ Flows(node, s, next)
        /\ s.place # "entry" /\ SetsRbp(node) /\ s = Idle => f = 0
    BY <1>1, <1>2, <1>3, <1>7, <2>1, SitsNext
  <2>5. ~ Takes(node, "RBP") => Plain(next) /\ s = Raised(next, 1)
    BY <1>7, <2>4 DEF Flows
  <2>6. Plain(next) /\ s = Raised(next, 1) => Plain(s) /\ s.height > 0
    BY <2>3 DEF Raised, shape, Plain, Shape
  <2>7. Takes(node, "RBP") => s \in {Entered, Idle}
    BY <1>7, <2>4 DEF Flows
  <2>8. Takes(node, "RBP") => SetsRbp(node)
    BY <1>7 DEF SetsRbp
  <2> QED BY <1>6, <2>4, <2>5, <2>6, <2>7, <2>8
<1>8. ConsumesTop(node) => Plain(s) /\ s.height > 0
  BY <1>5, <1>7 DEF ConsumesTop, Flows, Takes
<1>9. node.operation = "RET" => s = Called
  BY <1>5 DEF Flows
<1>10. ASSUME IsLocalAccess(node)
       PROVE  s.place = "body" /\ SlotOf(node) \div SLOT \in 1..f
  <2>1. s.place = "body"
    BY <1>5, <1>10 DEF Flows
  <2>2. PICK last \in c..Len(list), first \in 1..c :
          Home(sh, first, last) /\ f = FrameAt(first) \div SLOT
    BY <1>2, <1>3, <2>1 DEF Sits
  <2>3. SlotOf(node) \in SLOT..FrameAt(first)
    <3>1. c \in first..last
      BY <2>2
    <3> QED BY <1>3, <1>10, <2>2, <3>1 DEF Home, Region
  <2>4. FrameAt(first) \in Nat
    <3>1. last \in 1..Len(list) /\ first \in 1..last
      BY <2>2, Layout DEF Ready
    <3> QED BY <2>2, <3>1, FrameCells
  <2>5. PICK slot, frame : slot = SlotOf(node) /\ frame = FrameAt(first)
    OBVIOUS
  <2>6. slot \in SLOT..frame /\ frame \in Nat
    BY <2>3, <2>4, <2>5
  <2>7. slot \div SLOT \in 1..(frame \div SLOT)
    BY ONLY <2>6 DEF SLOT
  <2> QED BY <2>1, <2>2, <2>5, <2>7
<1> QED BY <1>2, <1>3, <1>4, <1>7, <1>8, <1>9, <1>10 DEF Fits

\* No pop or access to the top of the stack of a tidy program finds anything
\* but an operand there.
THEOREM OperandsOnTop == BackendSpec => []OperandsAreTemporaries
<1>1. IInv /\ CodeInv /\ RegionInv /\ BackendInv /\ StackInv => OperandsAreTemporaries
  <2> SUFFICES ASSUME IInv, CodeInv, RegionInv, BackendInv, StackInv,
                      Running, Tidy, ConsumesTop(M!Instr)
               PROVE  stack # <<>> /\ M!StackTop.kind = "value"
    BY DEF OperandsAreTemporaries
  <2>1. Ready /\ MachineInv
    BY DEF BackendInv, MachineInv, Ready, Running
  <2>2. PICK f \in Nat, s \in Shape :
          Cells(stack, s, Len(stack), rbp, f) /\ Plain(s) /\ s.height > 0
    BY <2>1, StackAt
  <2>3. PICK n \in Nat, h \in Nat : n = Len(stack) /\ h = s.height /\ h > 0
    <3>1. Len(stack) \in Nat /\ s.height \in Nat
      BY <2>1 DEF MachineInv, Shape
    <3> QED BY <2>2, <3>1
  <2>4. n > 0 /\ stack[n].kind = "value"
    <3>1. CASE s.place = "entry"
      <4>1. n = h /\ \A c \in 1..n : stack[c].kind = "value"
        BY <2>2, <2>3, <3>1, CellsBy
      <4>2. n \in 1..n
        BY <2>3, <4>1
      <4> QED BY <2>3, <4>1, <4>2
    <3>2. CASE s.place = "body"
      <4>1. /\ Opened(stack, rbp) /\ n = rbp + (f + h)
            /\ \A c \in (rbp + 1)..n :
                 stack[c].kind = IF c <= rbp + f THEN "frame" ELSE "value"
        BY <2>2, <2>3, <3>2, CellsBy
      <4>2. rbp > 1 /\ rbp \in Int
        BY <2>1, <4>1 DEF Opened, MachineInv
      <4>3. n \in (rbp + 1)..n /\ ~ (n <= rbp + f) /\ n > 0
        BY <2>3, <4>1, <4>2
      <4> QED BY <4>1, <4>3
    <3> QED BY <2>2, <3>1, <3>2 DEF Plain
  <2> QED BY <2>3, <2>4 DEF M!StackTop
<1> QED BY <1>1, GeneratorInvariance, BackendInvariance, StackInvariance, PTL

\* Every slot of a variable that a tidy program reads or writes is a cell of
\* the frame of the running activation.
THEOREM LocalsOnFrame == BackendSpec => []LocalsAreInFrame
<1>1. IInv /\ CodeInv /\ RegionInv /\ BackendInv /\ StackInv => LocalsAreInFrame
  <2> DEFINE cell == rbp + SlotOf(M!Instr) \div SLOT
  <2> SUFFICES ASSUME IInv, CodeInv, RegionInv, BackendInv, StackInv,
                      Running, Tidy, IsLocalAccess(M!Instr)
               PROVE  cell \in 1..Len(stack) /\ stack[cell].kind = "frame"
    BY DEF LocalsAreInFrame
  <2>1. Ready /\ MachineInv
    BY DEF BackendInv, MachineInv, Ready, Running
  <2>2. PICK f \in Nat, s \in Shape :
          /\ Cells(stack, s, Len(stack), rbp, f)
          /\ s.place = "body" /\ SlotOf(M!Instr) \div SLOT \in 1..f
    BY <2>1, StackAt
  <2>3. PICK n \in Nat, h \in Nat : n = Len(stack) /\ h = s.height
    <3>1. Len(stack) \in Nat /\ s.height \in Nat
      BY <2>1 DEF MachineInv, Shape
    <3> QED BY <3>1
  <2>4. /\ Opened(stack, rbp) /\ n = rbp + (f + h)
        /\ \A c \in (rbp + 1)..n : stack[c].kind = IF c <= rbp + f THEN "frame" ELSE "value"
    BY <2>2, <2>3, CellsBy
  <2>5. rbp > 1 /\ rbp \in Int
    BY <2>1, <2>4 DEF Opened, MachineInv
  <2>6. PICK k \in 1..f : k = SlotOf(M!Instr) \div SLOT
    BY <2>2
  <2>7. rbp + k \in (rbp + 1)..n /\ rbp + k \in 1..n /\ rbp + k <= rbp + f
    BY <2>3, <2>4, <2>5
  <2> QED BY <2>3, <2>4, <2>6, <2>7
<1> QED BY <1>1, GeneratorInvariance, BackendInvariance, StackInvariance, PTL

\* Every function of a tidy program returns with the stack as it was called
\* with, and the program exits with nothing on it.
THEOREM BalancedReturns == BackendSpec => []ReturnsBalanced
<1>1. IInv /\ CodeInv /\ RegionInv /\ BackendInv /\ StackInv => ReturnsBalanced
  <2> SUFFICES ASSUME IInv, CodeInv, RegionInv, BackendInv, StackInv, Tidy
               PROVE  /\ Running /\ M!Instr = new_pop_reg("RBP") => Len(stack) = rbp
                      /\ Running /\ M!Instr = new_ret =>
                           stack # <<>> /\ M!StackTop.kind = "return"
                      /\ status = "exited" => stack = <<>>
    BY DEF ReturnsBalanced
  <2>1. /\ Called.place = "called" /\ Entered.place = "entered"
        /\ Idle.place = "body" /\ Idle.height = 0
    BY DEF Called, Entered, Idle, shape
  <2>2. ASSUME Running
        PROVE  /\ M!Instr = new_pop_reg("RBP") => Len(stack) = rbp
               /\ M!Instr = new_ret => stack # <<>> /\ M!StackTop.kind = "return"
    <3>1. Ready /\ MachineInv
      BY <2>2 DEF BackendInv, MachineInv, Ready, Running
    <3>2. PICK f \in Nat, s \in Shape :
            /\ Cells(stack, s, Len(stack), rbp, f)
            /\ M!Instr.operation = "POP" /\ Takes(M!Instr, "RBP") =>
                 s = Entered \/ (s = Idle /\ f = 0)
            /\ M!Instr.operation = "RET" => s = Called
      BY <2>2, <3>1, StackAt
    <3>3. PICK n \in Nat : n = Len(stack)
      BY <3>1 DEF MachineInv
    <3>4. ASSUME M!Instr = new_pop_reg("RBP") PROVE n = rbp
      <4>1. M!Instr.operation = "POP" /\ Takes(M!Instr, "RBP")
        BY <3>4 DEF new_pop_reg, new_unary, new_binary, instruction, Takes
      <4>2. CASE s = Entered
        BY <2>1, <3>2, <3>3, <4>2, CellsBy
      <4>3. CASE s = Idle /\ f = 0
        <5>1. n = rbp + (0 + 0)
          BY <2>1, <3>2, <3>3, <4>3, CellsBy
        <5> QED BY <3>1, <5>1 DEF MachineInv
      <4> QED BY <3>2, <4>1, <4>2, <4>3
    <3>5. ASSUME M!Instr = new_ret PROVE n > 0 /\ stack[n].kind = "return"
      <4>1. M!Instr.operation = "RET"
        BY <3>5 DEF new_ret, new_unary, new_binary, instruction
      <4> QED BY <2>1, <3>2, <3>3, <4>1, CellsBy
    <3> QED BY <3>3, <3>4, <3>5 DEF M!StackTop
  <2>3. status = "exited" => stack = <<>>
    BY DEF StackInv
  <2> QED BY <2>2, <2>3
<1> QED BY <1>1, GeneratorInvariance, BackendInvariance, StackInvariance, PTL

\* What a tidy program takes from the stack is there: the argument cells and
\* the frame it drops, the operand it pops, the RBP it restores, the address
\* it returns to.
LEMMA NeverStrays ==
  ASSUME Ready, MachineInv, StackInv, OperandsAreTemporaries, Tidy, Running
  PROVE  ~ M!stray
<1>1. PICK sh \in Seq(Shape), under \in Seq(Nat) : Shaped(sh, under) /\ Standing(sh)
  BY DEF StackInv
<1>2. PICK spots \in SUBSET Spot : spots = Spots(sh)
  BY DEF Spots
<1>3. PICK c \in 1..Len(list), f \in Nat :
        M!Instr = At(c) /\ Sits(sh, c, f) /\ Fits(spots, stack, rbp, sh[list[c]], f)
  BY <1>1, <1>2, Current DEF Shaped
<1>4. PICK node, s, t : node = At(c) /\ s = sh[list[c]] /\ t = sh[list[c + 1]]
  OBVIOUS
<1>5. /\ stack \in Seq(Cell) /\ rbp \in Int /\ sh \in Seq(Shape) /\ Len(sh) = Len(heap)
      /\ M!Instr = node /\ Fits(spots, stack, rbp, s, f)
  BY <1>1, <1>3, <1>4 DEF MachineInv, Shaped
<1>6. /\ M!OnRbp <=> Takes(node, "RBP")
      /\ M!OnRsp <=> Takes(node, "RSP")
  BY <1>5 DEF M!OnRbp, M!OnRsp, Takes, M!operand_reg, operand_reg
<1>7. ASSUME node.operation \notin {"RET", "SYSCALL", "JMP"}
      PROVE  Flows(node, s, t) /\ t \in Shape
  <2>1. c + 1 \in 1..Len(list)
    BY <1>4, <1>7, NextSpot
  <2>2. list \in Seq(1..Len(heap))
    BY HandlerState DEF Ready
  <2>3. list[c + 1] \in 1..Len(sh)
    BY <1>5, <2>1, <2>2, ElementOfSeq
  <2> QED BY <1>1, <1>3, <1>4, <1>5, <1>7, <2>3, SitsNext
<1>8. ASSUME node.operation = "RET"
      PROVE  stack # <<>> /\ M!StackTop.kind = "return"
  <2>1. s = Called
    BY <1>1, <1>4, <1>8 DEF Shaped, Flowing, Flows, At
  <2> QED BY <1>5, <2>1, ReturnFound DEF M!StackTop
<1>9. ASSUME node.operation = "POP", Takes(node, "RBP")
      PROVE  stack # <<>> /\ M!StackTop.kind = "rbp"
  <2>1. s \in {Entered, Idle}
    BY <1>7, <1>9 DEF Flows
  <2>2. s = Idle => f = 0
    <3>1. SetsRbp(node) /\ s = Idle /\ s.place # "entry" => f = 0
      BY <1>1, <1>3, <1>4, <1>9, SitsNext
    <3>2. Idle.place # "entry"
      BY DEF Idle, shape
    <3> QED BY <1>9, <3>1, <3>2 DEF SetsRbp
  <2>3. /\ spots \in SUBSET Spot /\ f \in Nat /\ stack \in Seq(Cell) /\ rbp \in Int
        /\ Fits(spots, stack, rbp, s, f)
    BY <1>5
  <2>4. Len(stack) = rbp /\ stack # <<>> /\ stack[rbp].kind = "rbp"
    BY ONLY <2>1, <2>2, <2>3, RbpRestored
  <2> QED BY <2>4 DEF M!StackTop
<1>10. ASSUME node.operation = "POP", ~ Takes(node, "RBP")
       PROVE  stack # <<>>
  <2>1. ConsumesTop(M!Instr)
    BY <1>5, <1>10 DEF ConsumesTop, Takes
  <2> QED BY <2>1 DEF OperandsAreTemporaries
<1>11. ASSUME node.operation = "ADD", Takes(node, "RSP")
       PROVE  M!AmountOf(node) <= Len(stack)
  <2>1. /\ Flows(node, s, t) /\ t \in Shape
        /\ s.place # "entry" /\ t = Entered => M!AmountOf(node) = f
    BY <1>1, <1>3, <1>4, <1>7, <1>11, SitsNext
  <2>2. CASE Plain(t) /\ s = Raised(t, M!AmountOf(node))
    <3>1. M!AmountOf(node) \in Nat
      BY <1>4, <1>11, AmountOfCells DEF Ready, Takes
    <3> QED BY <1>5, <2>1, <2>2, <3>1, ValuesDropped
  <2>3. CASE s = Idle /\ t = Entered
    <3>1. Idle.place # "entry"
      BY DEF Idle, shape
    <3>2. M!AmountOf(node) = f
      BY <2>1, <2>3, <3>1
    <3>3. f <= Len(stack)
      BY <1>5, <2>3, FrameDropped
    <3> QED BY <3>2, <3>3
  <2> QED BY <1>11, <2>1, <2>2, <2>3 DEF Flows
<1>12. node.operation = "ADD" /\ Takes(node, "RSP")
       => M!AmountOf(node) \in Int /\ Len(stack) \in Nat
  BY <1>4, <1>5, AmountOfCells DEF Ready, Takes
<1> SUFFICES ASSUME M!stray PROVE FALSE
  OBVIOUS
<1>13. \/ node.operation = "POP" /\ stack = <<>>
       \/ node.operation = "POP" /\ Takes(node, "RBP") /\ M!StackTop.kind # "rbp"
       \/ node.operation = "ADD" /\ Takes(node, "RSP") /\ M!AmountOf(node) > Len(stack)
       \/ node.operation = "RET" /\ (stack = <<>> \/ M!StackTop.kind # "return")
  BY <1>5, <1>6 DEF M!stray, M!Executing
<1> QED BY <1>8, <1>9, <1>10, <1>11, <1>12, <1>13

\* However a tidy program runs, the processor is at the start of an emitted
\* instruction, and pop rbp and ret find what was saved.
THEOREM ControlInCode == BackendSpec => []ControlStaysInCode
<1>1. BackendInit => ControlStaysInCode
  BY DEF BackendInit, M!MachineInit, ControlStaysInCode, Running
<1>2. /\ IInv /\ CodeInv /\ RegionInv /\ BackendInv /\ BackendInv' /\ StackInv
      /\ OperandsAreTemporaries /\ ControlStaysInCode /\ [BackendNext]_backendVars
      => ControlStaysInCode'
  <2> SUFFICES ASSUME IInv, CodeInv, RegionInv, BackendInv, BackendInv', StackInv,
                      OperandsAreTemporaries, ControlStaysInCode, [BackendNext]_backendVars,
                      Tidy'
               PROVE  status' # "astray" /\ (Running' => M!IsProgramAddress(pc)')
    BY DEF ControlStaysInCode
  <2>1. Running' => M!IsProgramAddress(pc)'
    BY DEF BackendInv, MachineInv
  <2>2. CASE Generate \/ EncodeList
    <3>1. pass # "encoded"
      BY <2>2, NotEncoded DEF BackendInv, Generate, EncodeList
    <3>2. status = "off" /\ status' = status
      BY <2>2, <3>1 DEF BackendInv, MachineInv, Generate, EncodeList, machineVars
    <3> QED BY <2>1, <3>2
  <2>3. CASE RunProgram
    <3>1. Ready /\ MachineInv /\ M!Execute /\ functions' = functions
      BY <2>3 DEF BackendInv, RunProgram, Ready, vars, control
    <3>2. Tidy
      BY <3>1 DEF Tidy
    <3>3. ASSUME M!stray PROVE FALSE
      <4>1. Running
        BY <3>3 DEF M!stray, M!Executing, Running
      <4> QED BY <3>1, <3>2, <3>3, <4>1, NeverStrays
    <3>4. status' = status \/ status' \in {"running", "exited", "fault", "overflow"}
      BY <3>1, <3>3 DEF M!Execute, M!boot, M!exec_push, M!exec_pop, M!exec_enter_frame,
         M!exec_reserve, M!exec_release, M!exec_call, M!exec_call_stdlib, M!exec_ret, M!exec_jmp,
         M!exec_no_jmp, M!exec_data, M!trap, M!read_fault, M!exec_exit, M!overflow, M!Step, M!Halt
    <3> QED BY <2>1, <3>2, <3>4 DEF ControlStaysInCode
  <2>4. CASE Ended \/ UNCHANGED backendVars
    <3>1. functions' = functions /\ status' = status
      BY <2>4 DEF Ended, backendVars, vars, control, machineVars
    <3> QED BY <2>1, <3>1 DEF ControlStaysInCode, Tidy
  <2> QED BY <2>2, <2>3, <2>4 DEF BackendNext
<1> QED
  BY <1>1, <1>2, GeneratorInvariance, BackendInvariance, StackInvariance, OperandsOnTop, PTL
     DEF BackendSpec

-----------------------------------------------------------------------------
(* The program implements the abstract stack of calls.                     *)

\* The addresses to return to among these cells.
Remembered(cells) ==
  [d \in {i \in 1..Len(cells) : cells[i].kind = "return"} |-> cells[d].saved]

\* These addresses and one more, at depth d.
With(calls, d, back) == [e \in DOMAIN calls \cup {d} |-> IF e = d THEN back ELSE calls[e]]

\* These addresses but that at depth d.
Without(calls, d) == [e \in DOMAIN calls \ {d} |-> calls[e]]

\* Cells that hold no return address, pushed or dropped, change nothing.
LEMMA RememberedKept ==
  ASSUME NEW S, NEW cells \in Seq(S), NEW more \in Seq(S), Len(cells) <= Len(more),
         \A c \in 1..Len(cells) : more[c] = cells[c],
         \A c \in (Len(cells) + 1)..Len(more) : more[c].kind # "return"
  PROVE  Remembered(more) = Remembered(cells)
<1>1. Len(cells) \in Nat /\ Len(more) \in Nat
  OBVIOUS
<1>2. PICK fewer, all : /\ fewer = {i \in 1..Len(cells) : cells[i].kind = "return"}
                        /\ all = {i \in 1..Len(more) : more[i].kind = "return"}
  OBVIOUS
<1>3. \A i \in 1..Len(more) : i \in 1..Len(cells) \/ i \in (Len(cells) + 1)..Len(more)
  BY <1>1
<1>4. \A i \in 1..Len(cells) : i \in 1..Len(more)
  BY <1>1
<1>5. all = fewer /\ \A i \in fewer : more[i].saved = cells[i].saved
  BY <1>2, <1>3, <1>4
<1> QED BY <1>2, <1>5, Zenon DEF Remembered

\* A return address on top is remembered deeper than all others.
LEMMA RememberedOnTop ==
  ASSUME NEW S, NEW cells \in Seq(S), NEW cell \in S, cell.kind = "return",
         NEW d, d = Len(cells) + 1
  PROVE  /\ d \in DOMAIN Remembered(Append(cells, cell))
         /\ \A e \in DOMAIN Remembered(cells) : e < d
         /\ Remembered(Append(cells, cell)) = With(Remembered(cells), d, cell.saved)
<1>1. PICK n \in Nat, more \in Seq(S) : n = Len(cells) /\ more = Append(cells, cell)
  <2>1. Append(cells, cell) \in Seq(S) /\ Len(cells) \in Nat
    OBVIOUS
  <2> QED BY <2>1
<1>2. /\ Len(more) = n + 1 /\ more[n + 1] = cell
      /\ \A c \in 1..n : more[c] = cells[c]
  BY <1>1
<1>3. PICK fewer, all : /\ fewer = {i \in 1..n : cells[i].kind = "return"}
                        /\ all = {i \in 1..(n + 1) : more[i].kind = "return"}
  OBVIOUS
<1>4. all = fewer \cup {n + 1} /\ n + 1 \notin fewer /\ \A e \in fewer : e < n + 1
  <2>1. \A i : i \in 1..(n + 1) <=> i \in 1..n \/ i = n + 1
    OBVIOUS
  <2>2. \A i \in 1..n : i < n + 1
    OBVIOUS
  <2> QED BY <1>2, <1>3, <2>1, <2>2
<1>5. /\ Remembered(more) = [e \in all |-> more[e].saved]
      /\ Remembered(cells) = [e \in fewer |-> cells[e].saved]
  BY <1>1, <1>2, <1>3, Zenon DEF Remembered
<1>6. \A e \in all : more[e].saved = IF e = n + 1 THEN cell.saved ELSE Remembered(cells)[e]
  BY <1>2, <1>3, <1>4, <1>5
<1>7. Remembered(more) = [e \in fewer \cup {n + 1} |->
                            IF e = n + 1 THEN cell.saved ELSE Remembered(cells)[e]]
  BY <1>4, <1>5, <1>6, Zenon
<1>8. DOMAIN Remembered(cells) = fewer /\ n + 1 \in DOMAIN Remembered(more)
  BY <1>4, <1>5
<1>9. d = n + 1
  BY <1>1
<1>10. Remembered(more) = With(Remembered(cells), n + 1, cell.saved)
  BY <1>7, <1>8, Zenon DEF With
<1> QED BY <1>1, <1>4, <1>8, <1>9, <1>10

\* Dropping the return address on top forgets it.
LEMMA RememberedBelow ==
  ASSUME NEW S, NEW cells \in Seq(S), cells # <<>>, NEW d, d = Len(cells),
         cells[d].kind = "return"
  PROVE  /\ d \in DOMAIN Remembered(cells)
         /\ \A e \in DOMAIN Remembered(cells) : e <= d
         /\ Remembered(cells)[d] = cells[d].saved
         /\ Remembered(SubSeq(cells, 1, d - 1)) = Without(Remembered(cells), d)
<1>1. PICK n \in Nat, less \in Seq(S) :
        n > 0 /\ n = Len(cells) /\ less = SubSeq(cells, 1, Len(cells) - 1)
  <2>1. Len(cells) \in Nat /\ Len(cells) > 0
    OBVIOUS
  <2>2. \A i \in 1..(Len(cells) - 1) : cells[i] \in S
    BY <2>1
  <2>3. SubSeq(cells, 1, Len(cells) - 1) \in Seq(S)
    BY <2>1, <2>2
  <2> QED BY <2>1, <2>3
<1>2. Len(less) = n - 1 /\ \A c \in 1..(n - 1) : less[c] = cells[c]
  BY <1>1
<1>3. PICK fewer, all : /\ fewer = {i \in 1..(n - 1) : less[i].kind = "return"}
                        /\ all = {i \in 1..n : cells[i].kind = "return"}
  OBVIOUS
<1>4. fewer = all \ {n} /\ n \in all /\ \A e \in all : e <= n
  <2>1. \A i : i \in 1..(n - 1) <=> i \in 1..n /\ i # n
    OBVIOUS
  <2>2. n \in 1..n /\ \A i \in 1..n : i <= n
    BY <1>1
  <2> QED BY <1>1, <1>2, <1>3, <2>1, <2>2
<1>5. /\ Remembered(less) = [e \in fewer |-> less[e].saved]
      /\ Remembered(cells) = [e \in all |-> cells[e].saved]
  BY <1>1, <1>2, <1>3, Zenon DEF Remembered
<1>6. \A e \in fewer : less[e].saved = Remembered(cells)[e]
  BY <1>2, <1>3, <1>4, <1>5
<1>7. Remembered(less) = [e \in all \ {n} |-> Remembered(cells)[e]]
  BY <1>4, <1>5, <1>6, Zenon
<1>8. DOMAIN Remembered(cells) = all /\ Remembered(cells)[n] = cells[n].saved
  BY <1>4, <1>5
<1>9. Remembered(less) = Without(Remembered(cells), n)
  BY ONLY <1>7, <1>8, Zenon DEF Without
<1>10. d = n /\ less = SubSeq(cells, 1, d - 1)
  BY <1>1
<1> QED BY ONLY <1>4, <1>8, <1>9, <1>10, Zenon

\* What dropping the arguments, or the frame, takes from the stack is operands
\* or frame cells.
LEMMA ReleasedCells ==
  ASSUME Ready, MachineInv, StackInv, Tidy, Running, M!exec_release
  PROVE  \E k \in Nat :
           /\ k <= Len(stack) /\ stack' = SubSeq(stack, 1, Len(stack) - k)
           /\ \A c \in (Len(stack) - k + 1)..Len(stack) : stack[c].kind # "return"
<1>1. PICK sh \in Seq(Shape), under \in Seq(Nat) : Shaped(sh, under) /\ Standing(sh)
  BY DEF StackInv
<1>2. PICK spots \in SUBSET Spot : spots = Spots(sh)
  BY DEF Spots
<1>3. PICK c \in 1..Len(list), f \in Nat :
        M!Instr = At(c) /\ Sits(sh, c, f) /\ Fits(spots, stack, rbp, sh[list[c]], f)
  BY <1>1, <1>2, Current DEF Shaped
<1>4. PICK node, s, t : node = At(c) /\ s = sh[list[c]] /\ t = sh[list[c + 1]]
  OBVIOUS
<1>5. stack \in Seq(Cell) /\ rbp \in Int /\ sh \in Seq(Shape) /\ Len(sh) = Len(heap)
  BY <1>1 DEF MachineInv, Shaped
<1>6. PICK k : k = M!AmountOf(node)
  OBVIOUS
<1>7. /\ node.operation = "ADD" /\ Takes(node, "RSP")
      /\ k <= Len(stack) /\ stack' = SubSeq(stack, 1, Len(stack) - k)
  BY <1>3, <1>4, <1>6 DEF M!exec_release, M!Step, M!Executing, M!Dropped, M!OnRsp, Takes,
     M!operand_reg, operand_reg
<1>8. k \in Nat
  BY <1>4, <1>6, <1>7, AmountOfCells DEF Ready, Takes
<1>9. /\ Flows(node, s, t) /\ Fits(spots, stack, rbp, s, f)
      /\ s.place # "entry" /\ t = Entered => k = f
  BY <1>1, <1>3, <1>4, <1>6, <1>7, SitsNext
<1>10. t \in Shape
  <2>1. c + 1 \in 1..Len(list)
    BY <1>4, <1>7, NextSpot
  <2>2. list \in Seq(1..Len(heap))
    BY HandlerState DEF Ready
  <2>3. list[c + 1] \in 1..Len(sh)
    BY <1>5, <2>1, <2>2, ElementOfSeq
  <2> QED BY <1>4, <1>5, <2>3
<1>11. \A i \in (Len(stack) - k + 1)..Len(stack) : stack[i].kind \in {"value", "frame"}
  <2>1. CASE Plain(t) /\ s = Raised(t, k)
    BY <1>5, <1>8, <1>9, <1>10, <2>1, ValuesDropped
  <2>2. CASE s = Idle /\ t = Entered
    <3>1. Idle.place = "body" /\ Idle.height = 0
      BY DEF Idle, shape
    <3>2. k = f
      BY <1>9, <2>2, <3>1
    <3>3. PICK n \in Nat : n = Len(stack)
      BY <1>5
    <3>4. /\ n = rbp + (f + 0)
          /\ \A i \in (rbp + 1)..n : stack[i].kind = IF i <= rbp + f THEN "frame" ELSE "value"
      BY <1>9, <2>2, <3>1, <3>3, CellsBy DEF Fits
    <3>5. (n - k + 1)..n = (rbp + 1)..n
      BY <1>5, <3>2, <3>4
    <3> QED BY <3>3, <3>4, <3>5
  <2> QED BY <1>6, <1>7, <1>9, <2>1, <2>2 DEF Flows
<1> QED BY <1>7, <1>8, <1>11

\* The places to come back to.
Awaited == IF Tidy THEN ReturnAddresses ELSE <<>>

\* A step of the running program is a call, a return or neither.
LEMMA ProgramCalls ==
  ASSUME Ready, MachineInv, StackInv, OperandsAreTemporaries, Tidy, Tidy', M!Execute
  PROVE  Calls!Enter \/ Calls!Leave \/ Calls!Elsewhere
<1>1. stack \in Seq(Cell) /\ Awaited = Remembered(stack) /\ Awaited' = Remembered(stack')
  BY DEF MachineInv, Awaited, ReturnAddresses, Remembered
<1>2. ASSUME Remembered(stack') = Remembered(stack) PROVE Calls!Elsewhere
  BY <1>1, <1>2 DEF Calls!Elsewhere, Awaited
<1>3. ASSUME NEW k \in Nat, k <= Len(stack), stack' = SubSeq(stack, 1, Len(stack) - k),
             \A c \in (Len(stack) - k + 1)..Len(stack) : stack[c].kind # "return"
      PROVE  Remembered(stack') = Remembered(stack)
  <2>1. PICK n, m, less : /\ n \in Nat /\ m \in Nat
                          /\ n = Len(stack) /\ m = n - k /\ less = SubSeq(stack, 1, m)
    <3>1. Len(stack) \in Nat /\ Len(stack) - k \in Nat
      BY <1>1, <1>3
    <3> QED BY <3>1
  <2>2. \A i \in 1..m : i \in 1..n /\ stack[i] \in Cell
    BY <1>1, <2>1
  <2>3. /\ less \in Seq(Cell) /\ Len(less) = m /\ m <= n
        /\ \A c \in 1..m : stack[c] = less[c]
    BY <1>1, <2>1, <2>2
  <2>4. \A c \in (m + 1)..n : stack[c].kind # "return"
    BY <1>3, <2>1
  <2>5. Remembered(stack) = Remembered(less)
    BY <1>1, <2>1, <2>3, <2>4, RememberedKept
  <2> QED BY <1>3, <2>1, <2>5
<1>4. CASE M!exec_push
  <2>1. PICK cell : /\ cell = IF M!OnRbp THEN M!SavedRbp(rbp) ELSE M!Value
                    /\ stack' = Append(stack, cell)
    BY <1>4 DEF M!exec_push, M!Step
  <2>2. cell \in Cell /\ cell.kind # "return"
    BY <2>1 DEF M!SavedRbp, M!Value, Cell, MachineInv
  <2>3. PICK n \in Nat : n = Len(stack)
    BY <1>1
  <2>4. /\ stack' \in Seq(Cell) /\ Len(stack') = n + 1 /\ stack'[n + 1] = cell
        /\ \A c \in 1..n : stack'[c] = stack[c]
    BY <1>1, <2>1, <2>2, <2>3
  <2>5. \A c \in (n + 1)..(n + 1) : stack'[c].kind # "return"
    BY <2>2, <2>4
  <2>6. n <= n + 1
    OBVIOUS
  <2>7. Remembered(stack') = Remembered(stack)
    BY <1>1, <2>3, <2>4, <2>5, <2>6, RememberedKept
  <2> QED BY <1>2, <2>7
<1>5. CASE M!exec_pop
  <2>1. stack # <<>> /\ stack' = SubSeq(stack, 1, Len(stack) - 1)
    BY <1>5 DEF M!exec_pop, M!Step, M!Dropped
  <2>2. stack[Len(stack)].kind # "return"
    <3>1. M!OnRbp => M!StackTop.kind = "rbp"
      BY <1>5 DEF M!exec_pop
    <3>2. ~ M!OnRbp => M!StackTop.kind = "value"
      BY <1>5 DEF M!exec_pop, M!Executing, OperandsAreTemporaries, ConsumesTop, Running,
         M!OnRbp, M!operand_reg, operand_reg
    <3> QED BY <3>1, <3>2 DEF M!StackTop
  <2>3. PICK n \in Nat : n = Len(stack) /\ 1 <= n
    BY <1>1, <2>1
  <2>4. \A c \in (n - 1 + 1)..n : c = n
    BY <2>3
  <2> QED BY <1>2, <1>3, <2>1, <2>2, <2>3, <2>4
<1>6. CASE M!exec_reserve
  <2>1. PICK k : k = M!AmountOf(M!Instr) /\ stack' = stack \o M!Cells(k)
    BY <1>6 DEF M!exec_reserve, M!Step
  <2>2. k \in Nat
    <3>1. PICK c \in 1..Len(list) : M!Instr = At(c)
      BY <1>6, Fetched DEF Ready, MachineInv, M!exec_reserve, M!Executing, Running
    <3>2. At(c).operation = "SUB" /\ At(c).operand1 = operand_reg("RSP")
      BY <1>6, <3>1 DEF M!exec_reserve, M!Executing, M!OnRsp, M!operand_reg, operand_reg
    <3> QED BY <2>1, <3>1, <3>2, AmountOfCells DEF Ready
  <2>3. PICK frame \in Seq(Cell) : frame = M!Cells(k) /\ Len(frame) = k
                                   /\ \A i \in 1..k : frame[i].kind = "frame"
    <3>1. M!FrameCell \in Cell /\ M!FrameCell.kind = "frame"
      BY DEF M!FrameCell, Cell
    <3>2. PICK cell \in Cell : cell = M!FrameCell
      BY <3>1
    <3>3. [i \in 1..k |-> cell] \in Seq(Cell) /\ Len([i \in 1..k |-> cell]) = k
      BY <2>2
    <3> QED BY <3>1, <3>2, <3>3 DEF M!Cells
  <2>4. PICK n \in Nat : n = Len(stack)
    BY <1>1
  <2>5. /\ stack' \in Seq(Cell) /\ Len(stack') = n + k
        /\ \A c \in 1..n : stack'[c] = stack[c]
        /\ \A i \in 1..k : stack'[n + i] = frame[i]
    BY <1>1, <2>1, <2>2, <2>3, <2>4
  <2>6. ASSUME NEW c \in (n + 1)..(n + k) PROVE stack'[c].kind # "return"
    <3>1. c - n \in 1..k /\ n + (c - n) = c
      BY <2>2
    <3> QED BY <2>3, <2>5, <3>1
  <2>7. n <= n + k
    BY <2>2
  <2>8. Remembered(stack') = Remembered(stack)
    BY <1>1, <2>4, <2>5, <2>6, <2>7, RememberedKept
  <2> QED BY <1>2, <2>8
<1>7. CASE M!exec_release
  <2>1. Running
    BY <1>7 DEF M!exec_release, M!Executing, Running
  <2> QED BY <1>2, <1>3, <1>7, <2>1, ReleasedCells
<1>8. CASE M!exec_call
  <2>1. stack' = Append(stack, M!ReturnTo(M!NextPc)) /\ Running
    BY <1>8 DEF M!exec_call, M!Step, M!Executing, Running
  <2>2. M!NextPc \in Int
    BY <2>1, Fetched DEF Ready, MachineInv
  <2>3. PICK cell : cell = M!ReturnTo(M!NextPc)
    OBVIOUS
  <2>4. cell \in Cell /\ cell.kind = "return" /\ cell.saved = M!NextPc
    BY <2>2, <2>3 DEF M!ReturnTo, Cell
  <2>5. PICK old, new : old = Remembered(stack) /\ new = Remembered(stack')
    OBVIOUS
  <2>6. PICK top \in DOMAIN new :
          /\ \A e \in DOMAIN old : e < top
          /\ new = With(old, top, cell.saved)
    <3>1. PICK h : h = Len(stack) + 1
      OBVIOUS
    <3>2. stack \in Seq(Cell) /\ cell \in Cell /\ cell.kind = "return"
      BY <1>1, <2>4
    <3>3. /\ h \in DOMAIN Remembered(Append(stack, cell))
          /\ \A e \in DOMAIN Remembered(stack) : e < h
          /\ Remembered(Append(stack, cell)) = With(Remembered(stack), h, cell.saved)
      BY ONLY <3>1, <3>2, RememberedOnTop, Zenon
    <3>4. new = Remembered(Append(stack, cell))
      BY <2>1, <2>3, <2>5
    <3> QED BY ONLY <2>5, <3>3, <3>4, Zenon
  <2>7. old = Awaited /\ new = Awaited'
    BY <1>1, <2>5
  <2>8. \E d \in DOMAIN Awaited' :
          /\ \A e \in DOMAIN Awaited : e < d
          /\ Awaited' = With(Awaited, d, IF Running THEN M!NextPc ELSE 0)
    <3>1. cell.saved = IF Running THEN M!NextPc ELSE 0
      BY <2>1, <2>4
    <3> QED BY ONLY <2>6, <2>7, <3>1, Zenon
  <2> QED BY ONLY <2>8, Zenon DEF Calls!Enter, Awaited, With
<1>9. CASE M!exec_ret
  <2>1. /\ stack # <<>> /\ stack[Len(stack)].kind = "return"
        /\ pc' = stack[Len(stack)].saved /\ stack' = SubSeq(stack, 1, Len(stack) - 1)
    BY <1>9 DEF M!exec_ret, M!Step, M!StackTop, M!Dropped
  <2>2. PICK old, new : old = Remembered(stack) /\ new = Remembered(stack')
    OBVIOUS
  <2>3. PICK top \in DOMAIN old :
          /\ \A e \in DOMAIN old : e <= top
          /\ old[top] = pc'
          /\ new = Without(old, top)
    <3>1. PICK h : h = Len(stack)
      OBVIOUS
    <3>2. stack \in Seq(Cell) /\ stack # <<>> /\ stack[h].kind = "return"
      BY <1>1, <2>1, <3>1
    <3>3. /\ h \in DOMAIN Remembered(stack)
          /\ \A e \in DOMAIN Remembered(stack) : e <= h
          /\ Remembered(stack)[h] = stack[h].saved
          /\ Remembered(SubSeq(stack, 1, h - 1)) = Without(Remembered(stack), h)
      BY ONLY <3>1, <3>2, RememberedBelow, Zenon
    <3>4. new = Remembered(SubSeq(stack, 1, h - 1)) /\ pc' = stack[h].saved
      BY ONLY <2>1, <2>2, <3>1, Zenon
    <3> QED BY ONLY <2>2, <3>3, <3>4, Zenon
  <2>4. old = Awaited /\ new = Awaited'
    BY <1>1, <2>2
  <2>5. \E d \in DOMAIN Awaited :
          /\ \A e \in DOMAIN Awaited : e <= d
          /\ pc' = Awaited[d]
          /\ Awaited' = Without(Awaited, d)
    BY ONLY <2>3, <2>4, Zenon
  <2> QED BY ONLY <2>5, Zenon DEF Calls!Leave, Awaited, Without
<1>10. CASE ~ (M!exec_push \/ M!exec_pop \/ M!exec_reserve \/ M!exec_release
               \/ M!exec_call \/ M!exec_ret)
  <2>1. stack' = stack
    BY <1>10 DEF M!Execute, M!boot, M!exec_enter_frame, M!exec_call_stdlib, M!exec_jmp,
       M!exec_no_jmp, M!exec_data, M!trap, M!read_fault, M!exec_exit, M!stray, M!overflow, M!Step, M!Halt
  <2> QED BY <1>2, <2>1
<1> QED BY <1>4, <1>5, <1>6, <1>7, <1>8, <1>9, <1>10

\* Whatever a tidy program calls, and however deep, its calls and returns are
\* a stack: each return is to behind the call that has not returned yet and
\* was made last.
THEOREM CallsReturnInOrder == BackendSpec => ImplementsCallStack
<1>1. BackendInit => Calls!CallStackInit
  <2> SUFFICES ASSUME BackendInit PROVE DOMAIN Awaited = {}
    BY DEF Calls!CallStackInit, Awaited
  <2>1. stack = <<>>
    BY DEF BackendInit, M!MachineInit
  <2>2. DOMAIN ReturnAddresses = {}
    BY <2>1 DEF ReturnAddresses
  <2> QED BY <2>2 DEF Awaited
<1>2. /\ IInv /\ CodeInv /\ RegionInv /\ BackendInv /\ StackInv /\ OperandsAreTemporaries
      /\ [BackendNext]_backendVars
      => Calls!Enter \/ Calls!Leave \/ Calls!Elsewhere
  <2> SUFFICES ASSUME IInv, CodeInv, RegionInv, BackendInv, StackInv, OperandsAreTemporaries,
                      [BackendNext]_backendVars
               PROVE  Calls!Enter \/ Calls!Leave \/ Calls!Elsewhere
    OBVIOUS
  <2>1. EncoderInv /\ MachineInv /\ LinkInv
    BY DEF BackendInv
  <2>2. ASSUME Awaited' = Awaited PROVE Calls!Elsewhere
    BY <2>2 DEF Awaited, Calls!Elsewhere
  <2>3. CASE Generate \/ EncodeList
    <3>1. pass # "encoded"
      BY <2>1, <2>3, NotEncoded DEF Generate, EncodeList
    <3>2. stack = <<>> /\ stack' = <<>>
      BY <2>1, <2>3, <3>1 DEF MachineInv, Generate, EncodeList, machineVars
    <3>3. ReturnAddresses = <<>> /\ ReturnAddresses' = <<>>
      BY <3>2 DEF ReturnAddresses
    <3> QED BY <2>2, <3>3 DEF Awaited
  <2>4. CASE RunProgram
    <3>1. Ready /\ M!Execute /\ functions' = functions
      BY <2>1, <2>4 DEF RunProgram, Ready, vars, control
    <3>2. Tidy' <=> Tidy
      BY <3>1 DEF Tidy
    <3>3. CASE Tidy
      BY <2>1, <3>1, <3>2, <3>3, ProgramCalls
    <3>4. CASE ~ Tidy
      BY <2>2, <3>2, <3>4 DEF Awaited
    <3> QED BY <3>3, <3>4
  <2>5. CASE Ended \/ UNCHANGED backendVars
    <3>1. functions' = functions /\ stack' = stack
      BY <2>5 DEF Ended, backendVars, vars, control, machineVars
    <3>2. Awaited' = Awaited
      BY <3>1 DEF Awaited, Tidy, ReturnAddresses
    <3> QED BY <2>2, <3>2
  <2> QED BY <2>3, <2>4, <2>5 DEF BackendNext
<1> QED
  BY <1>1, <1>2, GeneratorInvariance, BackendInvariance, StackInvariance, OperandsOnTop, PTL
     DEF BackendSpec, ImplementsCallStack, Calls!CallStackSpec
===============================================================================

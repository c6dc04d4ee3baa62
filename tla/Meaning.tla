------------------------------- MODULE Meaning -------------------------------
(***************************************************************************)
(* What a TypoLang program computes, by the README and without a compiler: *)
(* a number counts thousandths, a statement changes the variables of       *)
(* the scopes it stands in, and the result is what has been printed and    *)
(* what main returns.  A run is a record of                                *)
(*   functions   the bodies by name,                                       *)
(*   scopes      the tables from the outermost to the innermost,           *)
(*   value       of the last expression,                                   *)
(*   returned    whether the function has executed a return,               *)
(*   outcome     "running", "stopped" by a division by zero, or            *)
(*               "undefined" where the README leaves it open,              *)
(*   input, printed.                                                       *)
(***************************************************************************)
EXTENDS Ast, Sequences, TLC
LOCAL INSTANCE SequencesExt
LOCAL INSTANCE FiniteSetsExt

\* What stdin gives to one request after the other, in bytes.  A terminal
\* gives a line to each, and only then has a program that reads a meaning; of
\* a file or pipe the first request takes several lines at once.
CONSTANT Input

ASSUME InputAssumption == Input \in Seq(Seq(0..255))

Abs(n) == IF n < 0 THEN -n ELSE n

\* The quotient of two integers, rounded towards zero.
Quotient(a, b) ==
  LET q == Abs(a) \div Abs(b)
  IN  IF (a < 0) = (b < 0) THEN q ELSE -q

NEWLINE == 10
MINUS   == 45
ZERO    == 48

\* A number as it is read and printed (README.md:131): the thousandths, in
\* decimal, on a line.
Unsigned(text) == IF text # <<>> /\ Head(text) = MINUS THEN Tail(text) ELSE text

IsNumeral(text) ==
  LET line == Unsigned(text)
  IN  /\ Len(line) > 1
      /\ Last(line) = NEWLINE
      /\ \A i \in 1..(Len(line) - 1) : line[i] \in ZERO..(ZERO + 9)

NumberIn(text) ==
  LET digits == Front(Unsigned(text))
      size   == MapThenSumSet(LAMBDA i : (digits[i] - ZERO) * 10 ^ (Len(digits) - i),
                              1..Len(digits))
  IN  IF Head(text) = MINUS THEN - size ELSE size

With(run, value) == [run EXCEPT !.value = value]

Compared(op, a, b) ==
  CASE op = "LT" -> a < b  [] op = "LEQ" -> a <= b [] op = "EQ"  -> a = b
    [] op = "GT" -> a > b  [] op = "GEQ" -> a >= b [] op = "NEQ" -> a # b

Logic(holds) == IF holds THEN 1 ELSE 0
IsLogic(value) == value \in {0, 1}

Applied(op, a, b, run) ==
  CASE op = "ADD" -> With(run, a + b)
    [] op = "SUB" -> With(run, a - b)
    [] op = "NEG" -> With(run, -b)
    [] op = "MUL" -> With(run, Quotient(a * b, 1000))
    [] op = "DIV" -> IF b = 0 THEN [run EXCEPT !.outcome = "stopped"]
                     ELSE With(run, Quotient(1000 * a, b))
    [] op \in {"LT", "LEQ", "EQ", "GT", "GEQ", "NEQ"} -> With(run, Logic(Compared(op, a, b)))
    [] ~ IsLogic(b) \/ (op # "NOT" /\ ~ IsLogic(a)) -> [run EXCEPT !.outcome = "undefined"]
    [] op = "AND" -> With(run, Logic(a = 1 /\ b = 1))
    [] op = "OR"  -> With(run, Logic(a = 1 \/ b = 1))
    [] op = "NOT" -> With(run, Logic(b = 0))

Holders(run, x) == {i \in 1..Len(run.scopes) : x \in DOMAIN run.scopes[i]}
Holder(run, x) == CHOOSE i \in Holders(run, x) : \A j \in Holders(run, x) : j <= i

Declared(run, x) == [run EXCEPT !.scopes[Len(run.scopes)] = (x :> run.value) @@ @]

Assigned(run, x) ==
  IF Holders(run, x) = {} THEN [run EXCEPT !.outcome = "undefined"]
  ELSE [run EXCEPT !.scopes[Holder(run, x)][x] = run.value]

Looked(run, x) ==
  IF Holders(run, x) = {} THEN [run EXCEPT !.outcome = "undefined"]
  ELSE With(run, run.scopes[Holder(run, x)][x])

ReadNumber(run) ==
  IF run.input = <<>> \/ ~ IsNumeral(Head(run.input))
    THEN [run EXCEPT !.outcome = "undefined"]
    ELSE [With(run, NumberIn(Head(run.input))) EXCEPT !.input = Tail(@)]

\* The square root of x thousandths, to the nearest thousandth.
Root(x) ==
  LET floor == CHOOSE r \in 0..(x + 1000) : r * r <= 1000 * x /\ 1000 * x < (r + 1) * (r + 1)
  IN  IF 1000 * x - floor * floor <= floor THEN floor ELSE floor + 1

SquareRoot(run) ==
  IF run.value < 0 THEN [run EXCEPT !.outcome = "undefined"]
  ELSE With(run, Root(run.value))

\* A caller goes on with its own scopes and the globals as they are now.
BackIn(caller, run) ==
  [run EXCEPT !.scopes = <<run.scopes[1]>> \o Tail(caller.scopes),
              !.returned = FALSE,
              !.outcome = IF @ = "running" /\ ~ run.returned THEN "undefined" ELSE @]

\* A part of a program is executed; parts of it are executed in their order.
RECURSIVE Execute(_, _)
Execute(n, run) ==
  IF n = NULL \/ run.returned \/ run.outcome # "running" THEN run
  ELSE
  LET left  == Execute(n.left, run)
      both  == Execute(n.right, left)
      inner == Execute(n.right, [run EXCEPT !.scopes = Append(@, <<>>)])
      body  == Execute(run.functions[n.value], [both EXCEPT !.scopes = <<Head(@)>>])
  IN
  CASE n.type = "CONST" -> With(run, n.num.milli)
    [] n.type = "VAR"   -> Looked(run, n.value)
    [] n.type = "OP"    -> IF both.outcome = "running"
                             THEN Applied(n.value, left.value, both.value, both) ELSE both
    [] n.type = "NVAR"  -> IF both.outcome = "running" THEN Declared(both, n.value) ELSE both
    [] n.type = "ASS"   -> IF both.outcome = "running" THEN Assigned(both, n.value) ELSE both
    [] n.type = "RET"   -> [both EXCEPT !.returned = TRUE]
    [] n.type = "BLOCK" -> [inner EXCEPT !.scopes = Front(@)]
    [] n.type = "IF"    -> Execute(IF left.value # 0 THEN n.right.left ELSE n.right.right, left)
    [] n.type = "WHILE" -> IF left.value # 0 THEN Execute(n, both) ELSE left
    [] n.type = "NFUN"  -> run
    [] n.type = "CALL"  ->
         (CASE both.outcome # "running" -> both
            [] n.value = "print" -> [both EXCEPT !.printed = Append(@, both.value)]
            [] n.value = "read"  -> ReadNumber(both)
            [] n.value = "sqrt"  -> SquareRoot(both)
            [] OTHER -> BackIn(both, body))
    [] OTHER -> both        \* a sequence of definitions, statements or arguments

RECURSIVE Bodies(_)
Bodies(definitions) ==
  IF definitions = NULL THEN <<>>
  ELSE IF definitions.left.type # "NFUN" THEN Bodies(definitions.right)
  ELSE (definitions.left.value :> definitions.left.right) @@ Bodies(definitions.right)

CallMain == [type |-> "CALL", value |-> "main", num |-> NULL, left |-> NULL, right |-> NULL]

\* Globals are initialized in their order, then main is called.
MeaningOf(program) ==
  LET start == [functions |-> Bodies(program), scopes |-> << <<>> >>, value |-> 0,
                returned |-> FALSE, outcome |-> "running", input |-> Input, printed |-> <<>>]
      end   == Execute(CallMain, Execute(program, start))
  IN  [outcome |-> end.outcome, value |-> end.value, printed |-> end.printed]
=============================================================================

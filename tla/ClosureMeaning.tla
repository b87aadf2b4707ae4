--------------------------- MODULE ClosureMeaning ---------------------------
(***************************************************************************)
(* What a closure-converted program computes, whatever plans the backend   *)
(* makes for it: its blocks evaluated one binding after the other, with no *)
(* owners, frames or native calls (crates/mal-backend/src/closure/ast.rs   *)
(* as crates/mal-backend/src/control lowers it).                           *)
(*                                                                         *)
(* Programs are those of ControlProgram, with literals : name -> leaf.     *)
(* A value is a sequence of leaves [n, code, captured]: a number or what   *)
(* stands for a text, the function of a closure, and the values a closure  *)
(* or a Buffer holds.  A sum is its tag followed by its payload.           *)
(***************************************************************************)
EXTENDS ControlProgram

Number(n) == <<[n |-> n, code |-> "", captured |-> <<>>]>>
ClosureOf(f, captured) == <<[n |-> 0, code |-> f, captured |-> captured]>>
Holding(value) == <<[n |-> 0, code |-> "", captured |-> <<value>>]>>

(* The text made of two texts tells them, and their order, apart.          *)
Joined(a, b) == (3 * a + b + 1) % 64

Bound(types, scope, pattern, value) ==
    [x \in {pattern[i] : i \in DOMAIN pattern} |->
        Part(types, pattern, value, CHOOSE i \in DOMAIN pattern : pattern[i] = x)] @@ scope

(* What an operation on numbers gives; a Bool is a tag and a unit.         *)
Integral(kind, a, b) ==
    CASE kind = "add" -> Number(a + b)
      [] kind = "subtract" -> Number(a - b)
      [] kind = "less" -> Number(IF a < b THEN 1 ELSE 0) \o Number(0)

(* A value and the log of what the host was called with before it.         *)
Given(value, log) == [value |-> value, log |-> log]

RECURSIVE Apply(_, _, _, _), Evaluate(_, _, _, _, _), Block(_, _, _, _, _), Ran(_, _, _, _, _)

Apply(c, closure, argument, log) ==
    LET f == closure[1].code
        function == c.functions[f]
        captured == [x \in ToSet(function.captures) |->
                        closure[1].captured[CHOOSE i \in DOMAIN function.captures : function.captures[i] = x]]
        scope == (f :> closure) @@ captured
                     @@ [g \in DOMAIN c.functions |-> ClosureOf(g, <<>>)]
                     @@ [x \in DOMAIN c.literals |-> Number(c.literals[x])]
    IN Block(c, f, Bound(c.types, scope, <<function.parameter>>, argument), function.body, log)

Block(c, f, scope, block, log) ==
    LET ran == Ran(c, f, scope, block.bindings, log)
    IN Given(ran.value[block.result], ran.log)

(* The scope after these bindings.                                         *)
Ran(c, f, scope, bindings, log) ==
    IF bindings = <<>> THEN Given(scope, log)
    ELSE LET b == Head(bindings)
             made == Evaluate(c, f, scope, b.operation, log)
         IN Ran(c, f, Bound(c.types, scope, b.pattern, made.value), Tail(bindings), made.log)

Evaluate(c, f, scope, operation, log) ==
    LET operand(i) == scope[operation.args[i]]
        number(i) == operand(i)[1].n
        pure(value) == Given(value, log)
        arm(i) == Block(c, f, Bound(c.types, scope, operation.patterns[i], Tail(operand(1))), operation.blocks[i], log)
        join == c.functions[f].joins[operation.join]
    IN CASE operation.kind = "atom" -> pure(operand(1))
         [] operation.kind = "closure" ->
              pure(ClosureOf(operation.function, [i \in DOMAIN operation.args |-> operand(i)]))
         [] operation.kind = "product" -> pure(FlattenSeq([i \in DOMAIN operation.args |-> operand(i)]))
         [] operation.kind = "inject" -> pure(Number(operation.tag) \o operand(1))
         [] operation.kind = "text" -> pure(Number(Joined(number(1), number(2))))
         [] operation.kind = "measure" -> pure(Number(number(1)))
         [] operation.kind = "note" -> Given(Number(number(1)), Joined(log, number(1)))
         [] operation.kind \in {"add", "subtract", "less"} -> pure(Integral(operation.kind, number(1), number(2)))
         [] operation.kind = "new" -> pure(Holding(operand(2)))
         [] operation.kind = "get" -> pure(operand(1)[1].captured[1])
         [] operation.kind = "call" -> Apply(c, operand(1), operand(2), log)
         [] operation.kind = "branch" ->
              Block(c, f, scope, operation.blocks[IF number(1) < number(2) THEN 2 ELSE 1], log)
         [] operation.kind = "case" -> arm(number(1) + 1)
         [] operation.kind = "goto" -> Block(c, f, Bound(c.types, scope, join.pattern, operand(1)), join.body, log)

(* The answer tells what the entry function returns and the log apart.     *)
Answered(value, log) == 64 * log + value[1].n
Meaning(c) ==
    LET ended == Apply(c, ClosureOf(c.entry, <<>>), Number(0), 0)
    IN Answered(ended.value, ended.log)
=============================================================================

-------------------------- MODULE ClosureConversion --------------------------
(***************************************************************************)
(* From core programs to closure programs: nested expressions become       *)
(* blocks of operations on atoms (crates/mal-backend/src/anf), then every  *)
(* lambda becomes a function of its captures (crates/mal-backend/src/      *)
(* closure/mod.rs).                                                        *)
(*                                                                         *)
(* Core programs are those of CoreLowering, closure programs and their     *)
(* blocks those of ControlProgram.  A block on the way to the latter may   *)
(* hold an operation of kind "lambda", with the lambda and no atoms.       *)
(* A literal is a name, so an atom is a name throughout.                   *)
(***************************************************************************)
EXTENDS Naturals, SequencesExt

-----------------------------------------------------------------------------
(* Blocks: the next temporary, the types of the temporaries, the bindings  *)
(* so far and the atom they result in.                                     *)
Block(st, bindings, result) == [bindings |-> bindings, result |-> result, st |-> st]
Bound(pattern, operation) == [pattern |-> pattern, operation |-> operation]
AtomOperation(atom) == [kind |-> "atom", args |-> <<atom>>]
Plain(block) == [bindings |-> block.bindings, result |-> block.result]

(* The block that ends with the operation, bound to a new name.            *)
Finished(st, bindings, operation, type) ==
    LET x == "t" \o ToString(st.next)
    IN Block([next |-> st.next + 1, types |-> (x :> type) @@ st.types], Append(bindings, Bound(<<x>>, operation)), x)

RECURSIVE Linear(_, _), LinearOperands(_, _), LinearAll(_, _), LinearLambda(_, _)

(* The operands one after the other: result is the sequence of their atoms.*)
LinearOperands(st, operands) ==
    IF operands = <<>> THEN Block(st, <<>>, <<>>)
    ELSE LET first == Linear(st, Head(operands))
             rest == LinearOperands(first.st, Tail(operands))
         IN Block(rest.st, first.bindings \o rest.bindings, <<first.result>> \o rest.result)

(* Expressions that are evaluated apart, a block for each.                 *)
LinearAll(st, values) ==
    IF values = <<>> THEN [st |-> st, blocks |-> <<>>]
    ELSE LET first == Linear(st, Head(values))
             rest == LinearAll(first.st, Tail(values))
         IN [blocks |-> <<Plain(first)>> \o rest.blocks, st |-> rest.st]

Values(arms) == [i \in DOMAIN arms |-> arms[i].value]
Patterns(arms) == [i \in DOMAIN arms |-> arms[i].pattern]
Bodies(joins) == [i \in DOMAIN joins |-> joins[i].body]
WithBodies(joins, blocks) == [i \in DOMAIN joins |-> [pattern |-> joins[i].pattern, body |-> blocks[i]]]

(* A let binds the value's atom; the rest follows in the same block.       *)
LinearLet(st, e) ==
    LET value == Linear(st, e.value)
        body == Linear(value.st, e.body)
    IN Block(body.st, value.bindings \o <<Bound(e.pattern, AtomOperation(value.result))>> \o body.bindings, body.result)

(* The argument of a call is evaluated before its callee.                  *)
LinearCall(st, e) ==
    LET operands == LinearOperands(st, Reverse(e.operands))
    IN Finished(operands.st, operands.bindings, [kind |-> "call", args |-> Reverse(operands.result)], e.type)

LinearCase(st, e) ==
    LET scrutinee == LinearOperands(st, e.operands)
        arms == LinearAll(scrutinee.st, Values(e.arms))
    IN Finished(arms.st, scrutinee.bindings,
                [kind |-> "case", args |-> scrutinee.result, patterns |-> Patterns(e.arms), blocks |-> arms.blocks], e.type)

LinearBranch(st, e) ==
    LET operands == LinearOperands(st, e.operands)
        sides == LinearAll(operands.st, <<e.otherwise, e.then>>)
    IN Finished(sides.st, operands.bindings,
                [kind |-> "branch", args |-> operands.result, blocks |-> sides.blocks], e.type)

LinearLambda(st, e) ==
    LET body == Linear(st, e.lambda.body)
        joins == LinearAll(body.st, Bodies(e.lambda.joins))
        lambda == [e.lambda EXCEPT !.body = Plain(body), !.joins = WithBodies(@, joins.blocks)]
    IN Finished(joins.st, <<>>, [kind |-> "lambda", args |-> <<>>, lambda |-> lambda], e.type)

(* Any other operation, after its operands.                                *)
OperationOf(e, atoms) ==
    CASE e.kind \in {"operation", "binary"} -> [kind |-> e.op, args |-> atoms]
      [] e.kind = "inject" -> [kind |-> "inject", args |-> atoms, tag |-> e.tag]
      [] e.kind = "goto" -> [kind |-> "goto", args |-> atoms, join |-> e.join]
      [] e.kind = "product" -> [kind |-> "product", args |-> atoms]
LinearOperation(st, e) ==
    LET operands == LinearOperands(st, e.operands)
    IN Finished(operands.st, operands.bindings, OperationOf(e, operands.result), e.type)

Linear(st, e) ==
    CASE e.kind = "name" -> Block(st, <<>>, e.name)
      [] e.kind = "let" -> LinearLet(st, e)
      [] e.kind = "call" -> LinearCall(st, e)
      [] e.kind = "case" -> LinearCase(st, e)
      [] e.kind = "branch" -> LinearBranch(st, e)
      [] e.kind = "lambda" -> LinearLambda(st, e)
      [] OTHER -> LinearOperation(st, e)

LinearProgram(core) ==
    LET values == LinearAll([next |-> 1, types |-> <<>>], [i \in DOMAIN core.bindings |-> core.bindings[i].value])
    IN [core EXCEPT !.bindings = [i \in DOMAIN @ |-> [name |-> @[i].name, value |-> values.blocks[i]]],
                    !.types = values.st.types @@ @]

-----------------------------------------------------------------------------
(* Closure conversion.  The environment gives the names that stand for     *)
(* something else within a function: its captures, which keep the names    *)
(* they have inside it, and its own binding, which is the function.        *)
Resolved(environment, atom) == IF atom \in DOMAIN environment THEN environment[atom] ELSE atom
ResolvedAll(environment, atoms) == [i \in DOMAIN atoms |-> Resolved(environment, atoms[i])]

Sources(captures) == [i \in DOMAIN captures |-> captures[i].source]
CaptureFields(captures) == [i \in DOMAIN captures |-> captures[i].binding]

RECURSIVE Convert(_, _, _), ConvertAll(_, _, _), ConvertBindings(_, _, _), LiftFunction(_, _)

(* functions are those lifted so far; the value is a block or operation.   *)
Converted(functions, value) == [value |-> value, functions |-> functions]

(* A function is lifted once, after the functions within it.               *)
LiftFunction(functions, lambda) ==
    LET own == IF lambda.self = "_" THEN <<>> ELSE lambda.self :> lambda.id
        body == Convert(functions, own, lambda.body)
        joins == ConvertAll(body.functions, own, Bodies(lambda.joins))
        function == [parameter |-> lambda.parameter, captures |-> CaptureFields(lambda.captures),
                     signature |-> lambda.signature, result |-> lambda.result, body |-> body.value,
                     joins |-> WithBodies(lambda.joins, joins.value)]
    IN IF \E i \in DOMAIN functions : functions[i].id = lambda.id THEN functions
       ELSE Append(joins.functions, [id |-> lambda.id, function |-> function])

ConvertOperation(functions, environment, operation) ==
    LET atoms == ResolvedAll(environment, operation.args)
        blocks == ConvertAll(functions, environment, operation.blocks)
    IN CASE operation.kind = "lambda" ->
              Converted(LiftFunction(functions, operation.lambda),
                        [kind |-> "closure", function |-> operation.lambda.id,
                         args |-> ResolvedAll(environment, Sources(operation.lambda.captures))])
         [] operation.kind \in {"case", "branch"} ->
              Converted(blocks.functions, [operation EXCEPT !.args = atoms, !.blocks = blocks.value])
         [] OTHER -> Converted(functions, [operation EXCEPT !.args = atoms])

ConvertBindings(functions, environment, bindings) ==
    IF bindings = <<>> THEN Converted(functions, <<>>)
    ELSE LET operation == ConvertOperation(functions, environment, Head(bindings).operation)
             rest == ConvertBindings(operation.functions, environment, Tail(bindings))
         IN Converted(rest.functions, <<Bound(Head(bindings).pattern, operation.value)>> \o rest.value)

Convert(functions, environment, block) ==
    LET bindings == ConvertBindings(functions, environment, block.bindings)
    IN Converted(bindings.functions, [bindings |-> bindings.value, result |-> Resolved(environment, block.result)])

ConvertAll(functions, environment, blocks) ==
    IF blocks = <<>> THEN Converted(functions, <<>>)
    ELSE LET first == Convert(functions, environment, Head(blocks))
             rest == ConvertAll(first.functions, environment, Tail(blocks))
         IN Converted(rest.functions, <<first.value>> \o rest.value)

(* The function a top-level binding names: its value creates one closure   *)
(* without captures and is that closure.                                   *)
KnownFunction(binding) ==
    LET created == SelectSeq(binding.value.bindings,
                             LAMBDA b : b.pattern = <<binding.value.result>> /\ b.operation.kind = "closure"
                                        /\ b.operation.args = <<>>)
    IN created[1].operation.function

ConvertedProgram(linear) ==
    LET values == ConvertAll(<<>>, <<>>, [i \in DOMAIN linear.bindings |-> linear.bindings[i].value])
        bindings == [i \in DOMAIN linear.bindings |-> [name |-> linear.bindings[i].name, value |-> values.value[i]]]
        entry == CHOOSE i \in DOMAIN bindings : bindings[i].name = linear.entry
    IN [bindings |-> bindings, functions |-> values.functions, entry |-> KnownFunction(bindings[entry]),
        literals |-> linear.literals, types |-> linear.types]
=============================================================================

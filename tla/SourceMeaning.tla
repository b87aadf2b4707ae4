--------------------------- MODULE SourceMeaning ----------------------------
(***************************************************************************)
(* What a checked program computes, by the language's own rules            *)
(* (docs/spec/execution.md, control.md, control-composition.md): operands  *)
(* from left to right, an argument before its callee, only the chosen      *)
(* continuation of a sum, and a result transfer that leaves its block with *)
(* everything before it done.                                              *)
(*                                                                         *)
(* Checked programs are those of CoreLowering.  A value is a sequence of   *)
(* leaves: a number, or a function with the scope it was made in.  An      *)
(* outcome is a value, or what leaves for a result block, with the log of  *)
(* what the host was called with, in order.                                *)
(***************************************************************************)
EXTENDS Naturals, SequencesExt

Number(n) == <<[n |-> n]>>
Truth(value) == Number(IF value THEN 1 ELSE 0) \o Number(0)
FunctionOf(lambda, scope) == <<[lambda |-> lambda, scope |-> scope]>>

(* A text made of two, and a log with one more entry, tell what they are   *)
(* made of, and in which order, apart.                                     *)
Mixed(a, b) == (3 * a + b + 1) % 64

Done(value, log) == [left |-> "", value |-> value, log |-> log]
Leaves(target, outcome) == [outcome EXCEPT !.left = target]

Extended(scope, pattern, value) ==
    [x \in {pattern[i] : i \in DOMAIN pattern} |->
        IF Len(pattern) = 1 THEN value ELSE <<value[CHOOSE i \in DOMAIN pattern : pattern[i] = x]>>] @@ scope

RECURSIVE Outcome(_, _, _), AllOutcomes(_, _, _), Items(_, _, _), Applied(_, _, _, _)

(* The values of the expressions in order, or the first that leaves.       *)
AllOutcomes(scope, log, values) ==
    IF values = <<>> THEN Done(<<>>, log)
    ELSE LET first == Outcome(scope, log, Head(values))
         IN IF first.left # "" THEN first
            ELSE LET rest == AllOutcomes(scope, first.log, Tail(values))
                 IN IF rest.left # "" THEN rest ELSE Done(<<first.value>> \o rest.value, rest.log)

BlockOutcome(scope, log, block) == Items(scope, log, block.items \o <<[pattern |-> <<>>, value |-> block.result]>>)
Items(scope, log, items) ==
    LET first == Outcome(scope, log, Head(items).value)
    IN IF first.left # "" \/ Len(items) = 1 THEN first
       ELSE Items(Extended(scope, Head(items).pattern, first.value), first.log, Tail(items))

(* What an operation or operator makes of its operands.                    *)
Operated(op, number) ==
    CASE op = "text" -> Number(Mixed(number[1], number[2]))
      [] op = "measure" -> Number(number[1])
      [] op = "add" -> Number(number[1] + number[2])
      [] op = "subtract" -> Number(number[1] - number[2])
      [] op = "less" -> Truth(number[1] < number[2])

OverOperands(e, values) ==
    LET number == [i \in DOMAIN values |-> values[i][1].n]
    IN CASE e.kind = "product" -> FlattenSeq(values)
         [] e.kind = "inject" -> Number(e.tag) \o values[1]
         [] e.kind = "not" -> Truth(number[1] = 0)
         [] e.kind = "equal" -> Truth(e.equal <=> number[1] = number[2])
         [] OTHER -> Operated(e.op, number)

Then(outcome, next(_)) == IF outcome.left # "" THEN outcome ELSE next(outcome)

(* A variant is sent on as it is, or as the variant a binder group names.  *)
Continued(scope, continuation, scrutinee) ==
    LET payload == Tail(scrutinee.value)
        sent == Done(IF continuation.variant = 0 THEN payload ELSE Number(continuation.variant - 1) \o payload, scrutinee.log)
        inside == IF continuation.parameter = <<>> THEN scope ELSE Extended(scope, continuation.parameter, payload)
    IN CASE continuation.kind = "function" ->
              Then(Outcome(scope, scrutinee.log, continuation.value), LAMBDA f : Applied(scope, f.value, payload, f.log))
         [] continuation.kind = "branch" -> BlockOutcome(inside, scrutinee.log, continuation.body)
         [] continuation.kind = "transfer" -> Leaves(continuation.target, sent)

(* An expression whose operands have these values.                         *)
Chosen(scope, e, operands) ==
    LET first == operands.value[1]
        positive == first[1].n = 1
    IN CASE e.kind \in {"if", "leaveif"} -> BlockOutcome(scope, operands.log, IF positive THEN e.then ELSE e.else)
         [] e.kind \in {"eliminate", "leaveeliminate"} ->
              Continued(scope, e.continuations[first[1].n + 1], Done(first, operands.log))
         [] e.kind = "transfer" -> Leaves(e.target, Done(first, operands.log))
         [] e.kind = "call" -> Applied(scope, operands.value[2], first, operands.log)
         [] OTHER -> Done(OverOperands(e, operands.value), operands.log)

(* The second operand of a logical operator, if the first does not decide. *)
Decided(scope, e, left) ==
    IF (left.value[1].n = 1) = (e.op = "or") THEN left ELSE Outcome(scope, left.log, e.operands[2])

Caught(target, outcome) == IF outcome.left = target THEN Leaves("", outcome) ELSE outcome

Outcome(scope, log, e) ==
    LET before == AllOutcomes(scope, log, IF "preceding" \in DOMAIN e THEN e.preceding ELSE <<>>)
        ordered == IF e.kind = "call" THEN Reverse(e.operands) ELSE e.operands
    IN CASE e.kind = "name" ->
              Done(IF e.name \in {"true", "false"} THEN Truth(e.name = "true") ELSE scope[e.name], log)
         [] e.kind = "lambda" -> Done(FunctionOf(e.lambda, scope), log)
         [] e.kind = "block" -> BlockOutcome(scope, log, e)
         [] e.kind = "leaveblock" -> Then(before, LAMBDA done : BlockOutcome(scope, done.log, e))
         [] e.kind = "resultblock" -> Caught(e.target, BlockOutcome(scope, log, e.body))
         [] e.kind = "logical" -> Then(Outcome(scope, log, e.operands[1]), LAMBDA left : Decided(scope, e, left))
         [] OTHER -> Then(before, LAMBDA done : Then(AllOutcomes(scope, done.log, ordered),
                                                     LAMBDA operands : Chosen(scope, e, operands)))

(* A function binds its own name, what it captured and its parameter; the  *)
(* host's only add what they are given to the log.  Names are unique, so   *)
(* the program's own are found where the function is applied.              *)
Applied(scope, function, argument, log) ==
    LET lambda == function[1].lambda
        made == function[1].scope
        captured == [x \in {lambda.captures[i].binding : i \in DOMAIN lambda.captures} |->
                        made[lambda.captures[CHOOSE i \in DOMAIN lambda.captures : lambda.captures[i].binding = x].source]]
        inside == Extended((lambda.self :> function) @@ captured @@ scope, lambda.parameter, argument)
    IN IF "operation" \in DOMAIN lambda THEN Done(argument, Mixed(log, argument[1].n))
       ELSE BlockOutcome(inside, log, lambda.body)

(* The program's own names and literals, in scope everywhere.              *)
Known(program) ==
    [x \in {program.items[i].name : i \in DOMAIN program.items} |->
        LET item == program.items[CHOOSE i \in DOMAIN program.items : program.items[i].name = x]
        IN FunctionOf(IF "operation" \in DOMAIN item THEN item ELSE item.value.lambda, <<>>)]
    @@ [x \in DOMAIN program.literals |-> Number(program.literals[x])]

(* The answer tells what the entry returns and the log apart.              *)
Answered(outcome) == 64 * outcome.log + outcome.value[1].n
SourceMeaning(program) ==
    LET known == Known(program)
    IN Answered(Applied(known, known[program.entry], Number(0), 0))
=============================================================================

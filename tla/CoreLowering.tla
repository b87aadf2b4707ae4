---------------------------- MODULE CoreLowering ----------------------------
(***************************************************************************)
(* From checked programs to the core language: blocks become lets, Bool    *)
(* operators become cases, and control that leaves a block becomes lexical *)
(* joins of the enclosing lambda (crates/mal-backend/src/core).            *)
(*                                                                         *)
(* Checked expression: [kind, type, ...] with operands (a sequence of      *)
(* expressions) where it has any.                                          *)
(*   name       name; "true" and "false" are the values of Bool            *)
(*   product, call (callee, argument), operation (op), binary (op), not,   *)
(*   logical (op: "and", "or"), equal (equal), inject (tag)                *)
(*   block      items, result      lambda       lambda                     *)
(*   resultblock target, body      if           operands, then, else       *)
(*   eliminate  operands, continuations: function (value), branch          *)
(*              (parameter, body), transfer (target, variant, type)        *)
(* A block ends in an expression, or abruptly: transfer (target, value),   *)
(* absurd (operands), leaveif, leaveeliminate or leaveblock, each after    *)
(* its preceding values.  An item is [pattern, value]; a pattern is a      *)
(* sequence of names as in ControlProgram, <<>> for none.                  *)
(* lambda: [id, self, captures: <<[source, binding]>>, parameter, type,    *)
(* signature, result, body].                                               *)
(*                                                                         *)
(* Core expression: name, product, call, operation, inject, let (pattern,  *)
(* value, body), goto (join, operands), lambda, case (operands, arms:      *)
(* <<[pattern, value]>>), branch (op, operands, otherwise, then).          *)
(***************************************************************************)
EXTENDS Naturals, SequencesExt

(* Here a value that says nothing is a number.                             *)
UnitType == <<"int">>
BoolType == <<"int", "int">>
NoName == "_"

(* What lowering carries along: the next temporary, the types of the       *)
(* temporaries, the joins of the lambda being lowered and the join of each *)
(* result block it is inside.                                              *)
Fresh == [next |-> 1, types |-> <<>>, joins |-> <<>>, targets |-> <<>>]
With(st, core) == [core |-> core, st |-> st]

Temporary(st) == "c" \o ToString(st.next)
Named(st, type) == [st EXCEPT !.next = @ + 1, !.types = (Temporary(st) :> type) @@ @]

Reference(x, type) == [kind |-> "name", name |-> x, type |-> type]
Let(pattern, value, body) ==
    [kind |-> "let", pattern |-> pattern, value |-> value, body |-> body, type |-> body.type]
Case(scrutinee, arms, type) == [kind |-> "case", operands |-> <<scrutinee>>, arms |-> arms, type |-> type]
Goto(join, value, type) == [kind |-> "goto", join |-> join, operands |-> <<value>>, type |-> type]
Arm(pattern, value) == [pattern |-> pattern, value |-> value]
WildcardArms(zero, one) == <<Arm(<<NoName>>, zero), Arm(<<NoName>>, one)>>
Injected(tag, value, type) == [kind |-> "inject", tag |-> tag, operands |-> <<value>>, type |-> type]
BoolValue(value) == Injected(IF value THEN 1 ELSE 0, Reference("unit", UnitType), BoolType)

IsAbrupt(e) == e.kind \in {"transfer", "absurd", "leaveif", "leaveeliminate", "leaveblock"}
IsComparison(e) == e.kind = "binary" /\ e.op = "less"

-----------------------------------------------------------------------------
(* Whether evaluating the expression may leave a block of its lambda.      *)
RECURSIVE ContainsControl(_)
BlockControls(block) ==
    IsAbrupt(block.result) \/ ContainsControl(block.result)
        \/ \E i \in DOMAIN block.items : ContainsControl(block.items[i].value)
ContinuationControls(continuation) ==
    CASE continuation.kind = "function" -> ContainsControl(continuation.value)
      [] continuation.kind = "branch" -> BlockControls(continuation.body)
      [] continuation.kind = "transfer" -> TRUE
ContainsControl(e) ==
    CASE e.kind \in {"name", "lambda"} -> FALSE
      [] e.kind = "resultblock" -> TRUE
      [] e.kind = "block" -> BlockControls(e)
      [] OTHER ->
           \/ \E i \in DOMAIN e.operands : ContainsControl(e.operands[i])
           \/ e.kind = "if" /\ (BlockControls(e.then) \/ BlockControls(e.else))
           \/ e.kind = "eliminate" /\ \E i \in DOMAIN e.continuations : ContinuationControls(e.continuations[i])

-----------------------------------------------------------------------------
(* Two Bools compared: both are bound in order, then the left one chooses  *)
(* how the right one is read.                                              *)
BoolEquality(st, equal, left, right) ==
    LET x == Temporary(st)
        named == Named(st, BoolType)
        y == Temporary(named)
        reads(zero, one) == Case(Reference(y, BoolType), WildcardArms(BoolValue(zero), BoolValue(one)), BoolType)
        compared == Case(Reference(x, BoolType), WildcardArms(reads(equal, ~equal), reads(~equal, equal)), BoolType)
    IN With(Named(named, BoolType), Let(<<x>>, left, Let(<<y>>, right, compared)))

LogicalNot(operand) == Case(operand, WildcardArms(BoolValue(TRUE), BoolValue(FALSE)), BoolType)
ShortCircuit(op, left, right) ==
    Case(left, IF op = "and" THEN WildcardArms(BoolValue(FALSE), right) ELSE WildcardArms(right, BoolValue(TRUE)), BoolType)

(* An expression over its lowered operands.                                *)
Over(e, operands) == [kind |-> e.kind, operands |-> operands, type |-> e.type]
                         @@ (CASE e.kind = "operation" -> [op |-> e.op]
                               [] e.kind = "binary" -> [op |-> e.op]
                               [] e.kind = "inject" -> [tag |-> e.tag]
                               [] OTHER -> <<>>)

(* The payload of a variant, bound to the parameter of its branch.         *)
BoundPayload(continuation, payload, type, body) ==
    IF continuation.parameter = <<>> THEN body
    ELSE Let(continuation.parameter, Reference(payload, type), body)

(* The payload of a variant, sent to the result block it names.            *)
SumTransfer(st, transfer, payload, type, leaving) ==
    LET value == Reference(payload, type)
    IN Goto(st.targets[transfer.target],
            IF transfer.variant = 0 THEN value ELSE Injected(transfer.variant - 1, value, transfer.type),
            leaving)

(* An elimination that sends every variant to the same variant of one      *)
(* result block is a jump of the scrutinee there; 0 for any other.         *)
IdentityForwardTarget(st, type, continuations) ==
    LET forwarded == /\ continuations # <<>>
                     /\ \A i \in DOMAIN continuations :
                           /\ continuations[i].kind = "transfer"
                           /\ continuations[i].variant = i
                           /\ continuations[i].type = type
                           /\ continuations[i].target = continuations[1].target
    IN IF forwarded THEN st.targets[continuations[1].target] ELSE 0

(* The type of a sum's payload; every member of one has the same type.     *)
PayloadType(type) == Tail(type)

-----------------------------------------------------------------------------
(* What is done with the value of an expression that may leave.  Each kind *)
(* holds what its step needs and then, what is done with its own value:    *)
(*   done           nothing more: the value is the result                  *)
(*   jump           join                                                   *)
(*   bind           pattern and the rest that follows it                   *)
(*   argument       e, the call whose argument the value is, and then      *)
(*   callee         e and its lowered argument                             *)
(*   left, right    e and, for its right operand, the lowered left one     *)
(*   over           e, a not, an operation or an injection of one value    *)
(*   if, logical    e, whose first operand the value is                    *)
(*   eliminate      e, whose scrutinee the value is                        *)
(*   function       payload the value is applied to                        *)
(*   absurd         an elimination of a sum without members                *)
Finish == [kind |-> "done"]
Jump(join) == [kind |-> "jump", join |-> join]
Bind(pattern, rest) == [kind |-> "bind", pattern |-> pattern, rest |-> rest]
Awaits(kind, e, then) == [kind |-> kind, e |-> e, then |-> then]
AwaitsRight(e, left, then) == [kind |-> "right", e |-> e, left |-> left, then |-> then]
AwaitsCallee(e, argument, then) == [kind |-> "callee", e |-> e, argument |-> argument, then |-> then]
Applies(payload, type, then) == [kind |-> "function", payload |-> payload, type |-> type, then |-> then]

(* Besides an expression, what LowerWith lowers may be ready, a value, or   *)
(* opened, a block whose items come before what follows it.                *)
Ready(core) == [kind |-> "ready", core |-> core]
Opened(block) == [kind |-> "opened", block |-> block]

RECURSIVE Lower(_, _), LowerAll(_, _), LowerBody(_, _, _), LowerLambda(_, _), LowerArms(_, _, _), LowerWith(_, _, _, _)
Resumed(st, then, type, core) == LowerWith(st, Ready(core), type, then)
LowerItems(st, block, type, then) == LowerWith(st, Opened(block), type, then)

-----------------------------------------------------------------------------
(* Expressions that cannot leave: operands in order.                       *)
Followed(first, rest) == With(rest.st, <<first>> \o rest.core)
LowerRest(first, values) == Followed(first.core, LowerAll(first.st, values))
LowerAll(st, values) ==
    IF values = <<>> THEN With(st, <<>>) ELSE LowerRest(Lower(st, Head(values)), Tail(values))

LowerBlock(st, block) ==
    LET result == Lower(st, block.result) IN LowerBody(result.st, block.items, result.core)
LowerBody(st, items, body) ==
    IF items = <<>> THEN With(st, body)
    ELSE LET value == Lower(st, Last(items).value)
         IN LowerBody(value.st, Front(items), Let(Last(items).pattern, value.core, body))

(* The arm of a continuation that cannot leave.                            *)
LowerArm(st, e, continuation, type) ==
    LET payload == Temporary(st)
        named == Named(st, type)
        lowered == IF continuation.kind = "function" THEN Lower(named, continuation.value)
                   ELSE LowerBlock(named, continuation.body)
        applied == [kind |-> "call", operands |-> <<lowered.core, Reference(payload, type)>>, type |-> e.type]
    IN With(lowered.st, Arm(<<payload>>, IF continuation.kind = "function" THEN applied
                                         ELSE BoundPayload(continuation, payload, type, lowered.core)))
LowerRestOfArms(first, e, continuations) == Followed(first.core, LowerArms(first.st, e, continuations))
LowerArms(st, e, continuations) ==
    IF continuations = <<>> THEN With(st, <<>>)
    ELSE LowerRestOfArms(LowerArm(st, e, Head(continuations), PayloadType(e.operands[1].type)), e, Tail(continuations))

(* An if on a comparison branches on it; any other takes a Bool apart.     *)
BranchOn(e, compared, otherwise, then) ==
    With(compared.st, [kind |-> "branch", op |-> e.operands[1].op, operands |-> compared.core, type |-> e.type,
                       otherwise |-> otherwise, then |-> then])
CaseOn(e, tested, otherwise, then) == With(tested.st, Case(tested.core, WildcardArms(otherwise, then), e.type))
LowerCondition(e, otherwise, then) ==
    LET condition == e.operands[1]
    IN IF IsComparison(condition) THEN BranchOn(e, LowerAll(then.st, condition.operands), otherwise, then.core)
       ELSE CaseOn(e, Lower(then.st, condition), otherwise, then.core)
LowerThen(e, otherwise) == LowerCondition(e, otherwise.core, LowerBlock(otherwise.st, e.then))
LowerIf(st, e) == LowerThen(e, LowerBlock(st, e.else))

LowerScrutinee(e, arms) ==
    LET scrutinee == Lower(arms.st, e.operands[1])
    IN With(scrutinee.st, Case(scrutinee.core, arms.core, e.type))
LowerElimination(st, e) == LowerScrutinee(e, LowerArms(st, e, e.continuations))

(* An operator on an operator's value: the chain is lowered from its       *)
(* innermost left operand, whose values are bound before those that follow.*)
LowerBinaryAfterLeft(st, e, left) ==
    LET right == Lower(st, e.operands[2])
    IN With(right.st, IF e.kind = "logical" THEN ShortCircuit(e.op, left, right.core)
                      ELSE Over(e, <<left, right.core>>))
IsBinary(e) == e.kind \in {"binary", "logical"}
RECURSIVE LowerLinks(_, _)
LowerLink(e, inner) ==
    LET left == e.operands[1]
        x == Temporary(inner.st)
    IN LowerBinaryAfterLeft(Named(inner.st, left.type), e, Reference(x, left.type))
           @@ [preceding |-> Append(inner.preceding, [name |-> x, value |-> inner.core])]
LowerInnermost(e, left) == LowerBinaryAfterLeft(left.st, e, left.core) @@ [preceding |-> <<>>]
LowerLinks(st, e) ==
    LET left == e.operands[1]
    IN IF IsBinary(left) THEN LowerLink(e, LowerLinks(st, left)) ELSE LowerInnermost(e, Lower(st, left))
Chained(links) ==
    With(links.st, FoldRight(LAMBDA link, body : Let(<<link.name>>, link.value, body), links.preceding, links.core))

OverLowered(e, operands) ==
    CASE e.kind = "not" -> With(operands.st, LogicalNot(operands.core[1]))
      [] e.kind = "equal" -> BoolEquality(operands.st, e.equal, operands.core[1], operands.core[2])
      [] OTHER -> With(operands.st, Over(e, operands.core))
Lower(st, e) ==
    CASE e.kind = "name" ->
           With(st, IF e.name \in {"true", "false"} THEN BoolValue(e.name = "true") ELSE e)
      [] e.kind = "block" -> LowerBlock(st, e)
      [] e.kind = "lambda" -> LowerLambda(st, e)
      [] e.kind = "if" -> LowerIf(st, e)
      [] e.kind = "eliminate" -> LowerElimination(st, e)
      [] IsBinary(e) -> Chained(LowerLinks(st, e))
      [] OTHER -> OverLowered(e, LowerAll(st, e.operands))

-----------------------------------------------------------------------------
(* A lambda has joins of its own.  A product parameter is taken apart      *)
(* where the body starts.                                                  *)
LambdaOf(st, e, parameter, body) ==
    LET lambda == e.lambda
        bound == IF Len(lambda.parameter) > 1 THEN Let(lambda.parameter, Reference(parameter, lambda.type), body.core)
                 ELSE body.core
    IN With([body.st EXCEPT !.joins = st.joins],
            [kind |-> "lambda", type |-> e.type,
             lambda |-> [id |-> lambda.id, self |-> lambda.self, captures |-> lambda.captures, parameter |-> parameter,
                         signature |-> lambda.signature, result |-> lambda.result, body |-> bound, joins |-> body.st.joins]])
LowerLambdaBody(st, lambda) ==
    IF BlockControls(lambda.body) THEN LowerItems(st, lambda.body, lambda.result, Finish) ELSE LowerBlock(st, lambda.body)
LowerLambda(st, e) ==
    LET lambda == e.lambda
        product == Len(lambda.parameter) > 1
        parameter == IF product THEN Temporary(st) ELSE IF lambda.parameter = <<>> THEN NoName ELSE lambda.parameter[1]
        inner == [(IF product THEN Named(st, lambda.type) ELSE st) EXCEPT !.joins = <<>>]
    IN LambdaOf(st, e, parameter, LowerLambdaBody(inner, lambda))

-----------------------------------------------------------------------------
(* Expressions that may leave.  type is the type of the lambda's result.   *)

(* Whatever follows becomes a join, so that no path lowers it twice.       *)
Joined(st, pattern, body) == [st EXCEPT !.joins = Append(@, [pattern |-> pattern, body |-> body])]
WithJoin(st, valueType, type, then) ==
    LET parameter == Temporary(st)
        followed == Resumed(Named(st, valueType), then, type, Reference(parameter, valueType))
        joined == Joined(followed.st, <<parameter>>, followed.core)
    IN With(joined, Len(joined.joins))

(* The block is lowered where its join can be named and nowhere else.      *)
LowerResultBlock(st, e, type, then) ==
    LET joined == WithJoin(st, e.type, type, then)
        inside == [joined.st EXCEPT !.targets = (e.target :> joined.core) @@ @]
        body == LowerItems(inside, e.body, type, Finish)
    IN With([body.st EXCEPT !.targets = st.targets], body.core)

(* The operands are bound in order, each to a temporary of its own.        *)
LowerOperandsWith(st, e, type, then) ==
    LET values == e.operands
        named == FoldLeft(LAMBDA given, value : Named(given, value.type), st, values)
        x == [i \in DOMAIN values |-> "c" \o ToString(st.next + i - 1)]
        lowered == Resumed(named, then, type, Over(e, [i \in DOMAIN values |-> Reference(x[i], values[i].type)]))
        RECURSIVE Before(_, _)
        Before(body, i) ==
            IF i = 0 THEN body
            ELSE Before(LowerWith(body.st, values[i], type, Bind(<<x[i]>>, body.core)), i - 1)
    IN Before(lowered, Len(values))

LowerIfWith(st, then, type, value) ==
    LET otherwise == LowerItems(st, then.e.else, type, then.then)
        taken == LowerItems(otherwise.st, then.e.then, type, then.then)
    IN With(taken.st, Case(value, WildcardArms(otherwise.core, taken.core), type))

(* The arms of an elimination some of whose continuations may leave.       *)
RECURSIVE ChooseEliminated(_, _, _, _, _, _)
ChooseEliminated(st, e, then, type, continuations, arms) ==
    IF continuations = <<>> THEN With(st, arms)
    ELSE LET continuation == Head(continuations)
             payload == Temporary(st)
             payloadType == PayloadType(e.operands[1].type)
             named == Named(st, payloadType)
             body == LowerItems(named, continuation.body, type, then)
             lowered ==
                 CASE continuation.kind = "function" ->
                        LowerWith(named, continuation.value, type, Applies(Reference(payload, payloadType), e.type, then))
                   [] continuation.kind = "branch" ->
                        With(body.st, BoundPayload(continuation, payload, payloadType, body.core))
                   [] continuation.kind = "transfer" ->
                        With(named, SumTransfer(named, continuation, payload, payloadType, type))
         IN ChooseEliminated(lowered.st, e, then, type, Tail(continuations),
                             Append(arms, Arm(<<payload>>, lowered.core)))

LowerEliminated(st, e, then, type, scrutinee) ==
    LET forward == IdentityForwardTarget(st, e.operands[1].type, e.continuations)
    IN IF forward # 0 THEN With(st, Goto(forward, scrutinee, type))
       ELSE LET arms == ChooseEliminated(st, e, then, type, e.continuations, <<>>)
            IN With(arms.st, Case(scrutinee, arms.core, type))

(* The step that waits for a value, given it.                              *)
Continue(st, then, type, value) ==
    CASE then.kind = "done" -> With(st, value)
      [] then.kind = "jump" -> With(st, Goto(then.join, value, type))
      [] then.kind = "bind" -> With(st, Let(then.pattern, value, then.rest))
      [] then.kind = "argument" ->
           LowerWith(st, then.e.operands[1], type, AwaitsCallee(then.e, value, then.then))
      [] then.kind = "callee" -> Resumed(st, then.then, type, Over(then.e, <<value, then.argument>>))
      [] then.kind = "left" -> LowerWith(st, then.e.operands[2], type, AwaitsRight(then.e, value, then.then))
      [] then.kind = "right" ->
           LET compared == BoolEquality(st, then.e.equal, then.left, value)
           IN IF then.e.kind = "equal" THEN Resumed(compared.st, then.then, type, compared.core)
              ELSE Resumed(st, then.then, type, Over(then.e, <<then.left, value>>))
      [] then.kind = "over" ->
           Resumed(st, then.then, type, IF then.e.kind = "not" THEN LogicalNot(value) ELSE Over(then.e, <<value>>))
      [] then.kind = "if" -> LowerIfWith(st, then, type, value)
      [] then.kind = "logical" ->
           LET constant == Resumed(st, then.then, type, BoolValue(then.e.op = "or"))
               right == LowerWith(constant.st, then.e.operands[2], type, then.then)
           IN With(right.st, Case(value, IF then.e.op = "and" THEN WildcardArms(constant.core, right.core)
                                         ELSE WildcardArms(right.core, constant.core), type))
      [] then.kind = "eliminate" -> LowerEliminated(st, then.e, then.then, type, value)
      [] then.kind = "function" ->
           Resumed(st, then.then, type,
                    [kind |-> "call", operands |-> <<value, then.payload>>, type |-> then.type])
      [] then.kind = "absurd" -> With(st, Case(value, <<>>, type))

RECURSIVE LowerPreceding(_, _, _)
LowerPreceding(lowered, preceding, type) ==
    IF preceding = <<>> THEN lowered
    ELSE LowerPreceding(LowerWith(lowered.st, Last(preceding), type, Bind(<<NoName>>, lowered.core)),
                        Front(preceding), type)

(* A block that ends without a value, after the values before it.          *)
LowerAbrupt(st, e, type) ==
    LET terminal ==
            CASE e.kind = "transfer" -> LowerWith(st, e.operands[1], type, Jump(st.targets[e.target]))
              [] e.kind = "absurd" -> LowerWith(st, e.operands[1], type, Awaits("absurd", e, Finish))
              [] e.kind = "leaveif" -> LowerWith(st, e.operands[1], type, Awaits("if", e, Finish))
              [] e.kind = "leaveeliminate" -> LowerWith(st, e.operands[1], type, Awaits("eliminate", e, Finish))
              [] e.kind = "leaveblock" -> LowerItems(st, e, type, Finish)
    IN LowerPreceding(terminal, e.preceding, type)

(* The items of a block, before what follows its result.                   *)
LowerItemsWith(st, block, type, then) ==
    LET RECURSIVE Before(_, _)
        Before(lowered, items) ==
            IF items = <<>> THEN lowered
            ELSE Before(LowerWith(lowered.st, Last(items).value, type, Bind(Last(items).pattern, lowered.core)), Front(items))
    IN Before(IF IsAbrupt(block.result) THEN LowerAbrupt(st, block.result, type)
              ELSE LowerWith(st, block.result, type, then), block.items)

(* An expression that may leave is lowered step by step.                   *)
LowerExpressionWith(st, e, type, then) ==
    LET first == e.operands[1]
        follows(kind) == LowerWith(st, first, type, Awaits(kind, e, then))
        joining(kind) ==
            LET joined == WithJoin(st, e.type, type, then)
            IN LowerWith(joined.st, first, type, Awaits(kind, e, Jump(joined.core)))
    IN CASE ~ContainsControl(e) ->
              LET lowered == Lower(st, e) IN Resumed(lowered.st, then, type, lowered.core)
         [] e.kind = "block" -> LowerItems(st, e, type, then)
         [] e.kind = "resultblock" -> LowerResultBlock(st, e, type, then)
         [] e.kind = "call" -> LowerWith(st, e.operands[2], type, Awaits("argument", e, then))
         [] e.kind = "eliminate" -> joining("eliminate")
         [] e.kind = "if" -> joining("if")
         [] e.kind = "logical" -> joining("logical")
         [] e.kind \in {"binary", "equal"} -> follows("left")
         [] e.kind \in {"not", "inject"} -> follows("over")
         [] e.kind \in {"product", "operation"} ->
              LowerOperandsWith(st, e, type, then)

LowerWith(st, e, type, then) ==
    CASE e.kind = "ready" -> Continue(st, then, type, e.core)
      [] e.kind = "opened" -> LowerItemsWith(st, e.block, type, then)
      [] OTHER -> LowerExpressionWith(st, e, type, then)

-----------------------------------------------------------------------------
(* A program is a sequence of items [name, type, value], external ones     *)
(* first; an external operation is a function that only calls the host.    *)
LowerExternal(st, item) ==
    LET parameter == Temporary(st)
        called == [kind |-> "operation", op |-> item.operation, operands |-> <<Reference(parameter, item.parameter)>>,
                   type |-> item.result]
    IN With(Named(st, item.parameter),
            [kind |-> "lambda", type |-> item.type,
             lambda |-> [id |-> item.name, self |-> NoName, captures |-> <<>>, parameter |-> parameter,
                         signature |-> item.type[1], result |-> item.result, body |-> called, joins |-> <<>>]])

RECURSIVE LowerBindings(_, _)
LowerRestOfBindings(item, value, items) ==
    Followed([name |-> item.name, value |-> value.core], LowerBindings(value.st, items))
LowerBindings(st, items) ==
    IF items = <<>> THEN With(st, <<>>)
    ELSE LET item == Head(items)
         IN LowerRestOfBindings(item, IF "operation" \in DOMAIN item THEN LowerExternal(st, item) ELSE Lower(st, item.value),
                                Tail(items))

ProgramOf(program, lowered) ==
    [bindings |-> lowered.core, entry |-> program.entry, literals |-> program.literals, types |-> lowered.st.types @@ program.types]
LoweredProgram(program) ==
    LET external == SelectSeq(program.items, LAMBDA item : "operation" \in DOMAIN item)
        bound == SelectSeq(program.items, LAMBDA item : "operation" \notin DOMAIN item)
    IN ProgramOf(program, LowerBindings(Fresh, external \o bound))
=============================================================================

--------------------- MODULE ContinuationSpecialization ---------------------
(***************************************************************************)
(* How a call whose result is a function, and the one application of that  *)
(* result, become one call of a worker that does both                      *)
(* (crates/mal-backend/src/continuation_specialization).  A plan finds the *)
(* demand and everything that may run for it, the slice; if the slice is   *)
(* closed, its functions are evaluated symbolically into workers that make *)
(* no closures.                                                            *)
(*                                                                         *)
(* A call site is <<function, operands>>, so two calls of one function     *)
(* with the same operands count as one.  A source of a closure is <<the    *)
(* name, or top-level function, it was made as, its function>>.            *)
(***************************************************************************)
EXTENDS CallPattern

Site(f, b) == <<f, b.operation.args>>
CallsIn(c, f) == {b \in FunctionBindings(c.functions[f]) : b.operation.kind = "call"}
SitesIn(c, f) == {Site(f, b) : b \in CallsIn(c, f)}

-----------------------------------------------------------------------------
(* What names are bound to, and what each is another name of: a bound name *)
(* or a top-level function, but not a capture or the function itself.      *)
OriginOf(c, operations, bound) ==
    LET refers(n, atom) == atom \in bound \/ (atom \in DOMAIN c.functions /\ n \notin Binders(c.functions[atom]))
        aliased(n) == operations[n].kind = "atom" /\ refers(n, operations[n].args[1])
        origin[n \in DOMAIN operations] ==
            IF ~aliased(n) THEN n
            ELSE IF operations[n].args[1] \in DOMAIN operations THEN origin[operations[n].args[1]]
            ELSE operations[n].args[1]
    IN Tabulated(origin)
OriginsWith(c, operations) ==
    [operations |-> operations,
     origin |-> OriginOf(c, operations, UNION {Binders(c.functions[f]) : f \in DOMAIN c.functions})]
OriginIndex(c) == OriginsWith(c, NamedOperations(UNION {FunctionBindings(c.functions[f]) : f \in DOMAIN c.functions}))
OriginIn(x, atom) == Renamed(x.origin, atom)
KnownCallee(c, x, atom) == IF OriginIn(x, atom) \in DOMAIN c.functions THEN OriginIn(x, atom) ELSE Nothing

(* Where a value goes other than to another name or to be called, and      *)
(* where it is called.                                                     *)
Escapes(c, x, n) ==
    LET atoms(b) == IF b.operation.kind = "call" THEN {b.operation.args[2]} ELSE ToSet(b.operation.args)
        named(b) == b.operation.kind = "atom" /\ BoundTo(b) # Wildcard
    IN \E f \in DOMAIN c.functions :
          \/ \E b \in FunctionBindings(c.functions[f]) : ~named(b) /\ \E atom \in atoms(b) : OriginIn(x, atom) = n
          \/ \E block \in FunctionBlocks(c.functions[f]) : OriginIn(x, block.result) = n
Applications(c, x, n) ==
    UNION {UNION {{<<block, i>> : i \in {i \in DOMAIN block.bindings :
                                           /\ block.bindings[i].operation.kind = "call"
                                           /\ OriginIn(x, block.bindings[i].operation.args[1]) = n}} :
                    block \in FunctionBlocks(c.functions[f])} : f \in DOMAIN c.functions}

(* The j-th binding of a block calls a function whose result only the i-th *)
(* binding applies, with nothing in between that does anything, to what    *)
(* was there before the call.                                              *)
IsDemand(c, x, block, j, i) ==
    LET b(k) == block.bindings[k]
        n == BoundTo(b(j))
    IN /\ b(j).operation.kind = "call" /\ n # Wildcard
       /\ b(i).operation.kind = "call" /\ OriginIn(x, b(i).operation.args[1]) = n
       /\ \A k \in j + 1 .. i - 1 : b(k).operation.kind = "atom"
       /\ \A k \in j .. Len(block.bindings) : b(i).operation.args[2] \notin NamesIn(b(k).pattern)
       /\ ~Escapes(c, x, n)
       /\ Applications(c, x, n) = {<<block, i>>}
       /\ KnownCallee(c, x, b(j).operation.args[1]) # Nothing
DemandOf(c, x, f, producer, consumer) ==
    [result |-> BoundTo(producer), producer |-> KnownCallee(c, x, producer.operation.args[1]),
     site |-> Site(f, producer), consumer |-> Site(f, consumer),
     given |-> producer.operation.args[2], argument |-> consumer.operation.args[2]]
DemandsIn(c, x, f, block) ==
    {DemandOf(c, x, f, block.bindings[q[1]], block.bindings[q[2]]) :
        q \in {q \in (DOMAIN block.bindings) \X (DOMAIN block.bindings) : q[1] < q[2] /\ IsDemand(c, x, block, q[1], q[2])}}
Demands(c, x) == UNION {UNION {DemandsIn(c, x, f, block) : block \in FunctionBlocks(c.functions[f])} : f \in DOMAIN c.functions}

-----------------------------------------------------------------------------
(* The calls and closures a function's result comes from, each as <<kind,  *)
(* function, name>>.  A function one of whose results is none of them has  *)
(* no steps.                                                               *)
Untraced == <<"none", Nothing, Wildcard>>
RECURSIVE Traced(_, _, _, _, _, _)
TracedOperation(c, x, f, n, given, entered) ==
    LET operation == x.operations[n]
        join == c.functions[f].joins[operation.join]
    IN CASE operation.kind = "call" /\ KnownCallee(c, x, operation.args[1]) # Nothing ->
              {<<"call", KnownCallee(c, x, operation.args[1]), n>>}
         [] operation.kind = "closure" -> {<<"closure", operation.function, n>>}
         [] operation.kind = "goto" /\ operation.join \notin entered /\ Len(join.pattern) = 1 ->
              Traced(c, x, f, join.body.result, (join.pattern[1] :> operation.args[1]) @@ given, entered \union {operation.join})
         [] operation.kind \in {"case", "branch"} ->
              UNION {Traced(c, x, f, operation.blocks[i].result, given, entered) : i \in DOMAIN operation.blocks}
         [] OTHER -> {Untraced}
Traced(c, x, f, atom, given, entered) ==
    IF atom \in DOMAIN given THEN Traced(c, x, f, given[atom], given, entered)
    ELSE IF OriginIn(x, atom) \in DOMAIN x.operations THEN TracedOperation(c, x, f, OriginIn(x, atom), given, entered)
    ELSE {Untraced}

StepsOf(c, x) ==
    Tabulated([f \in DOMAIN c.functions |->
        LET traced == Traced(c, x, f, c.functions[f].body.result, <<>>, {})
        IN IF Untraced \in traced THEN {} ELSE traced])
Targeted(kind, steps) == {step[2] : step \in {step \in steps : step[1] = kind}}
ProducersFrom(c, steps, producer) ==
    LeastFixed(DOMAIN c.functions, LAMBDA set : set \union UNION {Targeted("call", steps[f]) : f \in set}, {producer})

(* The functions each call site may reach, and those that run when a       *)
(* closure the producers make is applied.                                  *)
SiteAt(p, s) == <<p.owner[s], Args(p, s)>>
ReachTable(p, flow) ==
    Tabulated([site \in {SiteAt(p, s) : s \in Sites(p)} |->
        UNION {ReachedTargets(p, flow, s) : s \in {s \in Sites(p) : SiteAt(p, s) = site}}])
ReachedAt(reach, site) == IF site \in DOMAIN reach THEN reach[site] ELSE {}
HostsFrom(c, reach, closures) ==
    LeastFixed(DOMAIN c.functions,
               LAMBDA set : set \union UNION {UNION {ReachedAt(reach, site) : site \in SitesIn(c, f)} : f \in set}, closures)

-----------------------------------------------------------------------------
(* Provenance: pairs of a place, as in the closure flow, and a source of   *)
(* what may be there.                                                      *)
OwnSource == "@"
SourcesAt(p, from, s, atom) ==
    IF atom \in Functions(p) THEN {<<IF IsSelfClosure(p, s, atom) THEN OwnSource ELSE atom, atom>>}
    ELSE AtPlace(from, <<atom>>)
SourcesOfAll(p, from, s, atoms) == UNION {SourcesAt(p, from, s, atom) : atom \in atoms}
SourcesFor(p, pattern, sources) ==
    {<<<<q[1]>>, q[2]>> : q \in {q \in ManagedIn(p, pattern) \X sources : HoldsFunction(p, q[1], q[2][2])}}

OperationSources(p, from, s, b) ==
    LET captures == p.functions[b.operation.function].captures
    IN CASE b.operation.kind \in {"atom", "inject", "product"} ->
              SourcesFor(p, b.pattern, SourcesOfAll(p, from, s, ToSet(b.operation.args)))
         [] b.operation.kind = "closure" ->
              SourcesFor(p, b.pattern, {<<BoundTo(b), b.operation.function>>})
                \union UNION {{<<captures[i]>>} \X SourcesAt(p, from, s, b.operation.args[i]) : i \in DOMAIN captures}
         [] b.operation.kind = "get" -> SourcesFor(p, b.pattern, AtPlace(from, BufferPlace))
         [] b.operation.kind \in {"new", "put"} -> {BufferPlace} \X SourcesOfAll(p, from, s, ToSet(b.operation.args))
         [] OTHER -> {}

CalledFrom(p, from, reach, s) == {source[2] : source \in SourcesAt(p, from, s, Callee(p, s))} \intersect reach[SiteAt(p, s)]
HandedSources(p, from, reach, s) ==
    UNION {SourcesFor(p, <<Parameter(p, f)>>, SourcesAt(p, from, s, Argument(p, s))) : f \in CalledFrom(p, from, reach, s)}
ReturnedSources(p, from, reach, s) == UNION {AtPlace(from, ResultPlace(f)) : f \in CalledFrom(p, from, reach, s)}
TerminatorSources(p, from, reach, s) ==
    CASE Kind(p, s) = "return" -> {ResultPlace(p.owner[s])} \X SourcesAt(p, from, s, Args(p, s)[1])
      [] Kind(p, s) \in {"jump", "case"} ->
           UNION {SourcesFor(p, p.states[t].input, SourcesAt(p, from, s, Args(p, s)[1])) : t \in Successors(p.states, s)}
      [] Kind(p, s) = "call" -> HandedSources(p, from, reach, s)
           \union SourcesFor(p, p.states[Targets(p, s)[1]].input, ReturnedSources(p, from, reach, s))
      [] Kind(p, s) = "tailcall" -> HandedSources(p, from, reach, s)
           \union ({ResultPlace(p.owner[s])} \X ReturnedSources(p, from, reach, s))
      [] OTHER -> {}

ProvenancePass(p, reach, from) ==
    from \union UNION {TerminatorSources(p, from, reach, s)
                         \union UNION {OperationSources(p, from, s, b) : b \in ToSet(Bindings(p, s))} : s \in ProgramStates(p)}
Provenance(p, reach) ==
    LET places == {<<n>> : n \in DOMAIN p.types} \union {ResultPlace(f) : f \in Functions(p)} \union {BufferPlace}
        sources == (p.names \union Functions(p) \union {OwnSource, Wildcard}) \X Functions(p)
    IN LeastFixed(places \X sources, LAMBDA from : ProvenancePass(p, reach, from), {})

-----------------------------------------------------------------------------
(* The plan q: demand, steps of the producers, hosts of the applications,  *)
(* slice, reach, provenance and the sites that may call into the slice.    *)
SliceSites(p, reach, slice) == {s \in Sites(p) : reach[SiteAt(p, s)] \intersect slice # {}}
SiteSources(p, q, s) ==
    {source \in SourcesAt(p, q.from, s, Callee(p, s)) : source[2] \in q.reach[SiteAt(p, s)] \intersect q.slice}
Creators(p, q) == UNION {SiteSources(p, q, s) : s \in q.sites}

PlanFrom(c, p, d, steps, producers, hosts, reach) ==
    LET slice == producers \union UNION {Targeted("call", steps[f]) \union Targeted("closure", steps[f]) : f \in producers} \union hosts
    IN [demand |-> d, steps |-> steps, producers |-> producers, hosts |-> hosts, slice |-> slice, reach |-> reach,
        from |-> Provenance(p, reach), sites |-> SliceSites(p, reach, slice)]
PlanWith(c, p, d, steps, producers, reach) ==
    PlanFrom(c, p, d, steps, producers, HostsFrom(c, reach, UNION {Targeted("closure", steps[f]) : f \in producers}), reach)
SteppedFrom(c, steps, producer) == {f \in ProducersFrom(c, steps, producer) : steps[f] # {}}
PlanOf(c, x, p, d, steps) == PlanWith(c, p, d, steps, SteppedFrom(c, steps, d.producer), ReachTable(p, ClosureFlow(p)))

(* Every call into the slice is the demand's, a step's or an application.  *)
IsClosed(c, x, p, q) ==
    LET stepped == UNION {{<<f, x.operations[step[3]].args>> : step \in {step \in q.steps[f] : step[1] = "call"}} : f \in q.producers}
        covered == {q.demand.site, q.demand.consumer} \union stepped \union UNION {SitesIn(c, f) : f \in q.hosts}
    IN \A s \in q.sites : SiteAt(p, s) \in covered

(* A closure of the slice only goes where the plan follows it.             *)
IsRelevant(p, q, s, atoms) == \E source \in SourcesOfAll(p, q.from, s, atoms) : source[2] \in q.slice
CarriesWithin(p, q, creators, s, b) ==
    CASE b.operation.kind = "atom" -> TRUE
      [] b.operation.kind = "product" -> BoundTo(b) # Wildcard
      [] b.operation.kind = "closure" -> <<BoundTo(b), b.operation.function>> \in creators
      [] OTHER -> FALSE
EndsWithin(p, q, s) ==
    CASE Kind(p, s) = "return" -> p.owner[s] \in q.slice
      [] Kind(p, s) = "jump" -> TRUE
      [] Kind(p, s) \in {"call", "tailcall"} ->
           /\ IsRelevant(p, q, s, {Callee(p, s)}) => s \in q.sites
           /\ IsRelevant(p, q, s, {Argument(p, s)}) => s \in q.sites /\ q.reach[SiteAt(p, s)] \subseteq q.slice
      [] OTHER -> FALSE
TransportClosed(c, p, q, creators) ==
    /\ \A s \in ProgramStates(p) :
          /\ \A b \in ToSet(Bindings(p, s)) :
                IsRelevant(p, q, s, ToSet(b.operation.args)) => CarriesWithin(p, q, creators, s, b)
          /\ IsRelevant(p, q, s, ToSet(Args(p, s))) => EndsWithin(p, q, s)
    /\ \A f \in TopLevel(c) \intersect q.slice : <<f, f>> \in creators

MadeByKnown(q, creators) ==
    \A f \in q.producers : \A step \in q.steps[f] : step[1] = "closure" => <<step[3], step[2]>> \in creators
IsAdmitted(c, x, p, q, creators) ==
    /\ IsClosed(c, x, p, q)
    /\ \A source \in creators : source[1] # Wildcard
    /\ TransportClosed(c, p, q, creators)
    /\ MadeByKnown(q, creators)
    /\ \E source \in creators : source[1] # OwnSource
    /\ \A s \in q.sites : SiteSources(p, q, s) # {}
    /\ Cardinality(DOMAIN c.functions) + Cardinality(q.slice) <= CopyBudget(Cardinality(DOMAIN c.functions))

(* The one function a site of the slice calls.                             *)
SingleReach(p, q) ==
    LET single == {s \in q.sites : Cardinality(q.reach[SiteAt(p, s)]) = 1}
    IN Tabulated([site \in {SiteAt(p, s) : s \in single} |-> CHOOSE f \in q.reach[site] : TRUE])

-----------------------------------------------------------------------------
(* Symbolic values: an atom, a closure or a product of symbolic parts, or  *)
(* a choice whose arms are blocks that end in symbolic values.             *)
AtomValue(name, type) == [kind |-> "atom", name |-> name, parts |-> <<>>, type |-> type]
ClosureValue(f, parts, type) == [kind |-> "closure", name |-> f, parts |-> parts, type |-> type]
ProductValue(parts) ==
    [kind |-> "product", name |-> "", parts |-> parts, type |-> FlattenSeq([i \in DOMAIN parts |-> parts[i].type])]
ChoiceValue(operation, arms, type) == [kind |-> "choice", operation |-> operation, arms |-> arms, type |-> type]

(* The atoms a value is made of, and the value made of others instead.     *)
RECURSIVE Transported(_), Rebuilt(_, _), Shape(_)
Transported(value) ==
    IF value.kind \in {"atom", "choice"} THEN <<value>>
    ELSE FlattenSeq([i \in DOMAIN value.parts |-> Transported(value.parts[i])])
TransportedAll(values) == FlattenSeq([i \in DOMAIN values |-> Transported(values[i])])
LeavesOf(values, inputs, i) ==
    LET before == Len(TransportedAll(SubSeq(values, 1, i - 1)))
    IN SubSeq(inputs, before + 1, before + Len(Transported(values[i])))
Rebuilt(value, inputs) ==
    IF value.kind = "atom" THEN inputs[1]
    ELSE [value EXCEPT !.parts = [i \in DOMAIN @ |-> Rebuilt(@[i], LeavesOf(@, inputs, i))]]
RebuiltAll(values, inputs) == [i \in DOMAIN values |-> Rebuilt(values[i], LeavesOf(values, inputs, i))]

(* A text that tells what a context is made of.                            *)
Shape(value) ==
    IF value.kind = "atom" THEN Letters(value.type)
    ELSE "[" \o value.name \o FoldLeft(LAMBDA text, part : text \o Shape(part) \o ",", ":", value.parts) \o "]"
ShapeOf(values) == [i \in DOMAIN values |-> Shape(values[i])]
IsMovable(values) == \A i \in DOMAIN TransportedAll(values) : TransportedAll(values)[i].kind = "atom"

-----------------------------------------------------------------------------
(* The state of an evaluation: the value, the bindings put out, what names *)
(* stand for, the captures each worker is made for, the types of new       *)
(* names, the workers, and whether it has not failed.                      *)
Failed(st) == [st EXCEPT !.ok = FALSE, !.value = AtomValue(Wildcard, <<"int">>)]
WithValue(st, value) == [st EXCEPT !.value = value]
NewName(st) == "+" \o ToString(Cardinality(DOMAIN st.types))
Emitted(st, name, type, operation) ==
    [st EXCEPT !.out = Append(@, [pattern |-> <<name>>, operation |-> operation]),
               !.types = (name :> type) @@ @,
               !.value = AtomValue(name, type)]

RECURSIVE Materialized(_, _)
MaterializedAll(st, values) ==
    LET add(acc, value) == LET made == Materialized(acc.st, value)
                           IN [st |-> made, names |-> Append(acc.names, made.value.name)]
    IN FoldLeft(add, [st |-> st, names |-> <<>>], values)
ArmsMaterialized(st, arms) ==
    LET add(acc, arm) == LET made == Materialized([acc.st EXCEPT !.out = arm.bindings], arm.value)
                         IN [st |-> made, blocks |-> Append(acc.blocks, [bindings |-> made.out, result |-> made.value.name])]
    IN FoldLeft(add, [st |-> st, blocks |-> <<>>], arms)
PutOut(made, type, kind) == Emitted(made.st, NewName(made.st), type, [kind |-> kind, args |-> made.names])
ChoicePutOut(st, made, value) ==
    Emitted([made.st EXCEPT !.out = st.out], NewName(made.st), value.type, value.operation @@ [blocks |-> made.blocks])
Materialized(st, value) ==
    CASE value.kind = "atom" -> WithValue(st, value)
      [] value.kind = "product" -> PutOut(MaterializedAll(st, value.parts), value.type, "product")
      [] value.kind = "choice" -> ChoicePutOut(st, ArmsMaterialized(st, value.arms), value)
      [] value.kind = "closure" -> Failed(st)

(* New names for those of a pattern.                                       *)
Renewed(c, st, pattern) ==
    LET renew(acc, x) ==
            IF x = Wildcard THEN [acc EXCEPT !.pattern = Append(@, x)]
            ELSE LET n == NewName(acc.st)
                 IN [pattern |-> Append(acc.pattern, n),
                     st |-> [acc.st EXCEPT !.types = (n :> TypeOf(c, x)) @@ @, !.env = (x :> AtomValue(n, TypeOf(c, x))) @@ @]]
    IN FoldLeft(renew, [st |-> st, pattern |-> <<>>], pattern)

(* The value of the state bound to a pattern.                              *)
SubPattern(c, pattern, parts, i) ==
    LET before == Len(ProductValue(SubSeq(parts, 1, i - 1)).type)
    IN [k \in 1 .. Len(SelectSeq([n \in DOMAIN pattern |-> n], LAMBDA n : Offset(c.types, pattern, n) \in before .. before + Len(parts[i].type) - 1)) |->
          SelectSeq([n \in DOMAIN pattern |-> n], LAMBDA n : Offset(c.types, pattern, n) \in before .. before + Len(parts[i].type) - 1)[k]]
TakenOut(renewed, name) ==
    [renewed.st EXCEPT !.out = Append(@, [pattern |-> renewed.pattern, operation |-> [kind |-> "atom", args |-> <<name>>]])]
TakenFrom(c, st, pattern) == TakenOut(Renewed(c, st, pattern), st.value.name)

RECURSIVE BoundIn(_, _, _)
PartsBound(c, st, pattern, parts) ==
    FoldLeft(LAMBDA acc, i : BoundIn(c, WithValue(acc, parts[i]), [k \in DOMAIN SubPattern(c, pattern, parts, i) |->
                                                                  pattern[SubPattern(c, pattern, parts, i)[k]]]),
             st, [i \in DOMAIN parts |-> i])
BoundIn(c, st, pattern) ==
    CASE pattern = <<>> /\ st.value.kind = "product" /\ st.value.parts = <<>> -> st
      [] pattern = <<Wildcard>> -> IF st.value.kind = "closure" THEN Failed(st) ELSE st
      [] Len(pattern) = 1 /\ pattern # <<Wildcard>> -> [st EXCEPT !.env = (pattern[1] :> st.value) @@ @]
      [] Len(pattern) > 1 /\ st.value.kind = "product" -> PartsBound(c, st, pattern, st.value.parts)
      [] OTHER -> TakenFrom(c, Materialized(st, st.value), pattern)

-----------------------------------------------------------------------------
(* Symbolic evaluation of the slice ev: [c, slice, targets, demanded].  A  *)
(* call of a function that is being evaluated becomes a call of its        *)
(* worker, any other is evaluated in its place.                            *)
WorkerOf(f) == f \o "+w"
ResultOf(c, signature) == c.functions[CHOOSE f \in DOMAIN c.functions : c.functions[f].signature = signature].result
ResolvedIn(ev, st, f, atom) ==
    CASE atom \in DOMAIN st.env -> st.env[atom]
      [] atom \notin DOMAIN st.env /\ atom \in DOMAIN ev.c.functions ->
           ClosureValue(atom, IF atom = f THEN [i \in DOMAIN ev.c.functions[f].captures |-> st.env[ev.c.functions[f].captures[i]]]
                              ELSE <<>>, <<ev.c.functions[atom].signature>>)
      [] OTHER -> AtomValue(atom, TypeOf(ev.c, atom))
ResolvedAll(ev, st, f, atoms) == [i \in DOMAIN atoms |-> ResolvedIn(ev, st, f, atoms[i])]

InContext(st, f, captures) ==
    CASE f \notin DOMAIN st.contexts -> [st EXCEPT !.contexts = (f :> captures) @@ @]
      [] f \in DOMAIN st.contexts /\ ShapeOf(st.contexts[f]) = ShapeOf(captures) -> st
      [] OTHER -> Failed(st)
WorkerCalled(made, f, type) ==
    Emitted(made, NewName(made), type, [kind |-> "call", args |-> <<WorkerOf(f), made.value.name>>])
CallWorker(ev, st, f, captures, arguments, type) ==
    IF ~IsMovable(captures) \/ f \notin ev.slice THEN Failed(st)
    ELSE WorkerCalled(Materialized(InContext(st, f, captures), ProductValue(TransportedAll(captures) \o arguments)), f, type)

RECURSIVE Fuse(_, _, _)
RunBlock(f, active, block) == [kind |-> "block", function |-> f, active |-> active, block |-> block]
Application(active, callee, argument) == [kind |-> "apply", active |-> active, callee |-> callee, argument |-> argument]

(* A block of its own, its bindings apart.                                 *)
ArmFused(ev, st, job, env) == [Fuse(ev, job, st) EXCEPT !.env = env]
ArmOf(made) == [bindings |-> made.out, value |-> made.value]
ArmsFused(ev, st, job, operation) ==
    LET pattern(i) == IF operation.kind = "case" THEN operation.patterns[i] ELSE <<>>
        added(acc, made, renewed) ==
            [st |-> made, arms |-> Append(acc.arms, ArmOf(made)), patterns |-> Append(acc.patterns, renewed)]
        entered(acc, i, renewed) ==
            added(acc, ArmFused(ev, renewed.st, [job EXCEPT !.block = operation.blocks[i]], acc.st.env), renewed.pattern)
        add(acc, i) == IF acc.st.ok THEN entered(acc, i, Renewed(ev.c, [acc.st EXCEPT !.out = <<>>], pattern(i))) ELSE acc
    IN FoldLeft(add, [st |-> st, arms |-> <<>>, patterns |-> <<>>], [i \in DOMAIN operation.blocks |-> i])
ChoiceMade(st, operation, names, fused) ==
    WithValue([fused.st EXCEPT !.out = st.out],
           ChoiceValue(IF operation.kind = "case" THEN [kind |-> "case", args |-> names, patterns |-> fused.patterns]
                       ELSE [kind |-> "branch", args |-> names],
                       fused.arms, IF fused.arms = <<>> THEN <<"int">> ELSE fused.arms[1].value.type))
ChoiceFused(ev, job, operation, made) == ChoiceMade(made.st, operation, made.names, ArmsFused(ev, made.st, job, operation))

CalledAt(ev, st, job, operation) ==
    LET callee == ResolvedIn(ev, st, job.function, operation.args[1])
        site == <<job.function, operation.args>>
    IN IF /\ callee.kind = "atom" /\ site \in DOMAIN ev.targets
          /\ ev.c.functions[ev.targets[site]].captures = <<>>
       THEN ClosureValue(ev.targets[site], <<>>, callee.type) ELSE callee
CallFused(ev, st, job, operation) ==
    Fuse(ev, Application(job.active, CalledAt(ev, st, job, operation), ResolvedIn(ev, st, job.function, operation.args[2])), st)

JoinFused(ev, st, job, join, value) ==
    [Fuse(ev, [job EXCEPT !.block = join.body], BoundIn(ev.c, WithValue(st, value), join.pattern)) EXCEPT !.env = st.env]

OtherFused(made, b) ==
    Emitted(made.st, NewName(made.st), made.type, [b.operation EXCEPT !.args = made.names])

BindingFused(ev, st, job, b) ==
    LET values == ResolvedAll(ev, st, job.function, b.operation.args)
        type == TypesOf(ev.c, b.pattern)
    IN CASE b.operation.kind = "atom" -> WithValue(st, values[1])
         [] b.operation.kind = "closure" ->
              WithValue(st, ClosureValue(b.operation.function, values, <<ev.c.functions[b.operation.function].signature>>))
         [] b.operation.kind = "product" -> WithValue(st, ProductValue(values))
         [] b.operation.kind = "call" -> CallFused(ev, st, job, b.operation)
         [] b.operation.kind = "goto" -> JoinFused(ev, st, job, ev.c.functions[job.function].joins[b.operation.join], values[1])
         [] b.operation.kind \in {"case", "branch"} -> ChoiceFused(ev, job, b.operation, MaterializedAll(st, values))
         [] OTHER -> OtherFused(MaterializedAll(st, values) @@ [type |-> type], b)

BlockFused(ev, st, job) ==
    LET run(acc, b) == IF acc.ok THEN BoundIn(ev.c, BindingFused(ev, acc, job, b), b.pattern) ELSE acc
        ended(done) == IF done.ok THEN WithValue(done, ResolvedIn(ev, done, job.function, job.block.result)) ELSE done
    IN ended(FoldLeft(run, st, job.block.bindings))

(* A function that is being evaluated and returns a function keeps its     *)
(* argument as one capture more until its result is applied.               *)
CallApplied(ev, st, job) ==
    LET f == job.callee.name
        function == ev.c.functions[f]
        names == ToSet(function.captures)
        captured == [x \in names |-> job.callee.parts[CHOOSE i \in DOMAIN function.captures : function.captures[i] = x]]
    IN CASE f \in job.active /\ IsFunctionType(function.result) ->
              WithValue(st, ClosureValue(f, Append(job.callee.parts, job.argument), function.result))
         [] f \notin job.active /\ Len(job.callee.parts) = Len(function.captures) ->
              [Fuse(ev, RunBlock(f, job.active \union {f}, function.body),
                    [st EXCEPT !.env = (function.parameter :> job.argument) @@ captured]) EXCEPT !.env = st.env]
         [] OTHER -> Failed(st)

ChoiceApplied(ev, st, job) ==
    LET apply(acc, arm) == Fuse(ev, [job EXCEPT !.callee = arm.value], [acc.st EXCEPT !.out = arm.bindings])
        added(acc, made) == [st |-> made, arms |-> Append(acc.arms, ArmOf(made))]
        add(acc, arm) == IF acc.st.ok THEN added(acc, apply(acc, arm)) ELSE acc
        ended(made) == WithValue([made.st EXCEPT !.out = st.out],
                              ChoiceValue(job.callee.operation, made.arms, made.arms[1].value.type))
    IN IF job.callee.arms = <<>> THEN Failed(st) ELSE ended(FoldLeft(add, [st |-> st, arms |-> <<>>], job.callee.arms))

ClosureApplied(ev, st, job) ==
    LET f == job.callee.name
        parts == job.callee.parts
        function == ev.c.functions[f]
    IN CASE f \in job.active /\ Len(parts) = Len(function.captures) /\ ~IsFunctionType(function.result) ->
              CallWorker(ev, st, f, parts, <<job.argument>>, function.result)
         [] f \in job.active /\ Len(parts) = Len(function.captures) + 1 ->
              CallWorker(ev, st, f, Front(parts), <<Last(parts), job.argument>>, ResultOf(ev.c, job.callee.type[1]))
         [] OTHER -> CallApplied(ev, st, job)

Fuse(ev, job, st) ==
    CASE ~st.ok -> st
      [] st.ok /\ job.kind = "block" -> BlockFused(ev, st, job)
      [] st.ok /\ job.kind = "apply" ->
           CASE job.callee.kind = "closure" -> ClosureApplied(ev, st, job)
             [] job.callee.kind = "choice" -> ChoiceApplied(ev, st, job)
             [] OTHER -> Failed(st)

-----------------------------------------------------------------------------
(* The worker of a function takes what its captures are made of, its       *)
(* argument and, if its result is a function, what that is applied to.     *)
IsDemanded(ev, f) == IsFunctionType(ev.c.functions[f].result)
AppliesToDemanded(ev, f) ==
    LET signature == ev.c.functions[f].result[1] IN signature = SignatureOf(ev.demanded, ResultOf(ev.c, signature))
WorkerFields(ev, f, moved) ==
    [i \in DOMAIN moved |-> moved[i].type] \o <<ParameterType(ev.c, f)>> \o (IF IsDemanded(ev, f) THEN <<ev.demanded>> ELSE <<>>)
FieldValues(f, types) == [i \in DOMAIN types |-> AtomValue(Numbered(WorkerOf(f), i), types[i])]

WorkerEnded(f, fields, made) ==
    LET parameter == LiftedParameter(f, "w")
        type == FlattenSeq([i \in DOMAIN fields |-> fields[i].type])
        taken == [pattern |-> [i \in DOMAIN fields |-> fields[i].name], operation |-> [kind |-> "atom", args |-> <<parameter>>]]
    IN [made EXCEPT
        !.types = (parameter :> type) @@ [n \in {fields[i].name : i \in DOMAIN fields} |->
                                             fields[CHOOSE i \in DOMAIN fields : fields[i].name = n].type] @@ @,
        !.workers = (f :> [parameter |-> parameter, captures |-> <<>>, signature |-> SignatureOf(type, made.value.type),
                           result |-> made.value.type, joins |-> <<>>,
                           body |-> [bindings |-> <<taken>> \o made.out, result |-> made.value.name]]) @@ @]

WorkerResult(ev, f, fields, made) ==
    IF IsDemanded(ev, f) THEN Fuse(ev, Application({f}, made.value, fields[Len(fields)]), made) ELSE made
WorkerFinished(f, fields, made) == IF made.ok THEN WorkerEnded(f, fields, Materialized(made, made.value)) ELSE made
WorkerWith(ev, st, f, context, fields) ==
    LET function == ev.c.functions[f]
        captured == RebuiltAll(context, fields)
        own == [x \in ToSet(function.captures) |-> captured[CHOOSE i \in DOMAIN captured : function.captures[i] = x]]
        argument == fields[Len(TransportedAll(context)) + 1]
    IN WorkerFinished(f, fields, WorkerResult(ev, f, fields,
           Fuse(ev, RunBlock(f, {f}, function.body),
                [st EXCEPT !.out = <<>>, !.env = (function.parameter :> argument) @@ own])))
WorkerBuilt(ev, st, f) ==
    LET context == st.contexts[f]
        captures == ev.c.functions[f].captures
    IN IF [i \in DOMAIN context |-> context[i].type] # [i \in DOMAIN captures |-> TypeOf(ev.c, captures[i])]
          \/ (IsDemanded(ev, f) /\ ~AppliesToDemanded(ev, f))
       THEN Failed(st)
       ELSE WorkerWith(ev, st, f, context, FieldValues(f, WorkerFields(ev, f, TransportedAll(context))))

RECURSIVE WorkersBuilt(_, _)
WorkersBuilt(ev, st) ==
    LET pending == DOMAIN st.contexts \ DOMAIN st.workers
    IN IF ~st.ok \/ pending = {} THEN st ELSE WorkersBuilt(ev, WorkerBuilt(ev, st, CHOOSE f \in pending : TRUE))
FusionFrom(ev, producer) ==
    WorkersBuilt(ev, [ok |-> TRUE, value |-> AtomValue(Wildcard, <<"int">>), out |-> <<>>, env |-> <<>>,
                      contexts |-> producer :> <<>>, types |-> <<>>, workers |-> <<>>])

-----------------------------------------------------------------------------
(* The producer's call and the other names of its result go, and its       *)
(* application becomes the call of the worker.                             *)
Combined == "+d"
RECURSIVE RedirectedBlock(_, _, _)
RedirectedBinding(x, d, here, b, f) ==
    CASE here /\ OriginIn(x, BoundTo(b)) = d.result -> <<>>
      [] here /\ b.operation.kind = "call" /\ Site(f, b) = d.consumer ->
           <<ProductBinding(Combined, <<d.given, d.argument>>), [b EXCEPT !.operation.args = <<WorkerOf(d.producer), Combined>>]>>
      [] OTHER -> <<[b EXCEPT !.operation = IF "blocks" \in DOMAIN @
                                            THEN [@ EXCEPT !.blocks = [i \in DOMAIN @ |-> RedirectedBlock(x, d, @[i])]] ELSE @]>>
RedirectedBlock(x, d, block) ==
    LET here == \E b \in ToSet(block.bindings) : b.pattern = <<d.result>>
    IN [block EXCEPT !.bindings = FlattenSeq([i \in DOMAIN @ |-> RedirectedBinding(x, d, here, @[i], d.consumer[1])])]

(* The applications that become the worker's call: one, or nothing does.   *)
RedirectedCalls(c, d) ==
    UNION {UNION {{<<block, i>> : i \in {i \in DOMAIN block.bindings :
                                           /\ block.bindings[i].operation.kind = "call"
                                           /\ Site(d.consumer[1], block.bindings[i]) = d.consumer}} :
                    block \in {block \in FunctionBlocks(c.functions[f]) :
                                 \E b \in ToSet(block.bindings) : b.pattern = <<d.result>>}} : f \in DOMAIN c.functions}

WithFusion(c, x, d, built) ==
    IF ~built.ok \/ Cardinality(RedirectedCalls(c, d)) # 1 THEN c
    ELSE [c EXCEPT
          !.functions = [g \in {WorkerOf(f) : f \in DOMAIN built.workers} |->
                            built.workers[CHOOSE f \in DOMAIN built.workers : WorkerOf(f) = g]]
                          @@ [f \in DOMAIN @ |-> [@[f] EXCEPT !.body = RedirectedBlock(x, d, @),
                                                             !.joins = [i \in DOMAIN @ |-> [@[i] EXCEPT !.body = RedirectedBlock(x, d, @)]]]],
          !.types = (Combined :> TypesOf(c, <<d.given, d.argument>>)) @@ built.types @@ @]

FusedAs(c, x, p, q, creators) ==
    IF ~IsAdmitted(c, x, p, q, creators) THEN c
    ELSE WithFusion(c, x, q.demand,
                    FusionFrom([c |-> c, slice |-> q.slice, targets |-> SingleReach(p, q), demanded |-> TypeOf(c, q.demand.argument)],
                               q.demand.producer))
FusedPlan(c, x, p, q) == FusedAs(c, x, p, q, Creators(p, q))
FusedDemand(c, x, p, d) == FusedPlan(c, x, p, PlanOf(c, x, p, d, StepsOf(c, x)))
FusedDemands(c, x, demands) == IF Cardinality(demands) # 1 THEN c ELSE FusedDemand(c, x, Lower(c), CHOOSE d \in demands : TRUE)
FusedIndexed(c, x) == FusedDemands(c, x, Demands(c, x))
Fused(c) == FusedIndexed(c, OriginIndex(c))
=============================================================================

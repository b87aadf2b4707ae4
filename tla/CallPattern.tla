---------------------------- MODULE CallPattern ----------------------------
(***************************************************************************)
(* How closure programs are specialised to the functions they hand over    *)
(* (crates/mal-backend/src/call_pattern): a top-level function gets a copy *)
(* for each set of functions its call sites pass; a closure that reaches a *)
(* parameter, or is only called, hands its captures on as arguments.       *)
(*                                                                         *)
(* A use of a name is <<atom, kind, place, index, function>>: the atom is  *)
(* operand index of an operation of this kind, or a result; place is the   *)
(* name the operation binds, or the function it makes a closure of.        *)
(* What a pass makes up is named after where it is made.                   *)
(***************************************************************************)
EXTENDS CallPlan

MaxRounds == 8
CopyBudget(functions) == 4 * functions + 64

Renamed(names, x) == IF x \in DOMAIN names THEN names[x] ELSE x
RenamedAll(names, atoms) == [i \in DOMAIN atoms |-> Renamed(names, atoms[i])]
Marked(names, mark) == [x \in names |-> x \o mark]

-----------------------------------------------------------------------------
(* Blocks, bindings and names of a function.                               *)
Nested(b) == IF "blocks" \in DOMAIN b.operation THEN b.operation.blocks ELSE <<>>
RECURSIVE BlocksWithin(_)
BlocksWithin(block) ==
    {block} \union UNION {BlocksWithin(inner) : inner \in UNION {ToSet(Nested(b)) : b \in ToSet(block.bindings)}}
FunctionBlocks(f) == BlocksWithin(f.body) \union UNION {BlocksWithin(join.body) : join \in ToSet(f.joins)}
FunctionBindings(f) == UNION {ToSet(block.bindings) : block \in FunctionBlocks(f)}
ClosuresMade(f) == {b \in FunctionBindings(f) : b.operation.kind = "closure"}
ArmPatterns(b) == IF "patterns" \in DOMAIN b.operation THEN ToSet(b.operation.patterns) ELSE {}
Binders(f) ==
    UNION {NamesIn(pattern) : pattern \in {<<f.parameter>>} \union {join.pattern : join \in ToSet(f.joins)}
               \union UNION {{b.pattern} \union ArmPatterns(b) : b \in FunctionBindings(f)}}

CreatedBy(c, f) == {b.operation.function : b \in ClosuresMade(c.functions[f])}
TopLevel(c) == DOMAIN c.functions \ UNION {CreatedBy(c, f) : f \in DOMAIN c.functions}

IsFunctionLeaf(leaf) == leaf \notin {"int", "text", "buffer"}
IsFunctionType(type) == Len(type) = 1 /\ IsFunctionLeaf(type[1])
TypeOf(c, x) == IF x \in DOMAIN c.types THEN c.types[x]
                ELSE IF x \in DOMAIN c.functions THEN <<c.functions[x].signature>> ELSE <<"int">>
TypesOf(c, names) == FlattenSeq([i \in DOMAIN names |-> TypeOf(c, names[i])])

(* The type of functions from values of one type to values of another.     *)
Letter(leaf) == CASE leaf = "int" -> "n" [] leaf = "text" -> "t" [] leaf = "buffer" -> "b" [] OTHER -> "(" \o leaf \o ")"
Letters(type) == FoldLeft(LAMBDA text, leaf : text \o Letter(leaf), "", type)
SignatureOf(type, result) == Letters(type) \o ">" \o Letters(result)

-----------------------------------------------------------------------------
(* Changes to blocks.  A change renames atoms, binders and the functions   *)
(* closures are made of; sends calls elsewhere; empties or extends the     *)
(* captures of closures; spreads an element of a product into a product of *)
(* other atoms; and packs atoms before the argument of calls of a name.    *)
NoChange == [atoms |-> <<>>, binders |-> <<>>, created |-> <<>>, redirected |-> <<>>, emptied |-> {},
             extended |-> <<>>, spread |-> <<>>, packed |-> <<>>]

BoundTo(b) == IF Len(b.pattern) = 1 THEN b.pattern[1] ELSE Wildcard
IsSpread(change, b, i) == b.operation.kind = "product" /\ <<BoundTo(b), i>> \in DOMAIN change.spread
Packs(change, b) == b.operation.kind = "call" /\ b.operation.args[1] \in DOMAIN change.packed
Numbered(path, i) == path \o "." \o ToString(i)
ProductBinding(name, elements) == [pattern |-> <<name>>, operation |-> [kind |-> "product", args |-> elements]]

ChangedArgument(change, b, path, i) ==
    CASE IsSpread(change, b, i) -> Numbered(path, i)
      [] Packs(change, b) /\ i = 2 -> path
      [] i = 1 /\ b.operation.kind = "call" /\ b.operation.args \in DOMAIN change.redirected ->
           change.redirected[b.operation.args]
      [] OTHER -> Renamed(change.atoms, b.operation.args[i])

ChangedCaptures(change, b, args) ==
    LET f == b.operation.function
    IN IF f \in change.emptied THEN <<>>
       ELSE IF f \in DOMAIN change.extended THEN args \o change.extended[f] ELSE args

ChangedOperands(change, b, path) ==
    LET args == [i \in DOMAIN b.operation.args |-> ChangedArgument(change, b, path, i)]
    IN IF b.operation.kind = "closure" THEN ChangedCaptures(change, b, args) ELSE args

(* The products a changed binding needs before it.                         *)
Products(change, b, path) ==
    LET spread == SelectSeq([i \in DOMAIN b.operation.args |-> i], LAMBDA i : IsSpread(change, b, i))
    IN [n \in DOMAIN spread |-> ProductBinding(Numbered(path, spread[n]), change.spread[<<BoundTo(b), spread[n]>>])]
         \o (IF Packs(change, b)
             THEN <<ProductBinding(path, change.packed[b.operation.args[1]]
                                          \o <<Renamed(change.atoms, b.operation.args[2])>>)>>
             ELSE <<>>)

RECURSIVE ChangedBlock(_, _, _)
ChangedOperation(change, b, path) ==
    [field \in DOMAIN b.operation |->
        CASE field = "args" -> ChangedOperands(change, b, path)
          [] field = "function" -> Renamed(change.created, b.operation.function)
          [] field = "patterns" -> [i \in DOMAIN b.operation.patterns |-> RenamedAll(change.binders, b.operation.patterns[i])]
          [] field = "blocks" -> [i \in DOMAIN Nested(b) |-> ChangedBlock(change, Nested(b)[i], Numbered(path, i))]
          [] OTHER -> b.operation[field]]
ChangedBlock(change, block, path) ==
    LET changed(i) == LET b == block.bindings[i]
                          at == Numbered(path, i)
                      IN Products(change, b, at)
                           \o <<[pattern |-> RenamedAll(change.binders, b.pattern),
                                 operation |-> ChangedOperation(change, b, at)]>>
    IN [bindings |-> FlattenSeq([i \in DOMAIN block.bindings |-> changed(i)]),
        result |-> Renamed(change.atoms, block.result)]

ChangedFunction(change, f, path) ==
    [f EXCEPT !.parameter = Renamed(change.binders, @),
              !.body = ChangedBlock(change, @, path),
              !.joins = [i \in DOMAIN @ |-> [pattern |-> RenamedAll(change.binders, @[i].pattern),
                                             body |-> ChangedBlock(change, @[i].body, path \o "j" \o ToString(i))]]]

-----------------------------------------------------------------------------
(* Copies.  A copy of a function has copies of the closures it makes; in   *)
(* each, what it binds, its captures and itself have names of their own.   *)
Copied(c, root) == LeastFixed(DOMAIN c.functions, LAMBDA set : set \union UNION {CreatedBy(c, f) : f \in set}, {root})
OwnNames(f) == Binders(f) \union ToSet(f.captures)

CopyOf(f, id, made, mark) ==
    [ChangedFunction([NoChange EXCEPT !.atoms = Marked(OwnNames(f) \union {id}, mark),
                                      !.binders = Marked(Binders(f), mark), !.created = Marked(made, mark)], f, "")
         EXCEPT !.captures = RenamedAll(Marked(ToSet(@), mark), @)]

WithCopy(c, root, mark) ==
    LET made == Copied(c, root)
        names == UNION {OwnNames(c.functions[f]) : f \in made} \intersect DOMAIN c.types
        original(x, among) == CHOOSE y \in among : y \o mark = x
    IN [c EXCEPT
        !.functions = @ @@ [g \in {f \o mark : f \in made} |->
                              LET f == original(g, made) IN CopyOf(c.functions[f], f, made, mark)],
        !.types = @ @@ [x \in {n \o mark : n \in names} |-> c.types[original(x, names)]]]

(* The sites that pass a function something else than its first site does. *)
Keyed(p, flow, s) == <<Callee(p, s), FlowOf(p, flow, Argument(p, s))>>
SpecializedSites(c, p) ==
    {s \in Sites(p) : /\ Callee(p, s) \in TopLevel(c) \ {p.owner[s]}
                      /\ \E leaf \in ToSet(TypeOf(c, Parameter(p, Callee(p, s)))) : IsFunctionLeaf(leaf)}
RequestsAmong(p, sites, key) ==
    LET first(s) == CHOOSE t \in sites : /\ Callee(p, t) = Callee(p, s)
                                         /\ \A u \in sites : Callee(p, u) = Callee(p, s) => t <= u
        later == {s \in sites : key[s] # key[first(s)]}
    IN {{<<p.owner[t], Args(p, t)>> : t \in {t \in later : key[t] = key[s]}} : s \in later}
RequestsOf(c, p, flow, sites) == RequestsAmong(p, sites, Tabulated([s \in sites |-> Keyed(p, flow, s)]))
Requests(c, p) == RequestsOf(c, p, ClosureFlow(p), SpecializedSites(c, p))

(* Each request is granted while the program is within its budget.         *)
Granted(c, requests, budget) ==
    LET grant(acc, sites) ==
            LET f == (CHOOSE site \in sites : TRUE)[2][1]
                mark == "'" \o ToString(Cardinality(DOMAIN acc.program.functions))
            IN IF Cardinality(DOMAIN acc.program.functions) >= budget THEN acc
               ELSE [program |-> WithCopy(acc.program, f, mark),
                     redirected |-> [site \in sites |-> f \o mark] @@ acc.redirected]
    IN FoldLeft(grant, [program |-> c, redirected |-> <<>>], Listed(requests))

Redirected(c, granted) ==
    LET sitesOf(f) == {site \in DOMAIN granted.redirected : site[1] = f}
        change(f) == [NoChange EXCEPT !.redirected =
                        [args \in {site[2] : site \in sitesOf(f)} |-> granted.redirected[<<f, args>>]]]
    IN [granted.program EXCEPT !.functions = [f \in DOMAIN @ |->
            IF f \in DOMAIN c.functions THEN ChangedFunction(change(f), @[f], "") ELSE @[f]]]

RECURSIVE CopiedApart(_, _, _)
CopiedOnce(c, round, budget, requests) ==
    IF requests = {} \/ Cardinality(DOMAIN c.functions) >= budget THEN c
    ELSE CopiedApart(Redirected(c, Granted(c, requests, budget)), round + 1, budget)
CopiedApart(c, round, budget) ==
    IF round > MaxRounds THEN c ELSE CopiedOnce(c, round, budget, Requests(c, Lower(c)))

-----------------------------------------------------------------------------
(* What the lifts ask of a program: its uses, what names are bound to, and *)
(* what each name is another name of.                                      *)
Place(b) == IF b.operation.kind = "closure" THEN b.operation.function ELSE BoundTo(b)
UsesOf(c, f) ==
    UNION {{<<b.operation.args[i], b.operation.kind, Place(b), i, f>> : i \in DOMAIN b.operation.args} :
             b \in FunctionBindings(c.functions[f])}
      \union {<<block.result, "result", Wildcard, 0, f>> : block \in FunctionBlocks(c.functions[f])}

NamedOperations(bindings) ==
    LET named == {b \in bindings : BoundTo(b) # Wildcard}
    IN Tabulated([n \in {BoundTo(b) : b \in named} |-> (CHOOSE b \in named : BoundTo(b) = n).operation])
SourceOf(operations) ==
    LET source[n \in DOMAIN operations] ==
            IF operations[n].kind # "atom" THEN n
            ELSE IF operations[n].args[1] \in DOMAIN operations THEN source[operations[n].args[1]]
            ELSE operations[n].args[1]
    IN Tabulated(source)
IndexOf(c, operations) ==
    [operations |-> operations, source |-> SourceOf(operations),
     uses |-> UNION {UsesOf(c, f) : f \in DOMAIN c.functions},
     calls |-> {b.operation.args : b \in {b \in UNION {FunctionBindings(c.functions[f]) : f \in DOMAIN c.functions} :
                                            b.operation.kind = "call"}},
     made |-> UNION {ClosuresMade(c.functions[f]) : f \in DOMAIN c.functions}]
Index(c) == IndexOf(c, NamedOperations(UNION {FunctionBindings(c.functions[f]) : f \in DOMAIN c.functions}))

SourceIn(x, atom) == Renamed(x.source, atom)
IsCallee(use) == use[2] = "call" /\ use[4] = 1
UsesFrom(x, origin) == {use \in x.uses : SourceIn(x, use[1]) = origin}
RefersToItself(x, f) == \E use \in x.uses : use[1] = f /\ use[5] = f
MadeOf(x, f) == {b \in x.made : b.operation.function = f}

-----------------------------------------------------------------------------
(* Lifting: captures become leading fields of the parameter.               *)
LiftedName(x, tag) == x \o "/" \o tag
LiftedParameter(f, tag) == LiftedName(f, tag) \o ".p"
ParameterType(c, f) == IF c.functions[f].parameter = Wildcard THEN <<"int">> ELSE c.types[c.functions[f].parameter]
LiftedType(c, f) == TypesOf(c, c.functions[f].captures) \o ParameterType(c, f)
LiftedSignature(c, f) == SignatureOf(LiftedType(c, f), c.functions[f].result)

WithoutCaptures(c, f, changed, tag) ==
    [changed EXCEPT !.parameter = LiftedParameter(f, tag), !.captures = <<>>, !.signature = LiftedSignature(c, f),
                    !.body.bindings = <<[pattern |-> [i \in DOMAIN changed.captures |-> LiftedName(changed.captures[i], tag)]
                                                        \o <<changed.parameter>>,
                                         operation |-> [kind |-> "atom", args |-> <<LiftedParameter(f, tag)>>]]>> \o @]

CapturesOf(c, targets) == UNION {ToSet(c.functions[f].captures) : f \in targets}
LiftedTypes(c, targets, tag) ==
    [x \in {LiftedName(y, tag) : y \in CapturesOf(c, targets)} |->
        c.types[CHOOSE y \in CapturesOf(c, targets) : LiftedName(y, tag) = x]]
      @@ [x \in {LiftedParameter(f, tag) : f \in targets} |->
            LiftedType(c, CHOOSE f \in targets : LiftedParameter(f, tag) = x)]

(* The types after a change: those given, and those of products, which     *)
(* follow their elements.                                                  *)
Retyped(c, changed, given) ==
    LET operations == NamedOperations(UNION {FunctionBindings(changed.functions[f]) : f \in DOMAIN changed.functions})
        products == {n \in DOMAIN operations : operations[n].kind = "product"}
        type[n \in products] ==
            FlattenSeq([i \in DOMAIN operations[n].args |->
                LET x == operations[n].args[i]
                IN IF x \in DOMAIN given THEN given[x] ELSE IF x \in products THEN type[x] ELSE TypeOf(changed, x)])
    IN [changed EXCEPT !.types = type @@ given @@ @]

(* The program with the targets lifted and its blocks changed.             *)
LiftedProgram(c, targets, change, tag) ==
    LET full == [change EXCEPT !.atoms = [x \in CapturesOf(c, targets) |-> LiftedName(x, tag)] @@ @, !.emptied = targets]
        changed(f) == ChangedFunction(full, c.functions[f], LiftedName(f, tag))
    IN [c EXCEPT !.functions = [f \in DOMAIN @ |->
            IF f \in targets THEN WithoutCaptures(c, f, changed(f), tag) ELSE changed(f)]]

-----------------------------------------------------------------------------
(* Closures that reach a parameter.                                        *)
(* The leaf of a product that an atom names, followed through other names  *)
(* and the products it is an element of; nothing if it is made elsewhere.  *)
Unresolved == [leaf |-> Wildcard, at |-> <<Wildcard, 0>>, read |-> {}]
RECURSIVE Resolved(_, _, _, _, _)
ResolvedElement(c, x, atom, elements, k, read) ==
    LET i == CHOOSE i \in DOMAIN elements :
                 k \in Offset(c.types, elements, i) .. Offset(c.types, elements, i) + Width(c.types, elements[i]) - 1
    IN IF Width(c.types, elements[i]) = 1 THEN [leaf |-> elements[i], at |-> <<atom, i>>, read |-> read]
       ELSE Resolved(c, x, elements[i], k - Offset(c.types, elements, i), read)
Resolved(c, x, atom, k, read) ==
    IF atom \notin DOMAIN x.operations THEN Unresolved
    ELSE LET operation == x.operations[atom]
         IN CASE operation.kind = "atom" -> Resolved(c, x, operation.args[1], k, read \union {atom})
              [] operation.kind = "product" -> ResolvedElement(c, x, atom, operation.args, k, read \union {atom})
              [] OTHER -> Unresolved

(* A capture of a function, and its other names there, that are only       *)
(* called.                                                                 *)
CaptureNames(c, x, g, capture) ==
    {capture} \union {n \in DOMAIN x.source : x.source[n] = capture /\ n \in Binders(c.functions[g])}
OnlyCalled(x, g, names) ==
    LET uses == {use \in x.uses : use[5] = g /\ use[1] \in names}
    IN (\E use \in uses : IsCallee(use)) /\ \A use \in uses : IsCallee(use) \/ (use[2] = "atom" /\ use[3] \in names)

(* The functions that capture the callback, at which index.                *)
NestedUses(c, x, callback) ==
    LET captures(g) == c.functions[g].captures
        holds(g, i) == /\ IsFunctionType(c.types[captures(g)[i]])
                       /\ MadeOf(x, g) # {}
                       /\ \A b \in MadeOf(x, g) : SourceIn(x, b.operation.args[i]) = callback
                       /\ OnlyCalled(x, g, CaptureNames(c, x, g, captures(g)[i]))
    IN UNION {{<<g, i>> : i \in {i \in DOMAIN captures(g) : holds(g, i)}} : g \in DOMAIN c.functions}

HostEscapes(x, host) == \E use \in x.uses : use[1] = host /\ ~IsCallee(use)
HostLeaves(c, x, host, k) == {Resolved(c, x, args[2], k, {}) : args \in {args \in x.calls : args[1] = host}}
IsCreator(x, leaf) ==
    /\ SourceIn(x, leaf) \in DOMAIN x.operations
    /\ x.operations[SourceIn(x, leaf)].kind = "closure"
    /\ x.operations[SourceIn(x, leaf)].args # <<>>

(* What a candidate would change: callback, the k-th leaf of the host's    *)
(* parameter, always is itself or a closure that creators make.            *)
CandidateOf(x, host, parameter, callback, k, leaves, nested) ==
    LET handed == {l \in leaves : l.leaf # callback}
        creators == {SourceIn(x, l.leaf) : l \in handed}
        made(n) == x.operations[n]
        replaced == {l.at : l \in handed}
    IN [host |-> host, parameter |-> parameter, callback |-> callback, at |-> k,
        creators |-> creators,
        targets |-> {made(n).function : n \in {n \in creators : n \in DOMAIN x.operations /\ IsCreator(x, n)}},
        replaced |-> [at \in replaced |-> made((CHOOSE l \in handed : l.at = at).leaf).args],
        forwarded |-> {l.at : l \in leaves \ handed},
        nested |-> nested,
        values |-> {host, parameter, callback} \union creators \union UNION {l.read : l \in leaves}]

LeavesAdmitted(x, callback, leaves) ==
    \A l \in leaves : /\ l.leaf # Wildcard
                      /\ l.leaf = callback \/ (SourceIn(x, l.leaf) # callback /\ IsCreator(x, l.leaf))

UsesAdmitted(x, d) ==
    /\ \A use \in UsesFrom(x, d.callback) :
          \/ IsCallee(use) /\ use[1] = d.callback
          \/ use[2] = "product" /\ <<use[3], use[4]>> \in d.forwarded
          \/ use[2] = "closure" /\ <<use[3], use[4]>> \in d.nested
    /\ \A n \in d.creators : \A use \in UsesFrom(x, n) : use[2] = "product" /\ <<use[3], use[4]>> \in DOMAIN d.replaced

TargetAdmitted(c, x, d, target) ==
    /\ c.functions[target].captures # <<>>
    /\ ~RefersToItself(x, target)
    /\ \A at \in DOMAIN d.replaced : TypesOf(c, d.replaced[at]) = TypesOf(c, c.functions[target].captures)
    /\ {BoundTo(b) : b \in {b \in MadeOf(x, target) : b.operation.args # <<>>}} \ {Wildcard} = d.creators

Admitted(c, x, d) ==
    /\ Cardinality(d.targets) = 1
    /\ \E target \in d.targets : TargetAdmitted(c, x, d, target)
    /\ d.nested # {} \/ \E use \in UsesFrom(x, d.callback) : IsCallee(use)
    /\ UsesAdmitted(x, d)

CandidateAt(c, x, host, callback, k, leaves) ==
    IF HostEscapes(x, host) \/ ~LeavesAdmitted(x, callback, leaves) THEN {}
    ELSE {d \in {CandidateOf(x, host, c.functions[host].parameter, callback, k, leaves, NestedUses(c, x, callback))} :
            Admitted(c, x, d)}

(* The leaves of its parameter that a function takes apart in its body.    *)
ParameterCallbacks(c, host) ==
    LET taken == {b \in ToSet(c.functions[host].body.bindings) :
                    b.operation.kind = "atom" /\ b.operation.args = <<c.functions[host].parameter>> /\ Len(b.pattern) > 1}
    IN UNION {{<<b.pattern[i], Offset(c.types, b.pattern, i)>> :
                 i \in {i \in DOMAIN b.pattern : b.pattern[i] # Wildcard /\ IsFunctionType(c.types[b.pattern[i]])}} : b \in taken}

CandidatesIn(c, x, host) ==
    UNION {CandidateAt(c, x, host, callback[1], callback[2], HostLeaves(c, x, host, callback[2])) :
             callback \in ParameterCallbacks(c, host)}

(* A candidate whose callback is captured goes alone, the others together  *)
(* as far as they have nothing in common.                                  *)
Footprint(d) == d.values \union d.targets
Chosen(candidates) ==
    LET alone == {d \in candidates : d.nested # {}}
        apart(chosen, d) == IF \A e \in ToSet(chosen) : Footprint(d) \intersect Footprint(e) = {} THEN Append(chosen, d) ELSE chosen
    IN IF alone # {} THEN <<CHOOSE d \in alone : TRUE>> ELSE FoldLeft(apart, <<>>, Listed(candidates))
FoundWith(c, x) == Chosen(UNION {CandidatesIn(c, x, host) : host \in {f \in TopLevel(c) : c.functions[f].parameter # Wildcard}})

TargetOf(d) == CHOOSE target \in d.targets : TRUE
HandedCaptures(c, d, tag) == [i \in DOMAIN c.functions[TargetOf(d)].captures |-> Numbered(LiftedName(d.callback, tag), i)]
NestedCaptures(c, d, g, tag) == [i \in DOMAIN c.functions[TargetOf(d)].captures |-> Numbered(LiftedName(g, tag) \o ".c", i)]

ParameterChange(c, x, d, tag) ==
    LET handed == HandedCaptures(c, d, tag)
        packs(g, i) == [n \in CaptureNames(c, x, g, c.functions[g].captures[i]) |-> NestedCaptures(c, d, g, tag)]
        nested == {q[1] : q \in d.nested}
    IN [NoChange EXCEPT
        !.spread = d.replaced @@ [at \in d.forwarded |-> handed],
        !.extended = [g \in nested |-> handed],
        !.packed = (d.callback :> handed)
                     @@ FoldSet(LAMBDA q, acc : packs(q[1], q[2]) @@ acc, <<>>, d.nested)]

(* The host takes the captures in the callback's place and makes the       *)
(* closure, which has none, itself.                                        *)
TakenApart(b, d, handed) ==
    IF b.operation.kind = "atom" /\ b.operation.args = <<d.parameter>> /\ d.callback \in ToSet(b.pattern)
    THEN <<[b EXCEPT !.pattern = FlattenSeq([i \in DOMAIN @ |-> IF @[i] = d.callback THEN handed ELSE <<@[i]>>])],
           [pattern |-> <<d.callback>>, operation |-> [kind |-> "closure", function |-> TargetOf(d), args |-> <<>>]]>>
    ELSE <<b>>

HostType(c, d) ==
    LET type == c.types[d.parameter]
    IN SubSeq(type, 1, d.at) \o TypesOf(c, c.functions[TargetOf(d)].captures) \o SubSeq(type, d.at + 2, Len(type))

WithHost(c, changed, d, tag) ==
    [changed EXCEPT !.functions[d.host].signature = SignatureOf(HostType(c, d), changed.functions[d.host].result),
                    !.functions[d.host].body.bindings =
                        FlattenSeq([i \in DOMAIN @ |-> TakenApart(@[i], d, HandedCaptures(c, d, tag))]),
                    !.functions = [g \in DOMAIN @ |->
                        IF \E q \in d.nested : q[1] = g THEN [@[g] EXCEPT !.captures = @ \o NestedCaptures(c, d, g, tag)] ELSE @[g]]]

CaptureTypes(c, d, names) == [n \in ToSet(names) |-> c.types[c.functions[TargetOf(d)].captures[CHOOSE i \in DOMAIN names : names[i] = n]]]
ParameterTypes(c, x, d, tag) ==
    LET closure == <<LiftedSignature(c, TargetOf(d))>>
        nested(q) == [n \in CaptureNames(c, x, q[1], c.functions[q[1]].captures[q[2]]) |-> closure]
                       @@ CaptureTypes(c, d, NestedCaptures(c, d, q[1], tag))
    IN (d.parameter :> HostType(c, d))
         @@ [n \in {d.callback} \union d.creators |-> closure]
         @@ CaptureTypes(c, d, HandedCaptures(c, d, tag))
         @@ FoldSet(LAMBDA q, acc : nested(q) @@ acc, <<>>, d.nested)

Merged(a, b) == [field \in DOMAIN a |-> IF field = "emptied" THEN a[field] \union b[field] ELSE a[field] @@ b[field]]
LiftParameters(c, x, chosen, tag) ==
    LET targets == {TargetOf(d) : d \in ToSet(chosen)}
        change == FoldLeft(LAMBDA acc, d : Merged(acc, ParameterChange(c, x, d, tag)), NoChange, chosen)
        hosts == FoldLeft(LAMBDA acc, d : WithHost(c, acc, d, tag), LiftedProgram(c, targets, change, tag), chosen)
        given == FoldLeft(LAMBDA acc, d : ParameterTypes(c, x, d, tag) @@ acc, LiftedTypes(c, targets, tag), chosen)
    IN Retyped(c, hosts, given)

RECURSIVE ParametersLifted(_, _)
LiftedWith(c, x, round, chosen) ==
    IF chosen = <<>> THEN c ELSE ParametersLifted(LiftParameters(c, x, chosen, ToString(round)), round + 1)
LiftedFrom(c, x, round) == LiftedWith(c, x, round, FoundWith(c, x))
ParametersLifted(c, round) == LiftedFrom(c, Index(c), round)

-----------------------------------------------------------------------------
(* Closures that are only called where they are made: every call hands     *)
(* them what they captured.  A function whose closure is bound to no name  *)
(* or that refers to itself keeps its captures.                            *)
MadeAs(x) == {n \in DOMAIN x.source : /\ x.source[n] \in DOMAIN x.operations
                                      /\ x.operations[x.source[n]].kind = "closure"}
OnlyApplied(x, n) ==
    /\ \E use \in UsesFrom(x, n) : IsCallee(use)
    /\ \A use \in UsesFrom(x, n) : IsCallee(use) \/ (use[2] = "atom" /\ use[3] \in MadeAs(x))
Lifted(c, x, f) ==
    /\ \E b \in MadeOf(x, f) : b.operation.args # <<>>
    /\ ~RefersToItself(x, f)
    /\ \A b \in MadeOf(x, f) : IF BoundTo(b) = Wildcard THEN b.operation.args = <<>> ELSE OnlyApplied(x, BoundTo(b))

LiftDirect(c, x, targets, tag) ==
    LET names == {n \in MadeAs(x) : x.operations[x.source[n]].function \in targets}
        change == [NoChange EXCEPT !.packed = [n \in names |-> x.operations[x.source[n]].args]]
        closures == [n \in names |-> <<LiftedSignature(c, x.operations[x.source[n]].function)>>]
    IN Retyped(c, LiftedProgram(c, targets, change, tag), closures @@ LiftedTypes(c, targets, tag))

DirectLiftedFrom(c, x) == LiftDirect(c, x, {f \in DOMAIN c.functions : Lifted(c, x, f)}, "d")
DirectLifted(c) == DirectLiftedFrom(c, Index(c))

Specialized(c) ==
    DirectLifted(ParametersLifted(CopiedApart(c, 1, CopyBudget(Cardinality(DOMAIN c.functions))), 1))
=============================================================================

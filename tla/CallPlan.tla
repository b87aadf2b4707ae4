------------------------------ MODULE CallPlan ------------------------------
(***************************************************************************)
(* How the applications of a control program run (crates/mal-backend/src/  *)
(* execution): which functions each may reach, which become jumps, native  *)
(* calls or region transitions, and what a suspended caller's frame holds. *)
(*                                                                         *)
(* Every plan is a function of the program and of the plans before it, as  *)
(* in lower(): applications a, optimizations o, regions r, calls k and     *)
(* frames f.  A set of techniques says which optional decisions are made.  *)
(***************************************************************************)
EXTENDS ControlProgram

Techniques == {"NativeRecursion", "DirectCall", "SelfTail", "TailForwarder",
               "UniqueCapture", "FramePassThrough", "CallPattern", "ContinuationSpecialization"}
Nothing == "_"

Sites(p) == {s \in ProgramStates(p) : Kind(p, s) \in {"call", "tailcall"}}
Callee(p, s) == Args(p, s)[1]
Argument(p, s) == Args(p, s)[2]
IsSelfClosure(p, s, atom) == atom = p.owner[s]

AllBindings(p) == UNION {{Bindings(p, s)[i] : i \in DOMAIN Bindings(p, s)} : s \in ProgramStates(p)}

(* What a name bound by itself is bound to; names are unique.              *)
OperationOf(p) ==
    LET single == {b \in AllBindings(p) : Len(b.pattern) = 1 /\ b.pattern[1] # Wildcard}
    IN Tabulated([n \in {b.pattern[1] : b \in single} |-> (CHOOSE b \in single : b.pattern[1] = n).operation])

-----------------------------------------------------------------------------
(* The closure a name is another name of, Nothing for any other value.     *)
ClosureNamed(p) ==
    LET operation == OperationOf(p)
        creator[n \in DOMAIN operation] ==
            CASE operation[n].kind = "closure" -> n
              [] operation[n].kind = "atom" ->
                   IF operation[n].args[1] \in DOMAIN operation THEN creator[operation[n].args[1]] ELSE Nothing
              [] OTHER -> Nothing
    IN Tabulated([n \in {n \in DOMAIN operation : creator[n] # Nothing} |-> creator[n]])

(* Atoms used as callees, and atoms used in any other way; giving a        *)
(* closure another name is no use.                                         *)
CalleeUses(p) == {Callee(p, s) : s \in Sites(p)}
OtherUses(p, named) ==
    LET alias(b) == Len(b.pattern) = 1 /\ b.pattern[1] \in DOMAIN named /\ b.operation.kind = "atom"
    IN UNION {ToSet(b.operation.args) : b \in {b \in AllBindings(p) : ~alias(b)}}
         \union {Argument(p, s) : s \in Sites(p)}
         \union UNION {ToSet(Args(p, s)) : s \in ProgramStates(p) \ Sites(p)}

(* Names of closures that are only ever applied, and what they apply.      *)
DirectClosures(p) ==
    LET named == ClosureNamed(p)
        created == [n \in DOMAIN named |-> OperationOf(p)[named[n]].function]
        mentions(atoms, x) == \E n \in atoms : IF n \in DOMAIN named THEN named[n] = x ELSE n = created[x]
        callees == CalleeUses(p)
        others == OtherUses(p, named)
        only == {x \in DOMAIN named : named[x] = x /\ mentions(callees, x) /\ ~mentions(others, x)}
    IN Tabulated([n \in {n \in DOMAIN named : named[n] \in only} |-> created[n]])

DirectTarget(p, closures, s) ==
    IF Callee(p, s) \in Functions(p) THEN Callee(p, s)
    ELSE IF Callee(p, s) \in DOMAIN closures THEN closures[Callee(p, s)] ELSE Nothing

(* The functions of the type of a callee.                                  *)
Compatible(p, s) ==
    {f \in Functions(p) : Callee(p, s) = f
                          \/ (Callee(p, s) \notin Functions(p) /\ p.types[Callee(p, s)] = <<p.functions[f].signature>>)}

-----------------------------------------------------------------------------
(* Closure flow: pairs of a place and a function that may reach it.  The   *)
(* places are names, captures, the results of functions, and all elements  *)
(* of Buffers together.                                                    *)
BufferPlace == <<"buffer">>
ResultPlace(f) == <<"return", f>>
AtPlace(flow, place) == {pair[2] : pair \in {q \in flow : q[1] = place}}
FlowOf(p, flow, atom) == IF atom \in Functions(p) THEN {atom} ELSE AtPlace(flow, <<atom>>)
FlowOfAll(p, flow, atoms) == UNION {FlowOf(p, flow, atom) : atom \in atoms}

(* Whether a value of the name's type may hold the function.               *)
HoldsFunction(p, n, f) ==
    \E i \in DOMAIN p.types[n] :
       p.types[n][i] # "int" /\ (Len(p.types[n]) = 1 => p.types[n][i] = p.functions[f].signature)
Assigned(p, pattern, functions) ==
    {<<<<q[1]>>, q[2]>> : q \in {q \in ManagedIn(p, pattern) \X functions : HoldsFunction(p, q[1], q[2])}}

Captured(p, flow, operation) ==
    UNION {{<<<<p.functions[operation.function].captures[i]>>, f>> : f \in FlowOf(p, flow, operation.args[i])} :
             i \in DOMAIN operation.args}
OperationFlow(p, flow, b) ==
    CASE b.operation.kind \in {"atom", "inject", "product"} ->
           Assigned(p, b.pattern, FlowOfAll(p, flow, ToSet(b.operation.args)))
      [] b.operation.kind = "closure" ->
           Assigned(p, b.pattern, {b.operation.function}) \union Captured(p, flow, b.operation)
      [] b.operation.kind = "get" -> Assigned(p, b.pattern, AtPlace(flow, BufferPlace))
      [] b.operation.kind \in {"new", "put"} -> {BufferPlace} \X FlowOfAll(p, flow, ToSet(b.operation.args))
      [] OTHER -> {}

ReachedTargets(p, flow, s) == FlowOf(p, flow, Callee(p, s)) \intersect Compatible(p, s)
ArgumentFlow(p, flow, s) ==
    UNION {Assigned(p, <<Parameter(p, f)>>, FlowOf(p, flow, Argument(p, s))) : f \in ReachedTargets(p, flow, s)}
ResultFlow(p, flow, s) == UNION {AtPlace(flow, ResultPlace(f)) : f \in ReachedTargets(p, flow, s)}

TerminatorFlow(p, flow, s) ==
    LET value == FlowOf(p, flow, Args(p, s)[1])
    IN CASE Kind(p, s) = "return" -> {ResultPlace(p.owner[s])} \X value
         [] Kind(p, s) \in {"jump", "case"} ->
              UNION {Assigned(p, p.states[t].input, value) : t \in Successors(p.states, s)}
         [] Kind(p, s) = "call" ->
              ArgumentFlow(p, flow, s) \union Assigned(p, p.states[Targets(p, s)[1]].input, ResultFlow(p, flow, s))
         [] Kind(p, s) = "tailcall" ->
              ArgumentFlow(p, flow, s) \union ({ResultPlace(p.owner[s])} \X ResultFlow(p, flow, s))
         [] OTHER -> {}

FlowPass(p, flow) ==
    flow \union UNION {OperationFlow(p, flow, b) : b \in AllBindings(p)}
         \union UNION {TerminatorFlow(p, flow, s) : s \in ProgramStates(p)}

ClosureFlow(p) ==
    LET places == {<<n>> : n \in DOMAIN p.types} \union {ResultPlace(f) : f \in Functions(p)} \union {BufferPlace}
    IN LeastFixed(places \X Functions(p), LAMBDA flow : FlowPass(p, flow), {})

(* Each site's caller, syntactic target and possible targets; a callee the *)
(* flow does not reach keeps every function of its type.                   *)
ApplicationGraph(p) ==
    LET closures == DirectClosures(p)
        flow == ClosureFlow(p)
        reached(s) == {f \in Compatible(p, s) : <<<<Callee(p, s)>>, f>> \in flow}
        direct == Tabulated([s \in Sites(p) |-> DirectTarget(p, closures, s)])
    IN [direct |-> direct,
        targets |-> Tabulated([s \in Sites(p) |->
            IF direct[s] # Nothing THEN {direct[s]}
            ELSE IF reached(s) # {} THEN reached(s) ELSE Compatible(p, s)])]

-----------------------------------------------------------------------------
SitesFrom(p, f) == {s \in Sites(p) : p.owner[s] = f}
CalledBy(p, a, f) == UNION {a.targets[s] : s \in SitesFrom(p, f)}
Closure(p, succ(_), base) == LeastFixed(Functions(p), LAMBDA s : s \union UNION {succ(f) : f \in s}, base)
ReachedFrom(p, a, f) == Closure(p, LAMBDA g : CalledBy(p, a, g), CalledBy(p, a, f))
IsRecursive(p, a, f) == f \in ReachedFrom(p, a, f)

(* A tail call of a forwarder, which takes a pair apart and applies its    *)
(* first part to its second, of a pair whose first part is the caller:     *)
(* the argument such a site hands to the caller itself.                    *)
ForwardedArgument(p, s, forwarder) ==
    LET body == p.functions[forwarder].body
        pairs == {b \in ToSet(Bindings(p, s)) : b.pattern = <<Argument(p, s)>> /\ b.operation.kind = "product"}
    IN IF /\ Kind(p, s) = "tailcall"
          /\ Len(body.bindings) = 2
          /\ Len(body.bindings[1].pattern) = 2
          /\ Wildcard \notin ToSet(body.bindings[1].pattern)
          /\ body.bindings[1].operation.kind = "atom"
          /\ body.bindings[1].operation.args = <<Parameter(p, forwarder)>>
          /\ body.bindings[2].operation.kind = "call"
          /\ body.bindings[2].operation.args = body.bindings[1].pattern
          /\ \E b \in pairs : Len(b.operation.args) = 2 /\ IsSelfClosure(p, s, b.operation.args[1])
       THEN (CHOOSE b \in pairs : TRUE).operation.args[2] ELSE Nothing

TailForwarders(p, a) ==
    LET argument == [s \in {t \in Sites(p) : a.direct[t] # Nothing} |-> ForwardedArgument(p, s, a.direct[s])]
    IN Tabulated([s \in {t \in DOMAIN argument : argument[t] # Nothing} |-> argument[s]])

SelfTails(p) == {s \in Sites(p) : Kind(p, s) = "tailcall" /\ IsSelfClosure(p, s, Callee(p, s))}

SingleTargets(a) ==
    LET known == {s \in DOMAIN a.targets : a.direct[s] # Nothing \/ Cardinality(a.targets[s]) = 1}
    IN Tabulated([s \in known |-> CHOOSE f \in a.targets[s] : TRUE])

(* Captures that may be moved out of their environment: read once, first   *)
(* thing, by a function the entry invokes once.                            *)
InvocationSites(p, a, f) == {s \in Sites(p) : f \in a.targets[s]}
IsFinalEntry(p, a) == ~IsRecursive(p, a, p.entry) /\ InvocationSites(p, a, p.entry) = {}

InvokedOnceByEntry(p, a, f) ==
    /\ Cardinality(InvocationSites(p, a, f)) = 1
    /\ \A s \in InvocationSites(p, a, f) :
          /\ p.owner[s] = p.entry
          /\ Callee(p, s) \notin {p.owner[s]} \union ToSet(p.functions[p.entry].captures)
          /\ Kind(p, s) = "call" => Callee(p, s) \notin p.live[Targets(p, s)[1]]

ReadsOf(p, s, x) ==
    Cardinality({<<i, j>> \in (DOMAIN Bindings(p, s)) \X (1 .. 3) :
                    j \in DOMAIN Bindings(p, s)[i].operation.args /\ Bindings(p, s)[i].operation.args[j] = x})
      + Cardinality({j \in DOMAIN Args(p, s) : Args(p, s)[j] = x})
ReadOnceAtEntry(p, f, x) ==
    /\ IsManaged(p, x)
    /\ \E b \in ToSet(Bindings(p, p.entries[f])) : b.operation.kind = "atom" /\ b.operation.args = <<x>>
    /\ MapThenSumSet(LAMBDA s : ReadsOf(p, s, x), p.bodies[f]) = 1

UniqueCaptures(p, a) ==
    LET invoked == {f \in Functions(p) : IsFinalEntry(p, a) /\ ~IsRecursive(p, a, f) /\ InvokedOnceByEntry(p, a, f)}
    IN UNION {{x \in ToSet(p.functions[f].captures) : ReadOnceAtEntry(p, f, x)} : f \in invoked}

(* Pass-through: the names of a pattern that an argument hands on as they  *)
(* are, looking through aliases.                                           *)
ParameterPattern(p, f) ==
    LET entry == Bindings(p, p.entries[f])
        taken == {i \in DOMAIN entry : entry[i].operation.kind = "atom" /\ entry[i].operation.args = <<Parameter(p, f)>>}
    IN IF Parameter(p, f) = Wildcard \/ taken = {} THEN <<>> ELSE entry[Min(taken)].pattern

(* What each name is another name of.                                      *)
AliasedBy(p) ==
    LET operation == OperationOf(p)
        aliased(n) == /\ n \in DOMAIN operation
                      /\ operation[n].kind = "atom"
                      /\ operation[n].args[1] \in p.names
        sources[n \in p.names] == {n} \union (IF aliased(n) THEN sources[operation[n].args[1]] ELSE {})
    IN sources

ResolvesTo(p, sources, atom, n) == atom \in p.names /\ n \in sources[atom]

(* The elements of each product the atom names.                            *)
ProductElements(p, sources, atom) ==
    LET operation == OperationOf(p)
    IN {operation[n].args : n \in {n \in DOMAIN operation : operation[n].kind = "product"
                                                         /\ ResolvesTo(p, sources, atom, n)}}

(* Whether name n is what an argument holds from the leaf on.              *)
RECURSIVE HoldsAt(_, _, _, _, _), ElementHolds(_, _, _, _, _)
HoldsAt(p, sources, atom, leaf, n) ==
    \E elements \in ProductElements(p, sources, atom) : ElementHolds(p, sources, elements, leaf, n)
ElementHolds(p, sources, elements, leaf, n) ==
    \E i \in DOMAIN elements :
       LET within == leaf - Offset(p.types, elements, i)
       IN \/ within = 0 /\ ResolvesTo(p, sources, elements[i], n)
          \/ within \in 0 .. Width(p.types, elements[i]) - 1 /\ HoldsAt(p, sources, elements[i], within, n)

PassedFields(p, pattern, argument) ==
    LET sources == AliasedBy(p)
        passed(i) == IF Len(pattern) = 1 THEN ResolvesTo(p, sources, argument, pattern[1])
                     ELSE HoldsAt(p, sources, argument, Offset(p.types, pattern, i), pattern[i])
    IN {pattern[i] : i \in {j \in DOMAIN pattern : pattern[j] # Wildcard /\ passed(j)}}

(* A function whose callees lead back to it through another function.      *)
HasMutualRecursion(p, a, f) ==
    f \in Closure(p, LAMBDA g : CalledBy(p, a, g), UNION {CalledBy(p, a, g) : g \in CalledBy(p, a, f) \ {f}})

FramePassThrough(p, a) ==
    LET recursive(f) == {s \in SitesFrom(p, f) : f \in a.targets[s]}
        admitted == {f \in Functions(p) : /\ ~HasMutualRecursion(p, a, f)
                                          /\ recursive(f) # {}
                                          /\ \A s \in recursive(f) : a.targets[s] = {f}
                                          /\ ParameterPattern(p, f) # <<>>}
        preserved(f) == {n \in NamesIn(ParameterPattern(p, f)) :
                            \A s \in recursive(f) : n \in PassedFields(p, ParameterPattern(p, f), Argument(p, s))}
        framed == {s \in UNION {recursive(f) : f \in admitted} : Kind(p, s) = "call"}
    IN Tabulated([s \in framed |-> preserved(p.owner[s]) \intersect p.live[Targets(p, s)[1]]])

(* Mutant of CodePointerFree: one known application is taken for all.      *)
OnceKnown(p, a, direct) ==
    {f \in Functions(p) : \E s \in Sites(p) : f \in a.targets[s] /\ s \in DOMAIN direct}

(* Functions whose closures need no code address: every application that   *)
(* may reach them calls them by name.                                      *)
CodePointerFree(p, a, direct) ==
    {f \in Functions(p) : \A s \in Sites(p) : f \in a.targets[s] => s \in DOMAIN direct /\ direct[s] = f}

OptimizationPlan(p, a, enabled) ==
    LET forwarded == IF "TailForwarder" \in enabled THEN TailForwarders(p, a) ELSE <<>>
        direct == IF "DirectCall" \in enabled THEN SingleTargets(a) ELSE <<>>
    IN [forwarded |-> forwarded,
        fused |-> DOMAIN forwarded \union (IF "SelfTail" \in enabled THEN SelfTails(p) ELSE {}),
        direct |-> direct,
        codePointerFree |-> IF "DirectCall" \in enabled THEN CodePointerFree(p, a, direct) ELSE {},
        uniqueCaptures |-> IF "UniqueCapture" \in enabled THEN UniqueCaptures(p, a) ELSE {},
        passThrough |-> IF "FramePassThrough" \in enabled THEN FramePassThrough(p, a) ELSE <<>>]

-----------------------------------------------------------------------------
(* Regions: strongly connected functions of the calls that are not fused.  *)
(* A region is the set of its functions; {} stands for none.               *)
ContinuationTargets(p, a, o, f) == UNION {a.targets[s] : s \in SitesFrom(p, f) \ o.fused}
StronglyConnected(p, successors) ==
    LET reach == Tabulated([f \in Functions(p) |-> Closure(p, LAMBDA g : successors[g], successors[f])])
    IN Tabulated([f \in Functions(p) |-> {g \in reach[f] : f \in reach[g]}])

ControlRegions(p, a, o) ==
    LET region == StronglyConnected(p, Tabulated([f \in Functions(p) |-> ContinuationTargets(p, a, o, f)]))
        within(s) == a.targets[s] \intersect region[p.owner[s]]
    IN [function |-> region,
        site |-> Tabulated([s \in Sites(p) |->
            IF s \notin o.fused /\ within(s) # {} THEN region[p.owner[s]] ELSE {}]),
        targets |-> Tabulated([s \in Sites(p) |-> IF s \in o.fused THEN {} ELSE within(s)])]

CallMode(o, r, s) ==
    CASE s \in o.fused -> "DirectSelfTail"
      [] r.site[s] # {} -> IF s \in DOMAIN o.direct THEN "DirectRegion" ELSE "Dispatch"
      [] OTHER -> IF s \in DOMAIN o.direct THEN "Direct" ELSE "Dispatch"

IsDirectSelfCall(p, s) == Kind(p, s) = "call" /\ IsSelfClosure(p, s, Callee(p, s))

(* The region's sites need one machine for all its functions.              *)
RequiresCommonControl(p, r, modes, region) ==
    \E s \in Sites(p) : /\ r.site[s] = region
                        /\ \/ modes[s] = "Dispatch"
                           \/ modes[s] = "DirectRegion" /\ ~IsDirectSelfCall(p, s)

ControlCalls(p, o, r) ==
    LET modes == Tabulated([s \in Sites(p) |-> CallMode(o, r, s)])
        regions == {r.site[s] : s \in Sites(p)} \ {{}}
    IN [mode |-> modes,
        target |-> o.direct,
        common |-> {region \in regions : RequiresCommonControl(p, r, modes, region)}]

(* Values that may share the lifetime of the closure environment.          *)
EnvironmentAliases(p, o) ==
    LET captures == UNION {ToSet(p.functions[f].captures) : f \in Functions(p)}
        root(b) == /\ b.operation.kind = "atom"
                   /\ b.operation.args[1] \in captures \ o.uniqueCaptures
        roots == UNION {ManagedIn(p, b.pattern) : b \in {b \in AllBindings(p) : root(b)}}
    IN [roots |-> roots, tied |-> Derived(p, ProgramStates(p), roots)]

FrameOf(p, o, r, k, aliases, s) ==
    LET resume == Targets(p, s)[1]
    IN [resume |-> resume,
        fields |-> InOrder(p, p.live[resume]),
        passThrough |-> IF s \in DOMAIN o.passThrough THEN o.passThrough[s] ELSE {},
        environment |-> /\ p.environment[resume] \/ p.live[resume] \intersect aliases.tied # {}
                        /\ r.site[s] \in k.common]

(* The frame retired on every path to a site since control last resumed,   *)
(* whose storage the site's own frame may take over: the origins of a      *)
(* state are the resumed frames, or the entry, that reach it.              *)
AtEntry == 0
Origins(p, frames) ==
    LET given == {<<p.entries[f], AtEntry>> : f \in Functions(p)}
                 \union {<<frames[s].resume, s>> : s \in DOMAIN frames}
        passed(set) == set \union UNION {{<<t, q[2]>> : t \in Successors(p.states, q[1])} :
                                            q \in {q \in set : q[1] \notin DOMAIN frames}}
    IN LeastFixed(ProgramStates(p) \X ({AtEntry} \union DOMAIN frames), passed, given)

Replacements(p, frames) ==
    LET origins == Origins(p, frames)
        from(s) == {q[2] : q \in {q \in origins : q[1] = s}}
        reused == {s \in DOMAIN frames : Cardinality(from(s)) = 1 /\ AtEntry \notin from(s)}
    IN Tabulated([s \in reused |-> CHOOSE origin \in from(s) : TRUE])

(* Where an exit may resume a frame: in the same machine, and with the     *)
(* type of value the frame waits for.                                      *)
CalleeResult(p, a, s) == p.functions[CHOOSE f \in a.targets[s] : TRUE].result
ContinuationResult(p, a, s) ==
    IF Kind(p, s) = "return" THEN p.functions[p.owner[s]].result ELSE CalleeResult(p, a, s)

(* The machine that runs a frame's site: its region, or one function.      *)
SameMachine(p, r, k, x, s) ==
    \/ r.site[s] \notin k.common /\ p.owner[x] = p.owner[s]
    \/ r.site[s] \in k.common /\ r.site[s] = r.function[p.owner[x]]

ResumePairs(p, a, r, k, frames) ==
    LET exits == {s \in ProgramStates(p) :
                    \/ Kind(p, s) = "return"
                    \/ s \in DOMAIN frames /\ k.mode[s] = "Dispatch"
                    \/ Kind(p, s) = "tailcall" /\ k.mode[s] \in {"Direct", "Dispatch"}}
    IN {<<x, s>> \in exits \X DOMAIN frames :
          SameMachine(p, r, k, x, s) /\ ContinuationResult(p, a, x) = CalleeResult(p, a, s)}

ControlFrames(p, a, o, r, k) ==
    LET aliases == EnvironmentAliases(p, o)
        frames == Tabulated([s \in {t \in Sites(p) : Kind(p, t) = "call" /\ r.site[t] # {}} |->
                      FrameOf(p, o, r, k, aliases, s)])
    IN [frame |-> frames,
        resumes |-> ResumePairs(p, a, r, k, frames),
        replacement |-> Replacements(p, frames),
        aliases |-> aliases]

-----------------------------------------------------------------------------
(* Functions that also run their recursion on the native stack, the        *)
(* parameter fields every self edge preserves, and of those functions the  *)
(* ones whose managed fields all are: the first caller lends them to every *)
(* activation.  scalar names the fields a native activation is handed; the *)
(* others come from the context of the outermost one.                      *)
SelfEdges(p, k, f) ==
    {s \in SitesFrom(p, f) : \/ k.mode[s] = "DirectSelfTail"
                             \/ k.mode[s] = "DirectRegion" /\ k.target[s] = f /\ Kind(p, s) = "call"}
Preserved(p, k, f) ==
    {n \in NamesIn(ParameterPattern(p, f)) :
        \A s \in SelfEdges(p, k, f) : n \in PassedFields(p, ParameterPattern(p, f), Argument(p, s))}

IsNative(p, r, k, frames, f) ==
    LET framed == {s \in DOMAIN frames.frame : r.site[s] = {f}}
    IN /\ r.function[f] = {f} /\ {f} \notin k.common
       /\ framed # {}
       /\ \A s \in framed : k.mode[s] = "DirectRegion" /\ k.target[s] = f

ManagedFields(p, f) == ManagedIn(p, ParameterPattern(p, f))

(* The fields that vary, when they and only they can be handed on alone.   *)
VaryingFields(p, k, f) == NamesIn(ParameterPattern(p, f)) \ Preserved(p, k, f)
IsScalar(p, k, borrowed, f) ==
    LET fields == ParameterPattern(p, f)
    IN /\ fields # <<>> /\ Wildcard \notin ToSet(fields)
       /\ VaryingFields(p, k, f) # {} /\ VaryingFields(p, k, f) # NamesIn(fields)
       /\ ManagedFields(p, f) = {} \/ f \in borrowed

NativeRecursion(p, r, k, frames, enabled) ==
    LET native == {f \in Functions(p) : "NativeRecursion" \in enabled /\ IsNative(p, r, k, frames, f)}
        borrowed == {f \in native : ManagedFields(p, f) # {} /\ ManagedFields(p, f) \subseteq Preserved(p, k, f)}
        scalar == {f \in native : IsScalar(p, k, borrowed, f)}
    IN [functions |-> native,
        borrowed |-> borrowed,
        lenders |-> UNION {ManagedFields(p, f) : f \in borrowed},
        scalar |-> Tabulated([f \in scalar |-> VaryingFields(p, k, f)])]

(* Parameters that a fused self tail call may store straight into the      *)
(* names of their pattern, skipping the bindings that take it apart: every *)
(* managed name is handed on unchanged by every such site.                 *)
UseCount(p, n) == MapThenSumSet(LAMBDA s : ReadsOf(p, s, n), ProgramStates(p))

(* The entry's first binding takes the parameter apart; each further one   *)
(* that only renames a copied field is folded into the pattern.            *)
Renames(p, pattern, b) ==
    /\ b.operation.kind = "atom"
    /\ b.operation.args[1] \in NamesIn(pattern)
    /\ ~IsManaged(p, b.operation.args[1])
ReplaceBinding(pattern, b) ==
    [i \in DOMAIN pattern |-> IF pattern[i] = b.operation.args[1] THEN b.pattern[1] ELSE pattern[i]]
FoldedRenames(p, entry) ==
    LET extend[i \in 1 .. Len(entry)] ==
            IF i = 1 THEN [pattern |-> entry[1].pattern, count |-> 1, fits |-> TRUE]
            ELSE LET before == extend[i - 1]
                 IN IF before.count < i - 1 \/ ~Renames(p, before.pattern, entry[i]) THEN before
                    ELSE [pattern |-> ReplaceBinding(before.pattern, entry[i]), count |-> i,
                          fits |-> before.fits /\ UseCount(p, entry[i].operation.args[1]) = 1
                                               /\ Len(entry[i].pattern) = 1]
    IN extend[Len(entry)]

HandedTo(p, o, s) == IF s \in DOMAIN o.forwarded THEN o.forwarded[s] ELSE Argument(p, s)
ManagedPreserved(p, o, sites, parameter, fields) ==
    \A i \in DOMAIN fields :
       IF fields[i] = Wildcard THEN p.types[parameter][Offset(p.types, fields, i) + 1] = "int"
       ELSE IsManaged(p, fields[i]) => \A s \in sites : fields[i] \in PassedFields(p, fields, HandedTo(p, o, s))

SelfTailParameter(p, o, k, f) ==
    LET entry == Bindings(p, p.entries[f])
        sites == {s \in SitesFrom(p, f) : k.mode[s] = "DirectSelfTail"}
        folded == FoldedRenames(p, entry)
        admitted == /\ sites # {} /\ Parameter(p, f) # Wildcard
                    /\ entry # <<>> /\ entry[1].operation.kind = "atom"
                    /\ entry[1].operation.args = <<Parameter(p, f)>>
                    /\ folded.fits
                    /\ ManagedPreserved(p, o, sites, Parameter(p, f), entry[1].pattern)
    IN IF admitted THEN [pattern |-> folded.pattern, count |-> folded.count] ELSE [pattern |-> <<>>, count |-> 0]

SelfTailCandidates(p, o, k) ==
    LET parameter == Tabulated([f \in Functions(p) |-> SelfTailParameter(p, o, k, f)])
    IN Tabulated([f \in {g \in Functions(p) : parameter[g].pattern # <<>>} |-> parameter[f]])
=============================================================================

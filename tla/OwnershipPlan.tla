---------------------------- MODULE OwnershipPlan ----------------------------
(***************************************************************************)
(* Who owns each managed value of a control program, who borrows it, and   *)
(* where it is shared, moved or released                                   *)
(* (crates/mal-backend/src/execution/ownership).                           *)
(*                                                                         *)
(* Arguments p, a, o, r, k, f, n are the plans of CallPlan in their order: *)
(* program, applications, optimizations, regions, calls, frames, native    *)
(* recursion.  A lending maps each borrowed name to the owners whose       *)
(* lifetime it relies on; the empty set is a lender outside the program's  *)
(* names: the caller, or the closure environment.                          *)
(***************************************************************************)
EXTENDS CallPlan

(* The program as ownership reads it: a fused tail call passes the         *)
(* forwarded argument.                                                     *)
FusedArguments(p, o) ==
    [p EXCEPT !.states = Tabulated([s \in DOMAIN p.states |->
        IF s \in DOMAIN o.forwarded
        THEN [p.states[s] EXCEPT !.terminator.args[2] = o.forwarded[s]] ELSE p.states[s]])]

(* Atoms of a state that name a managed binding; one at top level counts   *)
(* until liveness is restricted to the names the program binds.            *)
Sources(p, s, atoms) ==
    {x \in atoms : IsManaged(p, x) /\ (x \in p.names \/ (x \in Functions(p) /\ x # p.owner[s]))}
Operands(p, s, i) == ToSet(Bindings(p, s)[i].operation.args)
Indices(p) == UNION {{s} \X DOMAIN Bindings(p, s) : s \in ProgramStates(p)}

(* Mutant of WithLenders: a borrower does not keep its lender alive.       *)
WithoutLenders(lending, names) == names

WithLenders(lending, names) == names \union UNION {lending[n] : n \in names \intersect DOMAIN lending}

(* Live managed values of every state, from its end to its start.  A value *)
(* keeps the owners it is borrowed from alive.                             *)
LiveInto(p, live, s) == (Last(live[s]) \ NamesIn(p.states[s].input)) \intersect p.names
LiveAfter(live, s, i) == live[s][Len(live[s]) - i]
ManagedLive(p, lending) ==
    LET atEnd(live, s) == WithLenders(lending, Sources(p, s, ToSet(Args(p, s)))
                              \union UNION {LiveInto(p, live, t) : t \in Successors(p.states, s)})
        before(live, s, b) == (live \ NamesIn(b.pattern))
                                 \union WithLenders(lending, Sources(p, s, ToSet(b.operation.args)))
        names == p.names \union Functions(p)
        count(s) == Len(Bindings(p, s))
        along(live, s) ==
            Unfolded(count(s) + 1, SUBSET names, LAMBDA later :
                IF later = <<>> THEN atEnd(live, s)
                ELSE before(Last(later), s, Bindings(p, s)[count(s) + 1 - Len(later)]))
    IN Unfolded(Len(p.states), Seq(SUBSET names), LAMBDA live : along(live, Len(live) + 1))

-----------------------------------------------------------------------------
(* Native call sites hand their argument over when some function they      *)
(* share keeps its parameter: returns it, captures it or passes it on to   *)
(* one that keeps it.  Entry, regions and other calls stay borrowed.       *)
IsNativeSite(r, k, f, s) ==
    k.mode[s] \in {"Direct", "Dispatch"} /\ s \notin DOMAIN f.frame /\ r.site[s] \notin k.common

KeptParameters(p, a) ==
    LET candidates == {g \in Functions(p) : Parameter(p, g) # Wildcard /\ IsManaged(p, Parameter(p, g))}
        derived == Tabulated([g \in candidates |-> Derived(p, p.bodies[g], {Parameter(p, g)})])
        captured(g, s) == \E b \in ToSet(Bindings(p, s)) :
                             b.operation.kind = "closure" /\ ToSet(b.operation.args) \intersect derived[g] # {}
        escapes(g, s, kept) ==
            \/ captured(g, s)
            \/ Kind(p, s) = "return" /\ Args(p, s)[1] \in derived[g]
            \/ s \in Sites(p) /\ Argument(p, s) \in derived[g] /\ a.targets[s] \intersect kept # {}
    IN LeastFixed(candidates,
                  LAMBDA kept : kept \union {g \in candidates : \E s \in p.bodies[g] : escapes(g, s, kept)}, {})

OwnedConvention(p, a, r, k, f) ==
    LET native == {s \in Sites(p) : IsNativeSite(r, k, f, s)}
        together(group) == group \union UNION {a.targets[s] : s \in {s \in native : a.targets[s] \intersect group # {}}}
        group(g) == LeastFixed(Functions(p), together, {g})
        pinned == {p.entry} \union {g \in Functions(p) : r.function[g] # {}}
                     \union UNION {a.targets[s] : s \in {s \in Sites(p) \ native : k.mode[s] \in {"Direct", "Dispatch"}}}
        kept == KeptParameters(p, a)
        functions == {g \in Functions(p) : group(g) \intersect kept # {} /\ group(g) \intersect pinned = {}}
    IN [functions |-> functions,
        sites |-> {s \in native : a.targets[s] # {} /\ a.targets[s] \subseteq functions}]

(* Every managed value of the function comes from its parameter, its       *)
(* environment or a constant, and no managed value leaves it as a result.  *)
IsBounded(p, a, g) ==
    \A s \in p.bodies[g] :
       /\ \A b \in ToSet(Bindings(p, s)) :
             \/ b.operation.kind \in {"atom", "product", "inject"}
             \/ b.operation.kind = "closure" /\ b.operation.args = <<>>
             \/ b.operation.kind \notin {"closure", "text", "new"} /\ ManagedIn(p, b.pattern) = {}
       /\ Kind(p, s) = "return" => ~IsManaged(p, Args(p, s)[1])
       /\ Kind(p, s) = "call" => ~IsManagedType(CalleeResult(p, a, s))

(* Functions whose caller lends the argument for the whole activation.     *)
ParameterBorrows(p, a, r, k, f, n, selfTail) ==
    LET fuses(g) == \E s \in SitesFrom(p, g) : k.mode[s] = "DirectSelfTail"
        alone == {g \in Functions(p) : /\ r.function[g] = {} /\ p.states[p.entries[g]].input = <<>>
                                       /\ ~fuses(g) \/ IsBounded(p, a, g)}
        closed(region) == /\ \A g \in region : IsBounded(p, a, g)
                          /\ \A s \in {s \in Sites(p) : r.site[s] = region} : a.targets[s] \subseteq region
        regions == UNION {region \in {r.function[g] : g \in Functions(p)} : closed(region)}
        calledDirectly(g) == \A s \in {s \in Sites(p) : g \in a.targets[s]} :
                                \/ k.mode[s] = "DirectSelfTail"
                                \/ k.mode[s] = "Direct" /\ k.target[s] = g /\ s \notin DOMAIN f.frame
        selfTailBorrows == {g \in DOMAIN selfTail : IsBounded(p, a, g) /\ calledDirectly(g)}
        owned == OwnedConvention(p, a, r, k, f)
        ownedFunctions == owned.functions \ selfTailBorrows
        functions == ((alone \union regions \union n.borrowed) \ ownedFunctions) \union selfTailBorrows
        borrowed(s) == IF k.mode[s] \in {"Direct", "DirectRegion"} THEN k.target[s] \in functions
                       ELSE a.targets[s] \subseteq functions
    IN [functions |-> functions,
        bindings |-> {Parameter(p, g) : g \in {g \in functions : IsManaged(p, Parameter(p, g))}},
        sites |-> {s \in Sites(p) : borrowed(s)},
        ownedFunctions |-> ownedFunctions,
        ownedSites |-> {s \in owned.sites : ~(a.targets[s] \subseteq selfTailBorrows)}]

-----------------------------------------------------------------------------
(* Which names are borrowed and from whom.                                 *)
Definition(p) ==
    LET single == {x \in Indices(p) : LET pattern == Bindings(p, x[1])[x[2]].pattern
                                      IN Len(pattern) = 1 /\ pattern[1] # Wildcard}
        name(x) == Bindings(p, x[1])[x[2]].pattern[1]
    IN Tabulated([m \in {name(x) : x \in single} |-> CHOOSE x \in single : name(x) = m])

JumpSources(p, t) ==
    UNION {Sources(p, s, ToSet(Args(p, s))) : s \in {s \in ProgramStates(p) : Kind(p, s) = "jump" /\ Targets(p, s)[1] = t}}

(* Discarded values that are only taken apart or passed on: they, and what *)
(* they were built from, need no owner of their own.                       *)
PureConstruction(p, discarded, lending) ==
    LET definition == Definition(p)
        operation(d) == Bindings(p, definition[d][1])[definition[d][2]].operation
        pure == {d \in DOMAIN definition : operation(d).kind \in {"atom", "product", "inject"}}
        parts(d) == Sources(p, definition[d][1], ToSet(operation(d).args))
        joined(d) == UNION {JumpSources(p, t) : t \in {t \in ProgramStates(p) : p.states[t].input = <<d>>}}
        from(d) == IF d \in pure THEN parts(d) ELSE IF d \in DOMAIN definition THEN {} ELSE joined(d)
        traced == LeastFixed(p.names \union Functions(p), LAMBDA set : set \union UNION {from(d) : d \in set}, discarded)
        built == [d \in traced \intersect pure |-> parts(d)] @@ lending
        joins == {d \in traced \ DOMAIN definition : joined(d) # {}}
        lent == LeastFixed(joins, LAMBDA set : {d \in joins : joined(d) \subseteq DOMAIN built \union set}, {})
    IN [d \in lent |-> joined(d)] @@ built

(* Aliases of values that were dropped at the alias borrow from whatever   *)
(* the dropped name borrows from, if it does.                              *)
WithDeferred(p, deferred, lending) ==
    LET resolved == LeastFixed(p.names,
                        LAMBDA set : set \union {q[2] : q \in {q \in deferred : q[1] \in DOMAIN lending \union set}}, {})
    IN [m \in resolved |-> {q[1] : q \in {q \in deferred : q[2] = m}}] @@ lending

(* Lenders replaced by the owners at the end of the chain.                 *)
Canonical(p, lending) ==
    LET owners[m \in p.names \union Functions(p)] ==
            IF m \in DOMAIN lending THEN UNION {owners[x] : x \in lending[m]} ELSE {m}
    IN Tabulated([m \in DOMAIN lending |-> owners[m]])

Without(lending, names) == Tabulated([m \in DOMAIN lending \ names |-> lending[m]])

(* Reads of a value under another name, and the names they bind that live  *)
(* on.  live is the liveness without any lending.                          *)
Reads(p) == {x \in Indices(p) : Bindings(p, x[1])[x[2]].operation.kind = "atom"}
ReadSource(p, x) == Sources(p, x[1], Operands(p, x[1], x[2]))
ReadLeaves(p, live, x) == NamesIn(Bindings(p, x[1])[x[2]].pattern) \intersect LiveAfter(live, x[1], x[2])
LastingSource(p, live, x) == ReadSource(p, x) \intersect LiveAfter(live, x[1], x[2])

(* Aliases borrow from what they name if it lives on; aliases of what the  *)
(* caller lends are lent by the caller.                                    *)
LentByCaller(p, borrows, live) ==
    borrows.bindings
        \union UNION {ReadLeaves(p, live, x) : x \in {x \in Reads(p) : ReadSource(p, x) \intersect borrows.bindings # {}}}
LentByAliased(p, live) == UNION {ReadLeaves(p, live, x) \X LastingSource(p, live, x) : x \in Reads(p)}
LentIfSourceIs(p, borrows, live) ==
    UNION {ReadSource(p, x) \X ReadLeaves(p, live, x) :
             x \in {x \in Reads(p) : LastingSource(p, live, x) = {} /\ ReadSource(p, x) \intersect borrows.bindings = {}}}

(* What is read from a capture is lent by the environment.                 *)
LentByEnvironment(p, aliases, live) == UNION {ReadLeaves(p, live, x) : x \in Reads(p)} \intersect aliases.roots

(* A payload borrows from a sum that the arm still needs.                  *)
LentBySum(p, live) ==
    LET cases == {s \in ProgramStates(p) : Kind(p, s) = "case"}
        arms(s) == {t \in Successors(p.states, s) : Sources(p, s, ToSet(Args(p, s))) \intersect p.live[t] # {}}
        payload(s, t) == (NamesIn(p.states[t].input) \intersect Last(live[t])) \X {Args(p, s)[1]}
    IN UNION {UNION {payload(s, t) : t \in arms(s)} : s \in cases}

(* Aliased values that nothing reads again, and arguments a callee borrows.*)
Discarded(p, borrows, live) ==
    UNION {ReadSource(p, x) \ LiveAfter(live, x[1], x[2]) : x \in {x \in Reads(p) : ReadLeaves(p, live, x) = {}}}
        \union UNION {Sources(p, s, {Argument(p, s)}) : s \in borrows.sites}

(* Values of the environment that a tail call hands to code that runs      *)
(* after it is released, and values live where their lender is not.        *)
OutliveEnvironment(p, aliases) ==
    UNION {ToSet(Args(p, s)) : s \in {s \in Sites(p) : Kind(p, s) = "tailcall"}} \intersect aliases.tied
Unbounded(p, persistent, lending) ==
    UNION {{m \in p.live[s] \intersect DOMAIN lending : ~(lending[m] \subseteq p.live[s] \union persistent)} :
              s \in ProgramStates(p)}

Candidates(p, fromCaller, fromEnvironment, fromOwners) ==
    LET lent == {q \in fromOwners : q[1] \notin fromCaller}
    IN [m \in {q[1] : q \in lent} |-> {q[2] : q \in {q \in lent : q[1] = m}}]
           @@ [m \in fromCaller \union fromEnvironment |-> {}]

Bounded(p, persistent, lending) == Without(lending, Unbounded(p, persistent, lending))

Lending(p, aliases, borrows, persistent, live) ==
    LET first == Candidates(p, LentByCaller(p, borrows, live), LentByEnvironment(p, aliases, live),
                            LentByAliased(p, live) \union LentBySum(p, live))
        built == PureConstruction(p, Discarded(p, borrows, live), first)
        all == Canonical(p, WithDeferred(p, LentIfSourceIs(p, borrows, live), built))
    IN Bounded(p, persistent, Without(all, OutliveEnvironment(p, aliases)))

-----------------------------------------------------------------------------
(* What happens to a value stored into a name: the name takes it over,     *)
(* borrows it, or it is released.                                          *)
Destination(p, lending, live, m) ==
    CASE m \notin p.names \/ (IsManaged(p, m) /\ m \notin live) -> "discard"
      [] ~IsManaged(p, m) -> "unmanaged"
      [] m \in DOMAIN lending -> "borrow"
      [] OTHER -> "initialize"
TakesOver(p, lending, live, pattern) == (ManagedIn(p, pattern) \intersect live) \ DOMAIN lending # {}

StoresOperand(kind, j) ==
    kind \in {"atom", "closure", "product", "inject"} \/ <<kind, j>> \in {<<"new", 2>>, <<"put", 3>>}

(* Mutant of DeadAfter: the owner a dying operand borrowed from is missed. *)
DeadAfterItself(p, lending, live, s, i) ==
    (Sources(p, s, Operands(p, s, i)) \intersect p.names) \ LiveAfter(live, s, i)

(* Drop candidates of a binding: operands, and their lenders, that nothing *)
(* reads after it.                                                         *)
DeadAfter(p, lending, live, s, i) ==
    (WithLenders(lending, Sources(p, s, Operands(p, s, i))) \intersect p.names) \ LiveAfter(live, s, i)

(* The effect on operand j of a binding: the last use of a dying owner     *)
(* moves it, any other use that must be kept shares it.                    *)
BindingUse(p, o, lending, live, s, i, j) ==
    LET b == Bindings(p, s)[i]
        x == b.operation.args[j]
        kept == /\ StoresOperand(b.operation.kind, j)
                /\ \/ b.operation.kind \notin {"atom", "product", "inject"}
                   \/ TakesOver(p, lending, LiveAfter(live, s, i), b.pattern)
        later == \E l \in j + 1 .. Len(b.operation.args) : b.operation.args[l] = x
    IN IF ~IsManaged(p, x) \/ ~kept THEN "borrow"
       ELSE IF \/ x \in o.uniqueCaptures
               \/ x \in DeadAfter(p, lending, live, s, i) \ DOMAIN lending /\ ~later
            THEN "consume" ELSE "share"

(* The value is not needed after control leaves through the terminator.    *)
DiesAt(p, f, lending, live, s, x) ==
    LET needed == WithLenders(lending, Sources(p, s, {Args(p, s)[1]}))
    IN CASE Kind(p, s) = "call" /\ s \notin DOMAIN f.frame ->
              x \notin LiveInto(p, live, Targets(p, s)[1]) /\ x \notin needed
         [] Kind(p, s) = "tailcall" -> x \notin needed
         [] OTHER -> TRUE

(* The owners a call hands responsibility to, in emission order: frame     *)
(* fields, then the callee, then the argument.  Each is <<place, atom>>.   *)
Successions(p, r, k, f, borrows, lending, s) ==
    LET fields == IF s \in DOMAIN f.frame
                  THEN SelectSeq(f.frame[s].fields, LAMBDA m : IsManaged(p, m) /\ m \notin DOMAIN lending) ELSE <<>>
        transition == k.mode[s] \in {"DirectRegion", "Dispatch"} /\ r.site[s] \in k.common
        handsArgument == /\ s \notin borrows.sites
                         /\ \/ s \in DOMAIN f.frame \union borrows.ownedSites
                            \/ k.mode[s] \in {"DirectSelfTail", "DirectRegion"} \/ transition
    IN [i \in DOMAIN fields |-> <<fields[i], fields[i]>>]
       \o (IF transition /\ IsManaged(p, Callee(p, s)) THEN << <<"callee", Callee(p, s)>> >> ELSE <<>>)
       \o (IF handsArgument /\ IsManaged(p, Argument(p, s)) THEN << <<"argument", Argument(p, s)>> >> ELSE <<>>)

(* Mutant of MovesLast: every successor of a dying owner takes it.         *)
MovesAlways(owners, moving, i) == i \in moving
MovesLast(owners, moving, i) == i \in moving /\ ~\E l \in moving : l > i /\ owners[l][2] = owners[i][2]

CallUses(p, r, k, f, borrows, lending, live, s) ==
    LET owners == Successions(p, r, k, f, borrows, lending, s)
        moving == {i \in DOMAIN owners :
                     /\ owners[i][2] \in p.names \ DOMAIN lending
                     /\ owners[i][1] = owners[i][2] \/ DiesAt(p, f, lending, live, s, owners[i][2])}
        effect(i) == IF MovesLast(owners, moving, i) THEN "consume" ELSE "share"
    IN [place \in {owners[i][1] : i \in DOMAIN owners} |->
            effect(CHOOSE i \in DOMAIN owners : owners[i][1] = place)]

(* An owner that control leaves with moves: to the caller, or to a join    *)
(* whose input takes it over, whether or not the join reads its old name.  *)
LeaveUse(p, lending, live, s) ==
    LET x == Args(p, s)[1]
        target == Targets(p, s)[1]
        owned == x \in p.names \ DOMAIN lending
    IN CASE ~IsManaged(p, x) -> "borrow"
         [] Kind(p, s) = "jump" /\ ~TakesOver(p, lending, Last(live[target]), p.states[target].input) -> "borrow"
         [] OTHER -> IF owned THEN "consume" ELSE "share"

PayloadUse(p, lending, live, s, t) ==
    LET x == Args(p, s)[1]
    IN IF ~TakesOver(p, lending, Last(live[t]), p.states[t].input) THEN "borrow"
       ELSE IF x \in (p.names \ DOMAIN lending) \ LiveInto(p, live, t) THEN "consume" ELSE "share"

(* Places of a state's terminator and what each does to the value there.   *)
TerminatorUses(p, r, k, f, borrows, lending, live, s) ==
    CASE s \in Sites(p) -> CallUses(p, r, k, f, borrows, lending, live, s)
      [] Kind(p, s) \in {"return", "jump"} -> [place \in {"value"} |-> LeaveUse(p, lending, live, s)]
      [] Kind(p, s) = "case" -> [t \in Successors(p.states, s) |-> PayloadUse(p, lending, live, s, t)]
      [] OTHER -> <<>>

(* Owners that end on each path out of a state: live at its end, neither   *)
(* moved by the terminator nor live where the path leads.                  *)
EdgeDrops(p, k, f, lending, live, uses, s) ==
    LET atom(place) == CASE place = "value" -> Args(p, s)[1]
                         [] place = "callee" -> Callee(p, s)
                         [] place = "argument" -> Argument(p, s)
                         [] OTHER -> place
        moved == IF Kind(p, s) = "case" THEN {} ELSE {atom(place) : place \in {q \in DOMAIN uses : uses[q] = "consume"}}
        unwrapped(t) == IF Kind(p, s) = "case" /\ uses[t] = "consume" THEN {Args(p, s)[1]} ELSE {}
        ending == ((live[s][1] \intersect p.names) \ DOMAIN lending) \ moved
        returnsHere == Kind(p, s) = "call" /\ s \notin DOMAIN f.frame /\ k.mode[s] \in {"Direct", "Dispatch"}
    IN IF Kind(p, s) \in {"goto", "jump", "branch", "case"} \/ returnsHere
       THEN [t \in Successors(p.states, s) |-> (ending \ unwrapped(t)) \ LiveInto(p, live, t)]
       ELSE [t \in {0} |-> ending]

-----------------------------------------------------------------------------
(* How an entry of a function receives its managed parameter.              *)
ParameterEffect(p, borrows, g, entry) ==
    LET x == Parameter(p, g)
        used == x # Wildcard /\ x \in p.live[p.entries[g]]
        owns == g \in borrows.ownedFunctions
    IN CASE entry = "OwnedAbi" /\ owns -> IF used THEN "consume" ELSE "drop"
         [] entry = "BorrowedAbi" /\ ~owns /\ used -> IF x \in borrows.bindings THEN "borrow" ELSE "share"
         [] entry = "OwnedHandoff" ->
              IF used THEN IF x \in borrows.bindings THEN "borrow" ELSE "consume"
              ELSE IF g \in borrows.functions THEN "none" ELSE "drop"
         [] OTHER -> "none"

(* Owners a borrowing function may rely on in all its states.              *)
Persistent(x) ==
    UNION {ManagedIn(x.p, x.selfTail[g].pattern) : g \in DOMAIN x.selfTail \intersect x.borrows.functions}
        \union x.n.lenders

(* The decisions in the order they are made, each from those before it.    *)
WithSelfTails(x) == x @@ [selfTail |-> SelfTailCandidates(x.p, x.o, x.k)]
WithBorrows(x) == x @@ [borrows |-> ParameterBorrows(x.p, x.a, x.r, x.k, x.f, x.n, x.selfTail)]
WithLending(x) ==
    x @@ [lending |-> Lending(x.p, x.f.aliases, x.borrows, Persistent(x), ManagedLive(x.p, <<>>))]
WithLiveness(x) == x @@ [live |-> ManagedLive(x.p, x.lending)]
WithUses(x) ==
    LET use(s, i, j) == BindingUse(x.p, x.o, x.lending, x.live, s, i, j)
        leaving(s) == TerminatorUses(x.p, x.r, x.k, x.f, x.borrows, x.lending, x.live, s)
    IN x @@ [bindingUse |-> Tabulated([site \in Indices(x.p) |->
                 Tabulated([j \in DOMAIN Bindings(x.p, site[1])[site[2]].operation.args |->
                                use(site[1], site[2], j)])]),
             terminatorUse |-> Tabulated([s \in ProgramStates(x.p) |-> Tabulated(leaving(s))])]

(* The managed names live after a name is bound.                           *)
LiveWhenBound(x, m) ==
    {LiveAfter(x.live, site[1], site[2]) :
        site \in {site \in Indices(x.p) : m \in NamesIn(Bindings(x.p, site[1])[site[2]].pattern)}}
    \union {Last(x.live[s]) : s \in {s \in ProgramStates(x.p) : m \in NamesIn(x.p.states[s].input)}}

MovedBy(x, s, i) ==
    LET use == x.bindingUse[<<s, i>>]
    IN {Bindings(x.p, s)[i].operation.args[j] : j \in {j \in DOMAIN use : use[j] = "consume"}}

Decisions(x) ==
    LET states == ProgramStates(x.p)
        edges(s) == EdgeDrops(x.p, x.k, x.f, x.lending, x.live, x.terminatorUse[s], s)
        bound == Tabulated([m \in x.p.names |-> LiveWhenBound(x, m)])
        after(s, i) == (DeadAfter(x.p, x.lending, x.live, s, i) \ MovedBy(x, s, i)) \ DOMAIN x.lending
        entries == {"BorrowedAbi", "OwnedAbi", "OwnedHandoff"}
    IN [borrowed |-> DOMAIN x.lending,
        destination |-> Tabulated([m \in {m \in x.p.names : bound[m] # {}} |->
                            Destination(x.p, x.lending, CHOOSE l \in bound[m] : TRUE, m)]),
        bindingUse |-> x.bindingUse,
        dropsAfter |-> Tabulated([site \in Indices(x.p) |-> after(site[1], site[2])]),
        terminatorUse |-> x.terminatorUse,
        edgeDrops |-> Tabulated([s \in states |-> Tabulated(edges(s))]),
        parameter |-> Tabulated([g \in Functions(x.p) |->
                          Tabulated([entry \in entries |-> ParameterEffect(x.p, x.borrows, g, entry)])]),
        liveOwners |-> Tabulated([s \in states |-> LiveInto(x.p, x.live, s) \ DOMAIN x.lending]),
        ownedFunctions |-> x.borrows.ownedFunctions,
        ownedSites |-> x.borrows.ownedSites,
        selfTail |-> Tabulated([g \in {g \in DOMAIN x.selfTail :
                         ManagedIn(x.p, x.selfTail[g].pattern) \subseteq DOMAIN x.lending} |-> x.selfTail[g]])]

OwnershipPlan(x) ==
    Decisions(WithUses(WithLiveness(WithLending(WithBorrows(WithSelfTails(
        [x EXCEPT !.p = FusedArguments(x.p, x.o)]))))))
=============================================================================

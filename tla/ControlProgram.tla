--------------------------- MODULE ControlProgram ---------------------------
(***************************************************************************)
(* Programs in the form the execution planner reads, and how they come     *)
(* from closure-converted blocks (crates/mal-backend/src/control).         *)
(*                                                                         *)
(* Names are strings and unique in a program, as value ids are.  A pattern *)
(* is a sequence of names, "_" standing for a wildcard: <<x>> binds the    *)
(* whole value, a longer pattern takes a product apart, <<>> is no input;  *)
(* a wildcard within a product stands for one leaf.                        *)
(* An atom is a name, a capture, a function (the function itself, or one   *)
(* bound at top level) or a literal; which one it is follows from where    *)
(* the string is declared.  A type is a sequence of leaf types: "int" is   *)
(* copied, everything else has an owner; the leaf type of a function value *)
(* is its signature.                                                       *)
(*                                                                         *)
(* Closure program c: functions : id -> [parameter, captures, signature,   *)
(* result, joins, body], types : name or capture -> type, entry : id,      *)
(* literals : name -> content; a literal that has a type has an owner.     *)
(* Block: [bindings, result]; binding: [pattern, operation]; operation:    *)
(* [kind, args, function, patterns, blocks].  Unit values are left out.    *)
(***************************************************************************)
EXTENDS Naturals, FiniteSets, SequencesExt

Wildcard == "_"
NamesIn(pattern) == ToSet(pattern) \ {Wildcard}

(* The function, which TLC then computes once and not at every use.        *)
Tabulated(f) == f @@ <<>>

(* The leaves a name of a pattern takes of the value, where the pattern    *)
(* lists the leaves of nested products one after the other.                *)
Width(types, atom) == IF atom \in DOMAIN types THEN Len(types[atom]) ELSE 1
Offset(types, names, i) == FoldLeft(LAMBDA sum, j : sum + Width(types, names[j]), 0, [j \in 1 .. i - 1 |-> j])
Part(types, pattern, value, i) ==
    IF Len(pattern) = 1 THEN value
    ELSE SubSeq(value, Offset(types, pattern, i) + 1, Offset(types, pattern, i) + Width(types, pattern[i]))

Listed(set) == FoldSet(LAMBDA x, seq : Append(seq, x), <<>>, set)

(* The least subset of universe that contains base and is closed under     *)
(* step, which only adds to a set.                                         *)
LeastFixed(universe, step(_), base) ==
    LET grow[set \in SUBSET universe] == LET next == step(set) IN IF next = set THEN set ELSE grow[next]
    IN grow[base]

(* The sequence of n elements of S each of which follows from those before.*)
Unfolded(n, S, next(_)) ==
    LET unfold[seq \in Seq(S)] == IF Len(seq) = n THEN seq ELSE unfold[Append(seq, next(seq))]
    IN unfold[<<>>]

-----------------------------------------------------------------------------
(* Control states.  A terminator is [kind, args, targets]: the atoms it    *)
(* reads and the states it may continue at in the same function.           *)
State(input, bindings, kind, args, targets) ==
    [input |-> input, bindings |-> bindings,
     terminator |-> [kind |-> kind, args |-> args, targets |-> targets]]

Pushed(states, state) == [states |-> Append(states, state), entry |-> Len(states) + 1]

WithInput(lowered, pattern) ==
    [lowered EXCEPT !.states[lowered.entry].input = pattern]

Prepended(lowered, binding) ==
    [lowered EXCEPT !.states[lowered.entry].bindings = <<binding>> \o @]

(* A destination is 0 for the function's return, else the state to join.   *)
TerminalState(states, result, destination) ==
    Pushed(states, IF destination = 0 THEN State(<<>>, <<>>, "return", <<result>>, <<>>)
                   ELSE State(<<>>, <<>>, "jump", <<result>>, <<destination>>))

RECURSIVE LowerBlock(_, _, _, _), LowerArms(_, _, _, _, _), LowerBindings(_, _, _)

(* The arms of a case or the two sides of a branch, in order; the result's *)
(* entry is the state that chooses between them.                           *)
LowerArms(states, joins, operation, targets, destination) ==
    LET done == Len(targets)
    IN IF done = Len(operation.blocks)
       THEN Pushed(states, State(<<>>, <<>>, operation.kind, operation.args, targets))
       ELSE LET arm == LowerBlock(states, joins, operation.blocks[done + 1], destination)
                entered == IF operation.kind = "case"
                           THEN WithInput(arm, operation.patterns[done + 1]) ELSE arm
            IN LowerArms(entered.states, joins, operation, Append(targets, arm.entry), destination)

(* The bindings of a block from the last to the first: a call or a choice  *)
(* ends a state, whose continuation takes its value as input.              *)
LowerBindings(lowered, joins, bindings) ==
    IF bindings = <<>> THEN lowered
    ELSE LET binding == Last(bindings)
             operation == binding.operation
             joined == Pushed(lowered.states,
                              State(binding.pattern, <<>>, "goto", <<>>, <<lowered.entry>>))
             next == CASE operation.kind = "call" ->
                            Pushed(joined.states,
                                   State(<<>>, <<>>, "call", operation.args, <<joined.entry>>))
                       [] operation.kind \in {"case", "branch"} ->
                            LowerArms(joined.states, joins, operation, <<>>, joined.entry)
                       [] OTHER -> Prepended(lowered, binding)
         IN LowerBindings(next, joins, Front(bindings))

(* A last binding that is the block's result is lowered into the terminal  *)
(* state: a goto to a lexical join, a choice, or a call that returns.      *)
LowerBlock(states, joins, block, destination) ==
    LET bindings == block.bindings
        last == Last(bindings).operation
        returned == bindings # <<>> /\ Last(bindings).pattern = <<block.result>>
        absorbed == /\ returned
                    /\ last.kind \in {"goto", "case", "branch"} \union (IF destination = 0 THEN {"call"} ELSE {})
        terminal ==
            CASE ~absorbed -> TerminalState(states, block.result, destination)
              [] last.kind = "goto" ->
                   Pushed(states, State(<<>>, <<>>, "jump", last.args, <<joins[last.join]>>))
              [] last.kind = "call" ->
                   Pushed(states, State(<<>>, <<>>, "tailcall", last.args, <<>>))
              [] OTHER -> LowerArms(states, joins, last, <<>>, destination)
    IN LowerBindings(terminal, joins, IF absorbed THEN Front(bindings) ELSE bindings)

-----------------------------------------------------------------------------
(* Whether control that enters the state with this value only hands it on  *)
(* to the function's return.                                               *)
RECURSIVE HandsOn(_, _, _)
HandsOn(states, s, value) ==
    LET bindings == states[s].bindings
        named[i \in 0 .. Len(bindings)] ==
            IF i = 0 THEN value
            ELSE IF /\ named[i - 1] # Wildcard
                    /\ bindings[i].operation.kind = "atom"
                    /\ bindings[i].operation.args = <<named[i - 1]>>
                    /\ Len(bindings[i].pattern) = 1
                 THEN bindings[i].pattern[1] ELSE Wildcard
        final == named[Len(bindings)]
        terminator == states[s].terminator
    IN /\ final # Wildcard
       /\ CASE terminator.kind = "return" -> terminator.args = <<final>>
            [] terminator.kind = "goto" ->
                 /\ states[terminator.targets[1]].input = <<>>
                 /\ HandsOn(states, terminator.targets[1], final)
            [] terminator.kind = "jump" ->
                 /\ terminator.args = <<final>>
                 /\ Len(states[terminator.targets[1]].input) = 1
                 /\ HandsOn(states, terminator.targets[1], states[terminator.targets[1]].input[1])
            [] OTHER -> FALSE

(* Mutant of ReturnsInput: whatever the continuation returns.              *)
Returns(states, resume) ==
    LET left == states[resume].terminator.targets
    IN left # <<>> /\ states[left[1]].bindings = <<>> /\ states[left[1]].terminator.kind = "return"

ReturnsInput(states, resume) ==
    Len(states[resume].input) = 1 /\ HandsOn(states, resume, states[resume].input[1])

(* A call whose continuation only returns its result is a tail call.       *)
NormalizeCalls(states) ==
    [s \in DOMAIN states |->
        IF states[s].terminator.kind = "call" /\ ReturnsInput(states, states[s].terminator.targets[1])
        THEN [states[s] EXCEPT !.terminator.kind = "tailcall", !.terminator.targets = <<>>]
        ELSE states[s]]

(* A function's states: the joins in order, then the body.                 *)
RECURSIVE LowerJoins(_, _, _)
LowerJoins(states, joins, pending) ==
    IF pending = <<>> THEN [states |-> states, joins |-> joins]
    ELSE LET lowered == WithInput(LowerBlock(states, joins, Head(pending).body, 0),
                                  Head(pending).pattern)
         IN LowerJoins(lowered.states, Append(joins, lowered.entry), Tail(pending))

RECURSIVE LowerFunctions(_, _, _)
LowerFunctions(c, lowered, pending) ==
    IF pending = <<>> THEN lowered
    ELSE LET f == Head(pending)
             joined == LowerJoins(lowered.states, <<>>, c.functions[f].joins)
             body == LowerBlock(joined.states, joined.joins, c.functions[f].body, 0)
         IN LowerFunctions(c, [states |-> NormalizeCalls(body.states),
                               entries |-> (f :> body.entry) @@ lowered.entries], Tail(pending))

-----------------------------------------------------------------------------
(* The states control may reach from an entry, and the function they       *)
(* belong to.                                                              *)
Successors(states, s) == ToSet(states[s].terminator.targets)
ReachableStates(states, entry) ==
    LeastFixed(DOMAIN states, LAMBDA s : s \union UNION {Successors(states, t) : t \in s}, {entry})

OperationAtoms(state) == UNION {ToSet(state.bindings[i].operation.args) : i \in DOMAIN state.bindings}
AtomsRead(state) == OperationAtoms(state) \union ToSet(state.terminator.args)
Definitions(state) ==
    NamesIn(state.input) \union UNION {NamesIn(state.bindings[i].pattern) : i \in DOMAIN state.bindings}

(* Values live at each state's entry, its input left out.  Successors have *)
(* smaller indices, so one pass in index order suffices.                   *)
LiveIn(states, names) ==
    LET into(live, s) ==
            (UNION {live[t] : t \in Successors(states, s)} \union (AtomsRead(states[s]) \intersect names))
                \ Definitions(states[s])
    IN Unfolded(Len(states), SUBSET names, LAMBDA live : into(live, Len(live) + 1))

(* Whether a state or a later one reads a capture or the function itself.  *)
NeedsEnvironment(states, owner, captures) ==
    LET needed(needs, s) ==
            \/ AtomsRead(states[s]) \intersect (captures \union {owner[s]}) # {}
            \/ \E t \in Successors(states, s) : needs[t]
    IN Unfolded(Len(states), BOOLEAN, LAMBDA needs : needed(needs, Len(needs) + 1))

(* The function whose body a state is in; Wildcard if control reaches it   *)
(* from no entry.                                                          *)
Owner(c, bodies, s) ==
    IF \E f \in DOMAIN c.functions : s \in bodies[f]
    THEN CHOOSE f \in DOMAIN c.functions : s \in bodies[f] ELSE Wildcard

Owned(c, states, bodies) == Tabulated([s \in DOMAIN states |-> Owner(c, bodies, s)])
BoundNames(c, states) ==
    ({c.functions[f].parameter : f \in DOMAIN c.functions} \ {Wildcard})
        \union UNION {Definitions(states[s]) : s \in DOMAIN states}

Described(c, states, entries, bodies, owner, names) ==
    [functions |-> c.functions, types |-> c.types, entry |-> c.entry, literals |-> c.literals,
     states |-> states, entries |-> entries, bodies |-> bodies, owner |-> owner,
     names |-> names, order |-> Listed(names),
     live |-> LiveIn(states, names),
     environment |-> NeedsEnvironment(states, owner,
                        UNION {ToSet(c.functions[f].captures) : f \in DOMAIN c.functions})]

WithBodies(c, states, entries, bodies) ==
    Described(c, states, entries, bodies, Owned(c, states, bodies), BoundNames(c, states))

WithStates(c, lowered) ==
    WithBodies(c, lowered.states, lowered.entries,
               Tabulated([f \in DOMAIN c.functions |-> ReachableStates(lowered.states, lowered.entries[f])]))

Lower(c) == WithStates(c, LowerFunctions(c, [states |-> <<>>, entries |-> <<>>], Listed(DOMAIN c.functions)))

-----------------------------------------------------------------------------
(* What the plans ask of a control program p.                              *)
Functions(p) == DOMAIN p.functions
ProgramStates(p) == {s \in DOMAIN p.states : p.owner[s] # Wildcard}
Kind(p, s) == p.states[s].terminator.kind
Args(p, s) == p.states[s].terminator.args
Targets(p, s) == p.states[s].terminator.targets
Bindings(p, s) == p.states[s].bindings
Parameter(p, f) == p.functions[f].parameter

IsManagedType(type) == \E i \in DOMAIN type : type[i] # "int"
IsManaged(p, atom) == \/ atom \in Functions(p)
                      \/ /\ atom \in DOMAIN p.types
                         /\ IsManagedType(p.types[atom])
ManagedIn(p, pattern) == {n \in NamesIn(pattern) : IsManaged(p, n)}
InOrder(p, set) == SelectSeq(p.order, LAMBDA n : n \in set)

(* Managed names that may hold what a value in the set holds: closed under *)
(* atoms, constructions, join inputs and case payloads of these states.    *)
Derived(p, states, base) ==
    LET fromBinding(b, set) ==
            IF /\ b.operation.kind \in {"atom", "inject", "product"}
               /\ ToSet(b.operation.args) \intersect set # {}
            THEN ManagedIn(p, b.pattern) ELSE {}
        fromTerminator(s, set) ==
            IF Kind(p, s) \in {"jump", "case"} /\ Args(p, s)[1] \in set
            THEN UNION {ManagedIn(p, p.states[t].input) : t \in Successors(p.states, s)} ELSE {}
        derive(set) ==
            set \union UNION {fromTerminator(s, set)
                                \union UNION {fromBinding(Bindings(p, s)[i], set) :
                                                i \in DOMAIN Bindings(p, s)} : s \in states}
    IN LeastFixed(p.names, derive, base)
=============================================================================

------------------------ MODULE ResponsibilityChecks ------------------------
(***************************************************************************)
(* The rules an ownership plan has to keep whatever derives it             *)
(* (crates/mal-backend/src/execution/ownership/validation.rs): where a     *)
(* value goes agrees with what it is, an operand that is only looked at    *)
(* keeps its owner, and along each path of control every owner is          *)
(* consumed, dropped or still live, once.                                  *)
(*                                                                         *)
(* x is the program with its plans, x.w the ownership plan.  What moves    *)
(* owners through a state is followed in st = [active, ok]: the names that *)
(* own a value now, and whether every step so far had the owner it needs.  *)
(***************************************************************************)
EXTENDS OwnershipPlan

(* A use of a name: a consumed owner is active no more, a borrowed name is *)
(* never consumed, and what the program does not bind is nobody's here.    *)
AppliedUse(x, st, name, effect) ==
    CASE ~IsManaged(x.p, name) \/ name \notin x.p.names -> st
      [] IsManaged(x.p, name) /\ name \in x.p.names \intersect x.w.borrowed ->
           [st EXCEPT !.ok = @ /\ effect # "consume"]
      [] OTHER -> [active |-> IF effect = "consume" THEN st.active \ {name} ELSE st.active,
                   ok |-> st.ok /\ name \in st.active]

Initialized(x, st, pattern) ==
    LET taken == {n \in NamesIn(pattern) : x.w.destination[n] = "initialize"}
    IN [active |-> st.active \union taken, ok |-> st.ok /\ taken \intersect st.active = {}]

AppliedDrops(st, drops) == [active |-> st.active \ drops, ok |-> st.ok /\ drops \subseteq st.active]

AppliedUses(x, st, names, effects) ==
    FoldLeft(LAMBDA acc, i : AppliedUse(x, acc, names[i], effects[i]), st, [i \in DOMAIN names |-> i])

AppliedBinding(x, st, s, i) ==
    LET b == Bindings(x.p, s)[i]
        used == AppliedUses(x, st, b.operation.args, x.w.bindingUse[<<s, i>>])
    IN AppliedDrops(Initialized(x, used, b.pattern), x.w.dropsAfter[<<s, i>>])

(* The fields of a frame first, then the operands of the terminator; a use *)
(* the plan does not list borrows.                                         *)
PlannedUse(x, s, place) == IF place \in DOMAIN x.w.terminatorUse[s] THEN x.w.terminatorUse[s][place] ELSE "borrow"
AppliedFields(x, st, s) ==
    LET owned == IF s \in DOMAIN x.f.frame THEN SelectSeq(x.f.frame[s].fields, LAMBDA m : m \notin x.w.borrowed) ELSE <<>>
    IN AppliedUses(x, st, owned, [i \in DOMAIN owned |-> PlannedUse(x, s, owned[i])])
OperandUses(x, s) ==
    CASE s \in Sites(x.p) -> <<PlannedUse(x, s, "callee"), PlannedUse(x, s, "argument")>>
      [] Kind(x.p, s) \in {"return", "jump"} -> <<PlannedUse(x, s, "value")>>
      [] OTHER -> [i \in DOMAIN Args(x.p, s) |-> "borrow"]
AppliedTerminator(x, st, s) == AppliedUses(x, st, Args(x.p, s), OperandUses(x, s))

AtStart(x, s) == Initialized(x, [active |-> x.w.liveOwners[s], ok |-> TRUE], x.p.states[s].input)
AfterBindings(x, s) ==
    FoldLeft(LAMBDA acc, i : AppliedBinding(x, acc, s, i), AtStart(x, s), [i \in DOMAIN Bindings(x.p, s) |-> i])
AtEnd(x, s) == AppliedTerminator(x, AppliedFields(x, AfterBindings(x, s), s), s)

(* On the path to t, 0 when control leaves: what a case takes out of its   *)
(* scrutinee, then the drops; what is left is live where the path leads.   *)
OnPath(x, st, s, t) ==
    AppliedDrops(IF Kind(x.p, s) = "case" THEN AppliedUse(x, st, Args(x.p, s)[1], x.w.terminatorUse[s][t]) ELSE st,
                 x.w.edgeDrops[s][t])
Conserved(x, st, t) == st.ok /\ st.active \subseteq (IF t = 0 THEN {} ELSE x.w.liveOwners[t])
ResponsibilitiesEndOncePerPath(x) ==
    \A s \in ProgramStates(x.p) :
        \A t \in DOMAIN x.w.edgeDrops[s] : Conserved(x, OnPath(x, AtEnd(x, s), s, t), t)

-----------------------------------------------------------------------------
DestinationMatches(x, m) ==
    LET destination == x.w.destination[m]
    IN /\ destination = "unmanaged" <=> ~IsManaged(x.p, m)
       /\ destination = "initialize" => m \notin x.w.borrowed
       /\ destination = "borrow" => m \in x.w.borrowed
DestinationsAreValid(x) == \A m \in DOMAIN x.w.destination : DestinationMatches(x, m)

OperandIsValid(x, s, i, j) ==
    LET operation == Bindings(x.p, s)[i].operation
        effect == x.w.bindingUse[<<s, i>>][j]
    IN /\ effect # "borrow" => IsManaged(x.p, operation.args[j]) /\ StoresOperand(operation.kind, j)
       /\ effect = "consume" => operation.args[j] \notin x.w.dropsAfter[<<s, i>>]
BindingUsesAreValid(x) ==
    \A site \in Indices(x.p) : \A j \in DOMAIN x.w.bindingUse[site] : OperandIsValid(x, site[1], site[2], j)

TerminatorUsesAreTotal(x) ==
    \A s \in ProgramStates(x.p) : \A i \in DOMAIN OperandUses(x, s) :
        OperandUses(x, s)[i] # "borrow" => IsManaged(x.p, Args(x.p, s)[i])

DropsAreValid(x) ==
    /\ \A site \in DOMAIN x.w.dropsAfter : x.w.dropsAfter[site] \intersect x.w.borrowed = {}
    /\ \A s \in ProgramStates(x.p) : \A t \in DOMAIN x.w.edgeDrops[s] : x.w.edgeDrops[s][t] \intersect x.w.borrowed = {}

ParameterIsValid(x, g, effect) ==
    /\ Parameter(x.p, g) = Wildcard => effect \in {"none", "drop"}
    /\ effect = "borrow" => Parameter(x.p, g) \in x.w.borrowed
    /\ effect \in {"share", "consume"} => Parameter(x.p, g) \notin x.w.borrowed
ParametersAreValid(x) ==
    \A g \in Functions(x.p) : \A entry \in DOMAIN x.w.parameter[g] : ParameterIsValid(x, g, x.w.parameter[g][entry])

PreservesResponsibilities(x) ==
    LET effective == [x EXCEPT !.p = FusedArguments(x.p, x.o)]
    IN /\ DestinationsAreValid(effective)
       /\ BindingUsesAreValid(effective)
       /\ TerminatorUsesAreTotal(effective)
       /\ DropsAreValid(effective)
       /\ ParametersAreValid(effective)
       /\ ResponsibilitiesEndOncePerPath(effective)
=============================================================================

--------------------------- MODULE EmittedProgram ---------------------------
(***************************************************************************)
(* The native code of a program as the LLVM emission lays it out from its  *)
(* plans (crates/mal-backend/src/backend/llvm/body), run on its own: what  *)
(* each emitted state does to slots, owners, frames and the native stack.  *)
(*                                                                         *)
(* A value is a sequence of leaves [n, code, object]: a number or what     *)
(* stands for a text, the function of a closure, and the owner, an index   *)
(* of heap or 0.  A vacant slot is <<>>.  An activation is a native stack  *)
(* frame of one emitted function; version "native" nests its recursive     *)
(* calls, "frames" and "standard" suspend them into the control arena.     *)
(*                                                                         *)
(* An effect works on a machine m = [slots, environment, heap, faults] of  *)
(* the running activation.  A fault is something no emitted program may    *)
(* do; the run stops there.                                                *)
(***************************************************************************)
EXTENDS ResponsibilityChecks, ClosureMeaning, ContinuationSpecialization

CONSTANTS
    Programs,        \* families of checked or closure programs [stage, of]
    TechniqueSets,   \* the optional techniques a build may enable
    NoAnswer         \* the answer of a program that has not ended

VARIABLES
    form,        \* [stage, of]: the program between two passes of its build
    techniques,  \* the techniques its build enables
    meaning,     \* what the program computes, NoAnswer before it is built
    plan,        \* its execution plans, <<>> before they are made
    stack,       \* native activations, the running one last
    arena,       \* [frames, capacity] of the control arena
    heap,        \* owners: [count, parts], the values each one holds
    faults,      \* what went wrong
    log,         \* what the host was called with, in order
    answer       \* what the entry function returned, with the log

building == <<form, techniques, meaning, plan>>
vars == <<building, stack, arena, heap, faults, log, answer>>

Source == INSTANCE SourceMeaning
Core == INSTANCE CoreLowering
Conversion == INSTANCE ClosureConversion

(* The plans of a program, each made from those before it.                 *)
WithApplications(x) == x @@ [a |-> ApplicationGraph(x.p)]
WithOptimizations(x, enabled) == x @@ [o |-> OptimizationPlan(x.p, x.a, enabled)]
WithRegions(x) == x @@ [r |-> ControlRegions(x.p, x.a, x.o)]
WithCalls(x) == x @@ [k |-> ControlCalls(x.p, x.o, x.r)]
WithFrames(x) == x @@ [f |-> ControlFrames(x.p, x.a, x.o, x.r, x.k)]
WithRecursion(x, enabled) == x @@ [n |-> NativeRecursion(x.p, x.r, x.k, x.f, enabled)]
WithOwnership(x) == x @@ [w |-> OwnershipPlan(x)]

PlannedCalls(control, enabled) ==
    WithRecursion(WithFrames(WithCalls(WithRegions(
        WithOptimizations(WithApplications([p |-> control]), enabled)))), enabled)

p == plan.p
Top == Last(stack)
Current == p.owner[Top.at]

(* The region whose states one emitted function holds, {} outside one.     *)
CommonRegion(g) == IF plan.r.function[g] \in plan.k.common THEN plan.r.function[g] ELSE {}
UnitFunctions(g) == {g} \union CommonRegion(g)
UnitStates(g) == UNION {p.bodies[h] : h \in UnitFunctions(g)}
SlotNames(g) ==
    ({Parameter(p, h) : h \in UnitFunctions(g)} \ {Wildcard})
        \union UNION {Definitions(p.states[s]) : s \in UnitStates(g)}
FrameSites(activation) ==
    IF activation.version = "native" THEN {} ELSE UnitStates(activation.function) \intersect DOMAIN plan.f.frame

Machine == [slots |-> Top.slots, environment |-> Top.environment, heap |-> heap, faults |-> faults, log |-> log]
Faulty(m, fault, wrong) == IF wrong THEN [m EXCEPT !.faults = @ \union {fault}] ELSE m

-----------------------------------------------------------------------------
(* Owners.                                                                 *)
Leaf(n, code, object) == [n |-> n, code |-> code, object |-> object]
NoOwner == [count |-> 0, parts |-> <<>>]
Dead(m, object) == object # 0 /\ m.heap[object].count = 0
HasDead(m, value) == \E i \in DOMAIN value : Dead(m, value[i].object)

RECURSIVE Retained(_, _), Released(_, _)
Retained(m, value) ==
    IF value = <<>> THEN m
    ELSE LET x == Head(value).object
         IN IF x = 0 THEN Retained(m, Tail(value))
            ELSE IF Dead(m, x) THEN Faulty(m, "used after release", TRUE)
            ELSE Retained([m EXCEPT !.heap[x].count = @ + 1], Tail(value))

Released(m, value) ==
    IF value = <<>> THEN m
    ELSE LET x == Head(value).object
         IN IF x = 0 THEN Released(m, Tail(value))
            ELSE IF Dead(m, x) THEN Faulty(m, "used after release", TRUE)
            ELSE IF m.heap[x].count = 1
                 THEN Released([m EXCEPT !.heap[x] = NoOwner], FlattenSeq(m.heap[x].parts) \o Tail(value))
            ELSE Released([m EXCEPT !.heap[x].count = @ - 1], Tail(value))

Environment(m) == <<Leaf(0, "", m.environment)>>

(* A new owner of these values.                                            *)
Allocated(m, parts) == [m EXCEPT !.heap = Append(@, [count |-> 1, parts |-> parts])]

-----------------------------------------------------------------------------
(* Atoms and their uses.                                                   *)
Captures(g) == p.functions[g].captures
CaptureIndex(g, x) == CHOOSE i \in DOMAIN Captures(g) : Captures(g)[i] = x

Atom(m, x) ==
    CASE x \in ToSet(Captures(Current)) -> m.heap[m.environment].parts[CaptureIndex(Current, x)]
      [] x \in Functions(p) -> <<Leaf(0, x, IF x = Current THEN m.environment ELSE 0)>>
      [] x \in DOMAIN p.literals -> <<Leaf(p.literals[x], "", 0)>>
      [] OTHER -> m.slots[x]

(* Reading an atom: a capture needs its environment, a managed slot a      *)
(* value; a name that is neither here has no code.                         *)
Reachable(m, x) == x \in ToSet(Captures(Current)) \union Functions(p) \union DOMAIN p.literals \union DOMAIN m.slots
Read(m, x) ==
    LET captured == x \in ToSet(Captures(Current))
        broken == IF captured THEN m.environment = 0 \/ Dead(m, m.environment)
                  ELSE x \in DOMAIN m.slots /\ IsManaged(p, x) /\ m.slots[x] = <<>>
    IN IF ~Reachable(m, x) THEN [m |-> Faulty(m, "rejected", TRUE), value |-> <<>>]
       ELSE [m |-> Faulty(m, "used after release", broken), value |-> IF broken THEN <<>> ELSE Atom(m, x)]

(* A capture that is moved: taken out of an environment nobody else holds, *)
(* shared with it otherwise.                                               *)
UniqueCapture(m, x, value) ==
    IF m.environment # 0 /\ m.heap[m.environment].count = 1
    THEN [m EXCEPT !.heap[m.environment].parts[CaptureIndex(Current, x)] = <<>>]
    ELSE Retained(m, value)

(* A moved binding has a slot of its own.                                  *)
TakenBinding(m, x) == Faulty(m, "rejected", x \notin DOMAIN m.slots)

Prepared(m, x, effect) ==
    LET read == Read(m, x)
        use(n, owned, moved) == [m |-> n, value |-> read.value, owned |-> owned, moved |-> moved]
    IN CASE effect = "borrow" -> use(read.m, FALSE, {})
         [] effect = "share" -> use(Retained(read.m, read.value), TRUE, {})
         [] effect = "consume" -> IF x \in ToSet(Captures(Current))
                                  THEN use(UniqueCapture(read.m, x, read.value), TRUE, {})
                                  ELSE use(TakenBinding(read.m, x), TRUE, {x} \intersect DOMAIN m.slots)

Vacated(m, names) == [m EXCEPT !.slots = [x \in names \intersect DOMAIN @ |-> <<>>] @@ @]

(* Several operands prepared in order.                                     *)
PreparedAll(m, atoms, effects) ==
    LET prepare(acc, i) ==
            LET one == Prepared(acc.m, atoms[i], effects[i])
            IN [m |-> one.m, values |-> Append(acc.values, one.value), moved |-> acc.moved \union one.moved,
                owned |-> IF IsManaged(p, atoms[i]) THEN acc.owned \union {one.owned} ELSE acc.owned]
    IN FoldLeft(prepare, [m |-> m, values |-> <<>>, moved |-> {}, owned |-> {}], [i \in DOMAIN atoms |-> i])

Dropped(m, names) ==
    LET held == {x \in names \intersect DOMAIN m.slots : IsManaged(p, x)}
        drop(acc, x) == Vacated(Released(acc, acc.slots[x]), {x})
    IN FoldLeft(drop, m, Listed(held))

(* A value stored where the plan says each name of a pattern takes it.     *)
Stored(m, pattern, value, owned) ==
    LET part(i) == Part(p.types, pattern, value, i)
        destination(x) == IF x \in DOMAIN plan.w.destination THEN plan.w.destination[x] ELSE "discard"
        store(acc, i) ==
            CASE destination(pattern[i]) = "discard" -> IF owned THEN Released(acc, part(i)) ELSE acc
              [] destination(pattern[i]) = "initialize" ->
                   [(IF owned THEN acc ELSE Retained(acc, part(i))) EXCEPT !.slots[pattern[i]] = part(i)]
              [] OTHER -> [acc EXCEPT !.slots[pattern[i]] = part(i)]
    IN IF Len(pattern) > 1 /\ value = <<>> THEN Faulty(m, "used after release", TRUE)
       ELSE FoldLeft(store, m, [i \in DOMAIN pattern |-> i])

StoredResult(pattern, result) == Stored(result.m, pattern, result.value, result.owned)
StoredInput(m, s, value, owned) == Stored(m, p.states[s].input, value, owned)

(* How a function's entry takes its parameter over; a combination the      *)
(* emission does not know is rejected.                                     *)
HandedOff(m, g, value, owned, entry) ==
    LET x == Parameter(p, g)
        effect == plan.w.parameter[g][entry]
        into(n) == [n EXCEPT !.slots[x] = value]
    IN CASE ~IsManaged(p, x) -> IF x = Wildcard THEN m ELSE into(m)
         [] effect = "borrow" /\ ~owned -> into(m)
         [] effect = "share" /\ ~owned -> into(Retained(m, value))
         [] effect = "none" /\ ~owned -> m
         [] effect = "consume" /\ owned -> into(m)
         [] effect = "drop" /\ owned -> Released(m, value)
         [] OTHER -> Faulty(m, "rejected", TRUE)

Use(s, place) == IF place \in DOMAIN plan.w.terminatorUse[s] THEN plan.w.terminatorUse[s][place] ELSE "borrow"

-----------------------------------------------------------------------------
(* How the machine's effect becomes the next state.                        *)
Commit(m) == heap' = m.heap /\ faults' = m.faults /\ log' = m.log
Standing(m) == [Top EXCEPT !.slots = m.slots, !.environment = m.environment]
Running(activation) == stack' = Append(Front(stack), activation)
Unchanged == UNCHANGED building

Continue(m, s, i) ==
    /\ Running([Standing(m) EXCEPT !.at = s, !.next = i, !.awaits = "", !.handed = <<>>, !.received = <<>>])
    /\ Commit(m)

(* Whether the native stack still has room is up to the machine: a native  *)
(* activation may continue in the frames version.                          *)
Versions(g) == IF g \in plan.n.functions THEN {"native", "frames"} ELSE {"standard"}

(* A native activation of function g.  context is the parameter of the     *)
(* outermost activation of a worker that is handed its varying fields.     *)
Activation(g, version, base, m, context) ==
    [function |-> g, version |-> version, at |-> p.entries[g], next |-> 1, slots |-> m.slots,
     environment |-> m.environment, base |-> base, context |-> context,
     awaits |-> "", handed |-> <<>>, received |-> <<>>]

Entered(m, g, environment, value) ==
    LET common == CommonRegion(g) # {}
        vacant == [m EXCEPT !.slots = [x \in SlotNames(g) |-> <<>>], !.environment = environment]
        active == IF common THEN Retained(vacant, Environment(vacant)) ELSE vacant
        owned == g \in plan.w.ownedFunctions
    IN HandedOff(active, g, value, owned, IF owned THEN "OwnedAbi" ELSE "BorrowedAbi")

(* The running activation calls g natively; awaits says what it does with  *)
(* the result, handed what it releases then.                               *)
CallNative(m, g, environment, value, context, awaits, handed, base) ==
    LET checked == Faulty(m, "used after release", Dead(m, environment) \/ HasDead(m, value))
        caller == [Standing(m) EXCEPT !.awaits = awaits, !.handed = handed]
        entered == Entered(checked, g, environment, value)
    IN /\ \E version \in Versions(g) :
            stack' = Front(stack) \o <<caller, Activation(g, version, base, entered, context)>>
       /\ Commit(entered)

Trap(m) == Commit(Faulty(m, "unreachable", TRUE)) /\ UNCHANGED stack

-----------------------------------------------------------------------------
(* What a function's result does: it returns to the native caller, or      *)
(* resumes the frame suspended last.                                       *)
ReturnNative(m, s, value) ==
    LET left == IF CommonRegion(Top.function) # {} THEN Released(m, Environment(m)) ELSE m
        ended == Faulty(left, "unreachable", ContinuationResult(p, plan.a, s) # p.functions[Top.function].result)
        callers == Front(stack)
    IN /\ IF callers = <<>>
          THEN stack' = <<>> /\ answer' = Answered(value, m.log)
          ELSE /\ stack' = [callers EXCEPT ![Len(callers)].received = <<value>>]
               /\ UNCHANGED answer
       /\ Commit(ended)
       /\ UNCHANGED arena

(* The suspended caller's values come back into their slots; an exit that  *)
(* no run was planned to leave into this frame has no code to do so.       *)
ResumeFrame(m, s, frame, value) ==
    LET resume == plan.f.frame[frame.site].resume
        loaded == [m EXCEPT !.slots = frame.fields @@ @,
                            !.environment = IF CommonRegion(Top.function) = {} THEN @ ELSE frame.environment]
    IN IF <<s, frame.site>> \notin plan.f.resumes
       THEN Trap(m) /\ UNCHANGED <<arena, answer>>
       ELSE /\ Continue(StoredInput(loaded, resume, value, TRUE), resume, 1)
            /\ arena' = [arena EXCEPT !.frames = Front(@)]
            /\ UNCHANGED answer

PopFrame(m, s, value) ==
    LET frame == Last(arena.frames)
        left == IF CommonRegion(Top.function) # {} THEN Released(m, Environment(m)) ELSE m
    IN IF frame.site \in FrameSites(Top) THEN ResumeFrame(left, s, frame, value)
       ELSE Trap(left) /\ UNCHANGED <<arena, answer>>

ContinueWith(m, s, value) ==
    IF FrameSites(Top) = {} \/ Len(arena.frames) = Top.base
    THEN ReturnNative(m, s, value) ELSE PopFrame(m, s, value)

-----------------------------------------------------------------------------
(* Bindings: the value of an operation, and whether it carries an owner.   *)
Valued(m, value, owned) == [m |-> m, value |-> value, owned |-> owned]

AllocatedValue(m, parts, n, code) ==
    Valued(Allocated(m, parts), <<Leaf(n, code, Len(m.heap) + 1)>>, TRUE)

(* Operations that keep their operands: the operands are prepared in order *)
(* and the slots moved from are emptied.                                   *)
Settled(all) == Vacated(Faulty(all.m, "rejected", Cardinality(all.owned) > 1), all.moved)

MadeProduct(m, all) == Valued(m, FlattenSeq(all.values), TRUE \in all.owned)
MadeSum(m, tag, all) == Valued(m, <<Leaf(tag, "", 0)>> \o all.values[1], TRUE \in all.owned)

(* A closure without captures has no environment; one that is only called  *)
(* by name has no code address.                                            *)
MadeClosure(m, function, all) ==
    LET code == IF function \in plan.o.codePointerFree THEN "" ELSE function
    IN IF all.values = <<>> THEN Valued(m, <<Leaf(0, code, 0)>>, TRUE) ELSE AllocatedValue(m, all.values, 0, code)

MadeBuffer(m, all) ==
    AllocatedValue(Faulty(m, "rejected", all.owned = {FALSE}), <<all.values[2]>>, 0, "")

Constructed(operation, m, all) ==
    CASE operation.kind \in {"atom", "product"} -> MadeProduct(m, all)
      [] operation.kind = "inject" -> MadeSum(m, operation.tag, all)
      [] operation.kind = "closure" -> MadeClosure(m, operation.function, all)
      [] operation.kind = "new" -> MadeBuffer(m, all)

Constructing(operation, all) == Constructed(operation, Settled(all), all)

(* Operations that only look at their operands.                            *)
Observed(m, args) ==
    LET alive(read) == Faulty(read.m, "used after release", HasDead(read.m, read.value))
        observe(acc, x) == LET read == Read(acc.m, x)
                           IN [m |-> alive(read), values |-> Append(acc.values, read.value)]
    IN FoldLeft(observe, [m |-> m, values |-> <<>>], args)

ElementOf(m, buffer) ==
    LET element == m.heap[buffer[1].object].parts[1] IN Valued(Retained(m, element), element, TRUE)
Concatenated(m, left, right) == AllocatedValue(m, <<>>, Joined(left[1].n, right[1].n), "")
Measured(m, text) == Valued(m, <<Leaf(text[1].n, "", 0)>>, FALSE)
Calculated(m, kind, left, right) ==
    LET value == Integral(kind, left[1].n, right[1].n)
    IN Valued(m, [i \in DOMAIN value |-> Leaf(value[i].n, "", 0)], FALSE)
HostCalled(m, argument) == Measured([m EXCEPT !.log = Joined(@, argument[1].n)], argument)

Computed(kind, m, values) ==
    CASE kind = "get" -> ElementOf(m, values[1])
      [] kind = "measure" -> Measured(m, values[1])
      [] kind = "note" -> HostCalled(m, values[1])
      [] kind = "text" -> Concatenated(m, values[1], values[2])
      [] OTHER -> Calculated(m, kind, values[1], values[2])

Computing(kind, seen) ==
    IF seen.m.faults # {} THEN Valued(seen.m, <<>>, FALSE) ELSE Computed(kind, seen.m, seen.values)

Operated(m, operation, effects) ==
    IF operation.kind \in {"atom", "product", "inject", "closure", "new"}
    THEN Constructing(operation, PreparedAll(m, operation.args, effects))
    ELSE Computing(operation.kind, Observed(m, operation.args))

Active == stack # <<>> /\ faults = {}
Waiting == Active /\ Top.awaits # ""

(* Another name of a value has its type.                                   *)
Mistyped(b) ==
    /\ b.operation.kind = "atom" /\ Len(b.pattern) = 1 /\ b.pattern[1] # Wildcard
    /\ TypeOf(p, b.operation.args[1]) # TypeOf(p, b.pattern[1])

Bind ==
    /\ Active /\ ~Waiting /\ Top.next <= Len(Bindings(p, Top.at))
    /\ LET x == <<Top.at, Top.next>>
           b == Bindings(p, Top.at)[Top.next]
           m == Faulty(Machine, "rejected", Mistyped(b))
       IN Continue(Dropped(StoredResult(b.pattern, Operated(m, b.operation, plan.w.bindingUse[x])),
                           plan.w.dropsAfter[x]), Top.at, Top.next + 1)
    /\ Unchanged /\ UNCHANGED <<arena, answer>>

(* Control is at the terminator of state s, of this kind.                  *)
At(s, kind) == Active /\ ~Waiting /\ s = Top.at /\ Top.next > Len(Bindings(p, s)) /\ Kind(p, s) = kind

-----------------------------------------------------------------------------
(* Control stays in the activation, or its function is done.               *)
Return(s) ==
    /\ At(s, "return")
    /\ LET value == Prepared(Machine, Args(p, s)[1], Use(s, "value"))
           left == Dropped(Vacated(value.m, value.moved), plan.w.edgeDrops[s][0])
       IN ContinueWith(left, s, value.value)
    /\ Unchanged

Goto(s) ==
    /\ At(s, "goto")
    /\ LET t == Targets(p, s)[1]
       IN Continue(Dropped(Machine, plan.w.edgeDrops[s][t]), t, 1)
    /\ Unchanged /\ UNCHANGED <<arena, answer>>

Jump(s) ==
    /\ At(s, "jump")
    /\ LET t == Targets(p, s)[1]
           value == Prepared(Machine, Args(p, s)[1], Use(s, "value"))
           stored == StoredInput(Vacated(value.m, value.moved), t, value.value, value.owned)
       IN Continue(Dropped(stored, plan.w.edgeDrops[s][t]), t, 1)
    /\ Unchanged /\ UNCHANGED <<arena, answer>>

Branch(s) ==
    /\ At(s, "branch")
    /\ LET number(i) == Atom(Machine, Args(p, s)[i])[1].n
           t == Targets(p, s)[IF number(1) < number(2) THEN 2 ELSE 1]
       IN Continue(Dropped(Machine, plan.w.edgeDrops[s][t]), t, 1)
    /\ Unchanged /\ UNCHANGED <<arena, answer>>

(* The payload is borrowed from the scrutinee, shared, or taken from it.   *)
PayloadPrepared(m, x, payload, effect) ==
    CASE effect = "share" -> Retained(m, payload)
      [] effect = "consume" -> Vacated(m, {x})
      [] effect = "borrow" -> m

Case(s) ==
    /\ At(s, "case")
    /\ LET x == Args(p, s)[1]
           read == Read(Machine, x)
           t == Targets(p, s)[read.value[1].n + 1]
           effect == plan.w.terminatorUse[s][t]
           payload == PayloadPrepared(read.m, x, Tail(read.value), effect)
           stored == StoredInput(payload, t, Tail(read.value), effect # "borrow")
       IN IF read.value = <<>> THEN Trap(read.m)
          ELSE Continue(Dropped(stored, plan.w.edgeDrops[s][t]), t, 1)
    /\ Unchanged /\ UNCHANGED <<arena, answer>>

(* The copied fields of an argument stored straight into their names.      *)
StoredFieldsOf(m, pattern, value) ==
    LET part(i) == Part(p.types, pattern, value, i)
        copied == {i \in DOMAIN pattern : pattern[i] # Wildcard /\ ~IsManaged(p, pattern[i])}
    IN [m EXCEPT !.slots = [x \in {pattern[i] : i \in copied} |-> part(CHOOSE i \in copied : pattern[i] = x)] @@ @]

(* A tail call of the running function is a jump to its entry; one that    *)
(* hands its managed fields on skips the bindings that take them apart.    *)
SelfTail(s) ==
    /\ At(s, "tailcall") /\ plan.k.mode[s] = "DirectSelfTail"
    /\ LET g == p.owner[s]
           x == IF s \in DOMAIN plan.o.forwarded THEN plan.o.forwarded[s] ELSE Argument(p, s)
           argument == Prepared(Machine, x, Use(s, "argument"))
           m == Vacated(argument.m, argument.moved)
           direct == g \in DOMAIN plan.w.selfTail
           handed == IF direct THEN StoredFieldsOf(m, plan.w.selfTail[g].pattern, argument.value)
                     ELSE HandedOff(m, g, argument.value, argument.owned, "OwnedHandoff")
       IN Continue(Dropped(handed, plan.w.edgeDrops[s][0]), p.entries[g],
                   IF direct THEN plan.w.selfTail[g].count + 1 ELSE 1)
    /\ Unchanged /\ UNCHANGED <<arena, answer>>

-----------------------------------------------------------------------------
(* Native calls.                                                           *)
(* Mutant of IsNativeCall: a tail call that does not know its target calls *)
(* it natively even within the region.                                     *)
TailCallsNest(s) ==
    \/ plan.k.mode[s] = "Direct"
    \/ plan.k.mode[s] = "Dispatch" /\ s \notin DOMAIN plan.f.frame

IsNativeCall(s) ==
    \/ plan.k.mode[s] = "Direct"
    \/ plan.k.mode[s] = "Dispatch" /\ IF Kind(p, s) = "call" THEN s \notin DOMAIN plan.f.frame
                                     ELSE plan.r.site[s] = {} \/ plan.r.site[s] # CommonRegion(Top.function)

CallArgument(m, s) ==
    LET handsOver == s \in plan.w.ownedSites /\ IsManaged(p, Argument(p, s))
        argument == Prepared(m, Argument(p, s), IF handsOver THEN Use(s, "argument") ELSE "borrow")
    IN [m |-> Faulty(Vacated(argument.m, argument.moved), "rejected", handsOver /\ ~argument.owned),
        value |-> argument.value]

CallWith(callee, code, argument) ==
    CallNative(argument.m, code, callee.object, argument.value, argument.value, "call", <<>>, Len(arena.frames))

CallClosure(m, s, callee) ==
    LET code == IF plan.k.mode[s] = "Direct" THEN plan.k.target[s] ELSE callee[1].code
    IN IF callee = <<>> \/ code = "" THEN Trap(m) ELSE CallWith(callee[1], code, CallArgument(m, s))

Call(s, kind) ==
    /\ At(s, kind) /\ IsNativeCall(s)
    /\ LET callee == Read(Machine, Callee(p, s)) IN CallClosure(callee.m, s, callee.value)
    /\ Unchanged /\ UNCHANGED <<arena, answer>>

(* The parameter of a worker that is handed only the fields that vary: the *)
(* others come from the outermost activation.                              *)
Reconstructed(g, value) ==
    LET fields == ParameterPattern(p, g)
    IN IF g \notin DOMAIN plan.n.scalar THEN value
       ELSE FlattenSeq([i \in DOMAIN fields |->
                Part(p.types, fields, IF fields[i] \in plan.n.scalar[g] THEN value ELSE Top.context, i)])
ContextOf(g, whole) == IF g \in DOMAIN plan.n.scalar THEN Top.context ELSE whole

(* A recursive call of a native version: another native activation.        *)
NestWith(m, g, argument, whole) ==
    CallNative(m, g, Machine.environment, whole, ContextOf(g, whole), "nested",
               IF argument.owned THEN argument.value ELSE <<>>, Top.base)
NestedCall(s) ==
    /\ At(s, "call") /\ Top.version = "native" /\ s \in DOMAIN plan.f.frame
    /\ LET argument == Prepared(Machine, Argument(p, s), Use(s, "argument"))
       IN NestWith(Vacated(argument.m, argument.moved), Top.function, argument,
                   Reconstructed(Top.function, argument.value))
    /\ Unchanged /\ UNCHANGED <<arena, answer>>

(* The awaited call returned: its value is the input of the state it       *)
(* resumes, or the result of the function whose tail call it was.          *)
ResumeAfterCall(m, s, value) ==
    LET resume == Targets(p, s)[1]
        resumed == StoredInput(m, resume, value, TRUE)
        drops == plan.w.edgeDrops[s]
    IN Continue(IF Top.awaits = "nested" THEN resumed ELSE Dropped(resumed, drops[resume]), resume, 1)

ReturnTailCall(m, s, value) ==
    ContinueWith(IF Top.awaits = "call" THEN Dropped(m, plan.w.edgeDrops[s][0]) ELSE m, s, value)

Received ==
    /\ Waiting /\ Top.received # <<>>
    /\ LET m == Released(Machine, Top.handed)
       IN IF Top.awaits # "transition" /\ Kind(p, Top.at) = "call"
          THEN ResumeAfterCall(m, Top.at, Top.received[1]) /\ UNCHANGED <<arena, answer>>
          ELSE ReturnTailCall(m, Top.at, Top.received[1])
    /\ Unchanged

-----------------------------------------------------------------------------
(* Suspended callers.  A field every recursive call hands on stays in its  *)
(* slot unless the slot owns it.  Sizes count leaves; a tagged frame,      *)
(* which shares the arena with others, has its tag and footer too.         *)
StaysInSlot(s, x) ==
    x \in plan.f.frame[s].passThrough /\ (IsManaged(p, x) => x \in plan.w.borrowed)
StoredFields(s) == SelectSeq(plan.f.frame[s].fields, LAMBDA x : ~StaysInSlot(s, x))
FrameSize(s, tagged) ==
    LET fields == StoredFields(s)
        leaves == FoldLeft(LAMBDA acc, x : acc + Len(p.types[x]), 0, fields)
        carried == IF plan.f.frame[s].environment THEN 1 ELSE 0
    IN IF tagged THEN leaves + carried + 2 ELSE Max({1, leaves + carried})

IsTagged == Cardinality(FrameSites(Top)) # 1
ArenaTop(frames) == FoldLeft(LAMBDA acc, frame : acc + frame.size, 0, frames)

(* Mutant of Reserved: the size of the retired frame is not compared.      *)
ReservedInPlace(s) ==
    IF s \in DOMAIN plan.f.replacement THEN arena.capacity
    ELSE Max({arena.capacity, ArenaTop(arena.frames) + FrameSize(s, IsTagged)})

(* A frame that fits where the last one retired needs no capacity check.   *)
Reserved(s) ==
    LET size == FrameSize(s, IsTagged)
        replaces == s \in DOMAIN plan.f.replacement /\ size <= FrameSize(plan.f.replacement[s], IsTagged)
    IN IF replaces THEN arena.capacity ELSE Max({arena.capacity, ArenaTop(arena.frames) + size})

Suspended(s, fields, values) ==
    LET stored == {i \in DOMAIN fields : ~StaysInSlot(s, fields[i])}
    IN [site |-> s, size |-> FrameSize(s, IsTagged),
        fields |-> [x \in {fields[i] : i \in stored} |-> values[CHOOSE i \in stored : fields[i] = x]],
        environment |-> IF plan.f.frame[s].environment THEN Top.environment ELSE 0]

FieldEffects(s) ==
    [i \in DOMAIN plan.f.frame[s].fields |->
        LET x == plan.f.frame[s].fields[i]
        IN IF x \in plan.w.borrowed \/ ~IsManaged(p, x) THEN "borrow" ELSE Use(s, x)]

(* Control moves to another function of the region, whose environment      *)
(* becomes the active one; a frame that carries the environment keeps the  *)
(* owner of the one left.  moved are the slots a suspension empties.       *)
LeftBehind(m, s, preserve) ==
    LET dropped == Dropped(m, plan.w.edgeDrops[s][0])
    IN IF preserve THEN dropped ELSE Released(dropped, Environment(dropped))

EnterTarget(m, code, argument) ==
    Continue(HandedOff(m, code, argument.value, argument.owned, "OwnedHandoff"), p.entries[code], 1)

EnterFunction(m, s, frames, closure, argument) ==
    LET entered == [m EXCEPT !.environment = closure.object]
        code == IF plan.k.mode[s] = "DirectRegion" THEN plan.k.target[s] ELSE closure.code
    IN IF code \in plan.r.targets[s] THEN EnterTarget(entered, code, argument)
       ELSE IF code = "" \/ plan.a.targets[s] \subseteq plan.r.targets[s] THEN Trap(entered)
       ELSE CallNative(entered, code, closure.object, argument.value, argument.value, "transition",
                       IF argument.owned THEN argument.value ELSE <<>>, Len(frames))

MoveTo(callee, argument, s, frames, moved, preserve) ==
    LET emptied == Vacated(argument.m, moved \union callee.moved \union argument.moved)
    IN IF callee.value = <<>> THEN Trap(callee.m)
       ELSE EnterFunction(LeftBehind(emptied, s, preserve), s, frames, callee.value[1], argument)

MoveFrom(callee, s, frames, moved, preserve) ==
    MoveTo(callee, Prepared(callee.m, Argument(p, s), Use(s, "argument")), s, frames, moved, preserve)

MoveWithin(m, s, frames, moved, preserve) ==
    MoveFrom(Prepared(m, Callee(p, s), Use(s, "callee")), s, frames, moved, preserve)

(* A recursive function that shares its frames with no other starts over.  *)
StartOver(s, saved, argument) ==
    LET m == Vacated(argument.m, saved.moved \union argument.moved)
        handed == HandedOff(m, Top.function, argument.value, argument.owned, "OwnedHandoff")
    IN Continue(Dropped(handed, plan.w.edgeDrops[s][0]), p.entries[Top.function], 1)

SuspendWith(s, saved) ==
    LET frames == Append(arena.frames, Suspended(s, plan.f.frame[s].fields, saved.values))
    IN /\ arena' = [frames |-> frames, capacity |-> Reserved(s)]
       /\ IF CommonRegion(Top.function) # {}
          THEN MoveWithin(saved.m, s, frames, saved.moved, plan.f.frame[s].environment)
          ELSE StartOver(s, saved, Prepared(saved.m, Argument(p, s), Use(s, "argument")))

Suspend(s) ==
    /\ At(s, "call") /\ Top.version # "native" /\ s \in DOMAIN plan.f.frame
    /\ SuspendWith(s, PreparedAll(Machine, plan.f.frame[s].fields, FieldEffects(s)))
    /\ Unchanged /\ UNCHANGED answer

Transition(s) ==
    /\ At(s, "tailcall") /\ plan.k.mode[s] \in {"DirectRegion", "Dispatch"} /\ ~IsNativeCall(s)
    /\ MoveWithin(Machine, s, arena.frames, {}, FALSE)
    /\ Unchanged /\ UNCHANGED <<arena, answer>>

-----------------------------------------------------------------------------
Init ==
    /\ \E family \in DOMAIN Programs : form \in Programs[family]
    /\ techniques = {} /\ meaning = NoAnswer /\ plan = <<>> /\ stack = <<>> /\ heap = <<>> /\ faults = {}
    /\ log = 0 /\ answer = NoAnswer /\ arena = [frames |-> <<>>, capacity |-> 0]

(* Functions bound at top level stand for their names.                     *)
Known(converted) ==
    [functions |-> [f \in {converted.functions[i].id : i \in DOMAIN converted.functions} |->
                       converted.functions[CHOOSE i \in DOMAIN converted.functions : converted.functions[i].id = f].function],
     types |-> converted.types, literals |-> converted.literals, entry |-> converted.entry]

(* A pass of the compiler gives the program its next form.                 *)
Passes(stage, next, of) ==
    /\ form.stage = stage
    /\ form' = [stage |-> next, of |-> of]
    /\ UNCHANGED <<stack, arena, heap, faults, log, answer>>

LowerCore ==
    /\ Passes("checked", "core", Core!LoweredProgram(form.of))
    /\ meaning' = Source!SourceMeaning(form.of)
    /\ UNCHANGED <<techniques, plan>>
LowerAnf == Passes("core", "linear", Conversion!LinearProgram(form.of)) /\ UNCHANGED <<techniques, meaning, plan>>
ConvertClosures == Passes("linear", "closure", Known(Conversion!ConvertedProgram(form.of))) /\ UNCHANGED <<techniques, meaning, plan>>

(* The optional techniques are fixed when the closure program is complete. *)
CallsSpecialized(c, enabled) == IF "CallPattern" \in enabled THEN Specialized(c) ELSE c
ResultsSpecialized(c, enabled) == IF "ContinuationSpecialization" \in enabled THEN Fused(c) ELSE c
Specialize ==
    /\ \E enabled \in TechniqueSets :
          /\ techniques' = enabled
          /\ Passes("closure", "complete", ResultsSpecialized(CallsSpecialized(form.of, enabled), enabled))
    /\ meaning' = IF meaning = NoAnswer THEN Meaning(form.of) ELSE meaning
    /\ UNCHANGED plan

LowerControl == Passes("complete", "control", Lower(form.of)) /\ UNCHANGED <<techniques, meaning, plan>>
PlanCalls ==
    /\ Passes("control", "called", <<>>)
    /\ plan' = PlannedCalls(form.of, techniques)
    /\ UNCHANGED <<techniques, meaning>>
PlanOwnership ==
    /\ Passes("called", "planned", <<>>)
    /\ plan' = WithOwnership(plan)
    /\ UNCHANGED <<techniques, meaning>>

Build ==
    LowerCore \/ LowerAnf \/ ConvertClosures \/ Specialize \/ LowerControl \/ PlanCalls \/ PlanOwnership

(* The host calls the entry function.                                      *)
Start ==
    /\ form.stage = "planned" /\ stack = <<>> /\ answer = NoAnswer /\ faults = {}
    /\ LET none == [slots |-> <<>>, environment |-> 0, heap |-> <<>>, faults |-> {}, log |-> 0]
           argument == <<Leaf(0, "", 0)>>
           entered == Entered(none, p.entry, 0, argument)
       IN /\ \E version \in Versions(p.entry) :
                stack' = <<Activation(p.entry, version, 0, entered, argument)>>
          /\ Commit(entered)
    /\ Unchanged /\ UNCHANGED <<arena, answer>>

Step ==
    \/ Bind \/ Received
    \/ Active /\ \E s \in ProgramStates(p) :
          \/ Return(s) \/ Goto(s) \/ Jump(s) \/ Branch(s) \/ Case(s) \/ SelfTail(s)
          \/ Call(s, "call") \/ Call(s, "tailcall") \/ NestedCall(s) \/ Suspend(s) \/ Transition(s)

Ended == answer # NoAnswer \/ faults # {}
Done == Ended /\ UNCHANGED vars

Next == Build \/ Start \/ Step \/ Done

(* A machine runs on while its program has not ended: weak fairness of     *)
(* every action but Done, one of which is enabled until then.              *)
Fairness == []<>Ended \/ []<><<TRUE>>_vars
Spec == Init /\ [][Next]_vars /\ Fairness

-----------------------------------------------------------------------------
(* Who owns what: managed slots that borrow from nobody, the environments  *)
(* a common region runs in or a frame keeps, the fields of suspended       *)
(* frames, what waits for a call to end, and the parts of live owners.     *)
OwnedNames(names) == {x \in names : IsManaged(p, x)} \ plan.w.borrowed
HeldBy(fields) == FoldSet(LAMBDA x, held : held \o fields[x], <<>>, OwnedNames(DOMAIN fields))
HeldByActivation(activation) ==
    HeldBy(activation.slots) \o activation.handed \o FlattenSeq(activation.received)
        \o (IF CommonRegion(activation.function) # {} THEN <<Leaf(0, "", activation.environment)>> ELSE <<>>)
HeldByFrame(frame) == HeldBy(frame.fields) \o <<Leaf(0, "", frame.environment)>>
Held ==
    FlattenSeq([i \in DOMAIN stack |-> HeldByActivation(stack[i])])
        \o FlattenSeq([i \in DOMAIN arena.frames |-> HeldByFrame(arena.frames[i])])
        \o FlattenSeq([i \in DOMAIN heap |-> FlattenSeq(heap[i].parts)])

CountsMatchOwners ==
    faults = {} =>
        LET held == Held
        IN \A x \in DOMAIN heap : heap[x].count = Cardinality({i \in DOMAIN held : held[i].object = x})

OperandsLive == "used after release" \notin faults
NeverTrapped == faults \intersect {"unreachable", "rejected"} = {}
FramesFit == ArenaTop(arena.frames) <= arena.capacity
RegionsNestOnce ==
    \A i, j \in DOMAIN stack :
        (i < j /\ plan.r.function[stack[j].function] # {}
               /\ plan.r.function[stack[i].function] = plan.r.function[stack[j].function])
            => stack[i].version = "native"

(* Every plan conserves responsibility by rules of its own, those the      *)
(* compiler asserts of each ownership plan it makes                        *)
(* (execution/ownership/validation.rs).                                    *)
ResponsibilitiesConserved == form.stage = "planned" /\ stack = <<>> => PreservesResponsibilities(plan)

Promise == INSTANCE ProgramAnswers
ImplementsMeaning == Promise!Spec
=============================================================================

--------------------------- MODULE NameResolution ---------------------------
(***************************************************************************)
(* Name identity, lexical scope and capture inference (mal-frontend,       *)
(* resolve).  The resolver walks the items of one parsed file, which a     *)
(* behaviour takes in the order the walk meets them, whatever they are.    *)
(* A name becomes the identity of the innermost binding that declares it.  *)
(* When another lambda owns that binding, every lambda between the two     *)
(* captures it from the lambda around it, one loop iteration after the     *)
(* other, so that a closure is only ever built from what its surroundings  *)
(* hold.  Types, spans and the kinds of expressions are left out.          *)
(***************************************************************************)
EXTENDS Integers, SequencesExt

CONSTANTS
    Identifiers,        \* names a file may use
    PredefinedNames,    \* the predefined values in reserved identity order
    MostValues,         \* identities the walk may give out (bound)
    MostLambdas,        \* lambdas it may meet (bound)
    Deepest             \* constructs open at a time (bound)

ASSUME PredefinedAssumption ==
    PredefinedNames \in Seq(Identifiers) /\ IsInjective(PredefinedNames)

VARIABLES
    stage,          \* declaring, items, failed or panic
    scopes,         \* value_scopes: what each name stands for, 0 where it is not declared
    owners,         \* the owner of the identities given out so far
    origin,         \* the declaration each identity stands for (history)
    families,       \* operation_families: identities that take implementations
    lambdas,        \* lambda_frames: identity, self_binding (0 for none) and captures
    current,        \* current_lambda, 0 for None
    nextLambda,
    open,           \* the constructs the walk is inside of and the lambda around each
    reference       \* the reference resolved last: its identity up to the frame at

names == <<stage, scopes, owners, origin, families, lambdas, current, nextLambda, open, reference>>

Owner(kind, lambda) == [kind |-> kind, lambda |-> lambda]
Predefined == Owner("predefined", 0)
TopLevel == Owner("top", 0)

NothingDeclared == [n \in Identifiers |-> 0]
NoReference == [name |-> "", id |-> 0, at |-> 0]

\* Resolver::new: the file scope holds the predefined names.
InitNames ==
    /\ stage = "declaring"
    /\ scopes = <<[n \in Identifiers |->
                     IF n \in Range(PredefinedNames)
                     THEN CHOOSE i \in DOMAIN PredefinedNames : PredefinedNames[i] = n
                     ELSE 0]>>
    /\ owners = [i \in DOMAIN PredefinedNames |-> Predefined]
    /\ origin = [i \in DOMAIN PredefinedNames |-> i]
    /\ families = {}
    /\ lambdas = <<>> /\ current = 0 /\ nextLambda = 1
    /\ open = <<>>
    /\ reference = NoReference

\* A reference on its way through the frames; nothing else happens meanwhile.
Capturing == reference.at \in DOMAIN lambdas
Walking == stage = "items" /\ ~Capturing

Reject ==
    /\ stage' = "failed"
    /\ UNCHANGED <<scopes, owners, origin, families, lambdas, current, nextLambda, open, reference>>

IsDeclared(n) == Last(scopes)[n] # 0
NewId == Len(owners) + 1

\* allocate_value_binding of as many declarations as `given` owners.
Allocate(given) ==
    /\ Len(owners) + Len(given) <= MostValues
    /\ owners' = owners \o given
    /\ origin' = origin \o [i \in DOMAIN given |-> Len(owners) + i]

InScope(n, id) == [scopes EXCEPT ![Len(scopes)][n] = id]

\* predeclare_unit_names: an external operation, with the lambda later stages know it by.
PredeclareExternal(n) ==
    /\ stage = "declaring"
    /\ IF IsDeclared(n) THEN Reject
       ELSE /\ Allocate(<<TopLevel>>)
            /\ nextLambda <= MostLambdas
            /\ scopes' = InScope(n, NewId)
            /\ nextLambda' = nextLambda + 1
            /\ UNCHANGED <<stage, families, lambdas, current, open, reference>>

ResolveItems ==
    /\ stage = "declaring"
    /\ stage' = "items"
    /\ UNCHANGED <<scopes, owners, origin, families, lambdas, current, nextLambda, open, reference>>

\* Who owns a binding here; in a construct outside every lambda nobody does.
HasOwner == open = <<>> \/ current # 0
LocalOwner == IF open = <<>> THEN TopLevel ELSE Owner("lambda", current)

\* declare_value, for a name of a pattern of an item, of a lambda or of a branch.
Declare(n) ==
    /\ Walking
    /\ IF ~HasOwner \/ IsDeclared(n) THEN Reject
       ELSE /\ Allocate(<<LocalOwner>>)
            /\ scopes' = InScope(n, NewId)
            /\ reference' = NoReference
            /\ UNCHANGED <<stage, families, lambdas, current, nextLambda, open>>

\* A generic signature without a value declares an operation family.
DeclareFamily(n) ==
    /\ Walking /\ open = <<>>
    /\ IF IsDeclared(n) THEN Reject
       ELSE /\ Allocate(<<TopLevel>>)
            /\ scopes' = InScope(n, NewId)
            /\ families' = families \cup {NewId}
            /\ reference' = NoReference
            /\ UNCHANGED <<stage, lambdas, current, nextLambda, open>>

\* resolve_lambda_with_self up to the parameter.
EnterLambda(self) ==
    /\ Len(open) < Deepest /\ nextLambda <= MostLambdas
    /\ lambdas' = Append(lambdas, [id |-> nextLambda, self |-> self, captures |-> <<>>])
    /\ current' = nextLambda
    /\ nextLambda' = nextLambda + 1
    /\ open' = Append(open, [kind |-> "lambda", outer |-> current])
    /\ reference' = NoReference

OpenLambda ==
    /\ Walking
    /\ EnterLambda(0)
    /\ scopes' = Append(scopes, NothingDeclared)
    /\ UNCHANGED <<stage, owners, origin, families>>

\* resolve_binding of an annotated name whose value is a lambda: it is declared before.
OpenOwnLambda(n) ==
    /\ Walking
    /\ IF ~HasOwner \/ IsDeclared(n) THEN Reject
       ELSE /\ Allocate(<<LocalOwner>>)
            /\ EnterLambda(NewId)
            /\ scopes' = Append(InScope(n, NewId), NothingDeclared)
            /\ UNCHANGED <<stage, families>>

\* An implementation's lambda refers to itself by the family.
OpenImplementation(n) ==
    /\ Walking
    /\ open = <<>> /\ scopes[1][n] \in families
    /\ EnterLambda(scopes[1][n])
    /\ scopes' = Append(scopes, NothingDeclared)
    /\ UNCHANGED <<stage, owners, origin, families>>

EnterBlock(kind, scope) ==
    /\ Len(open) < Deepest
    /\ scopes' = Append(scopes, scope)
    /\ open' = Append(open, [kind |-> kind, outer |-> current])
    /\ reference' = NoReference
    /\ UNCHANGED <<stage, families, lambdas, current, nextLambda>>

\* resolve_expression_block.
OpenBlock ==
    /\ Walking
    /\ EnterBlock("block", NothingDeclared)
    /\ UNCHANGED <<owners, origin>>

\* A lambda literal that eliminates a sum inside a lambda is a branch of that lambda.
OpenBranch ==
    /\ Walking /\ current # 0
    /\ EnterBlock("branch", NothingDeclared)
    /\ UNCHANGED <<owners, origin>>

\* resolve_result_block: the binders belong to the running invocation of the lambda.
OpenResultBlock(binders) ==
    /\ Walking
    /\ IF current = 0 \/ ~IsInjective(binders) THEN Reject
       ELSE /\ Allocate([i \in DOMAIN binders |-> Owner("result", current)])
            /\ EnterBlock("result",
                 [n \in Identifiers |->
                    IF n \in Range(binders)
                    THEN Len(owners) + (CHOOSE i \in DOMAIN binders : binders[i] = n)
                    ELSE 0])

\* The end of the innermost construct: pop_scope, and for a lambda its frame too.
Close ==
    /\ Walking /\ open # <<>>
    /\ scopes' = Front(scopes)
    /\ open' = Front(open)
    /\ IF Last(open).kind = "lambda"
       THEN lambdas' = Front(lambdas) /\ current' = Last(open).outer
       ELSE UNCHANGED <<lambdas, current>>
    /\ reference' = NoReference
    /\ UNCHANGED <<stage, owners, origin, families, nextLambda>>

\* lookup_value: the innermost scope that declares the name.
Declaring(n) == {i \in DOMAIN scopes : scopes[i][n] # 0}
Lookup(n) == scopes[CHOOSE i \in Declaring(n) : \A j \in Declaring(n) : j <= i][n]

Resolved(n, id) == reference' = [name |-> n, id |-> id, at |-> Len(lambdas) + 1]

\* Mutant of FirstFrame: only the lambda of the reference captures, and none around it.
InnermostFrame(owner) == IF \E i \in DOMAIN lambdas : lambdas[i].id = owner THEN Len(lambdas) ELSE 0

\* The frame below the owner's, 0 when the owner is not on the stack.
FirstFrame(owner) ==
    IF \E i \in DOMAIN lambdas : lambdas[i].id = owner
    THEN (CHOOSE i \in DOMAIN lambdas : lambdas[i].id = owner) + 1
    ELSE 0

\* resolve_value_reference up to its loop.
Refer(n) ==
    /\ Walking
    /\ IF Declaring(n) = {} THEN Reject
       ELSE LET id == Lookup(n)
                owner == owners[id]
            IN  IF owner.kind \in {"predefined", "top"} \/ owner.lambda = current
                THEN Resolved(n, id) /\ UNCHANGED stage
                ELSE IF owner.kind = "result"
                THEN stage' = "failed" /\ UNCHANGED reference
                ELSE IF FirstFrame(owner.lambda) = 0
                THEN stage' = "panic" /\ UNCHANGED reference
                ELSE /\ reference' = [name |-> n, id |-> id, at |-> FirstFrame(owner.lambda)]
                     /\ UNCHANGED stage
    /\ UNCHANGED <<scopes, owners, origin, families, lambdas, current, nextLambda, open>>

CapturedIn(frame, id) == {i \in DOMAIN frame.captures : frame.captures[i].source = id}

\* One iteration of the loop, with capture_in_frame.
Capture ==
    /\ stage = "items" /\ Capturing
    /\ LET at == reference.at
           id == reference.id
           frame == lambdas[at]
           Forward(to) == reference' = [reference EXCEPT !.id = to, !.at = at + 1]
       IN  IF frame.self = id
           THEN Forward(id) /\ UNCHANGED <<owners, origin, lambdas>>
           ELSE IF CapturedIn(frame, id) # {}
           THEN /\ \E i \in CapturedIn(frame, id) : Forward(frame.captures[i].binding)
                /\ UNCHANGED <<owners, origin, lambdas>>
           ELSE /\ Len(owners) < MostValues
                /\ owners' = Append(owners, Owner("lambda", frame.id))
                /\ origin' = Append(origin, origin[id])
                /\ lambdas' = [lambdas EXCEPT
                                 ![at].captures = Append(@, [source |-> id, binding |-> NewId])]
                /\ Forward(NewId)
    /\ UNCHANGED <<stage, scopes, families, current, nextLambda, open>>

NextNames ==
    \/ \E n \in Identifiers : PredeclareExternal(n)
    \/ ResolveItems
    \/ \E n \in Identifiers : Declare(n)
    \/ \E n \in Identifiers : DeclareFamily(n)
    \/ OpenLambda
    \/ \E n \in Identifiers : OpenOwnLambda(n)
    \/ \E n \in Identifiers : OpenImplementation(n)
    \/ OpenBlock
    \/ OpenBranch
    \/ \E n \in Identifiers : OpenResultBlock(<<n>>)
    \/ \E n, m \in Identifiers : OpenResultBlock(<<n, m>>)
    \/ Close
    \/ \E n \in Identifiers : Refer(n)
    \/ Capture

NamesSpec == InitNames /\ [][NextNames]_names

-----------------------------------------------------------------------------
(* Properties. *)

\* The types of the resolver's tables; its panic is not a stage that is reached.
NamesTypeOK ==
    /\ stage \in {"declaring", "items", "failed"}
    /\ scopes \in Seq([Identifiers -> Nat]) /\ scopes # <<>>
    /\ owners \in Seq([kind : {"predefined", "top", "lambda", "result"}, lambda : Nat])
    /\ origin \in Seq(Nat) /\ Len(origin) = Len(owners)
    /\ families \subseteq Nat
    /\ lambdas \in Seq([id : Nat, self : Nat, captures : Seq([source : Nat, binding : Nat])])
    /\ current \in Nat /\ nextLambda \in Nat \ {0}
    /\ open \in Seq([kind : {"lambda", "block", "branch", "result"}, outer : Nat])
    /\ reference \in [name : Identifiers \cup {""}, id : 0..Len(owners), at : 0..Len(lambdas) + 1]

\* What the lambda of frame i can name: what it owns, and the closure it is itself.
Holds(i, id) == owners[id] = Owner("lambda", lambdas[i].id) \/ id = lambdas[i].self

\* A closure can be built where its lambda is written: what it captures is held by the lambda
\* around it, each thing once, and is never the closure itself, which is not there yet
\* (resolve/mod.rs, LambdaFrame::self_binding); inside it stands for the same declaration.
CapturesHeldOutside ==
    \A i \in DOMAIN lambdas :
        \A c \in DOMAIN lambdas[i].captures :
            LET captured == lambdas[i].captures[c]
            IN  /\ i > 1 /\ Holds(i - 1, captured.source)
                /\ captured.source # lambdas[i].self
                /\ owners[captured.binding] = Owner("lambda", lambdas[i].id)
                /\ origin[captured.binding] = origin[captured.source]
                /\ \A d \in DOMAIN lambdas[i].captures :
                       lambdas[i].captures[d].source = captured.source => d = c

\* A reference stands for the innermost declaration of its name, whatever it was captured
\* through, and is visible everywhere, a binder of the running invocation, or held by the
\* lambda it has come to.
ReferencesLexical ==
    reference.at > 0 =>
        /\ Declaring(reference.name) # {}
        /\ origin[reference.id] = Lookup(reference.name)
        /\ \/ owners[reference.id].kind \in {"predefined", "top"}
           \/ owners[reference.id] = Owner("result", current)
           \/ reference.at > 1 /\ Holds(reference.at - 1, reference.id)

\* Every name resolves lexically, and the owner of a name in scope is always on the stack
\* ("an in-scope lambda-owned value has an active owner", resolve/expression.rs:323).
NamesResolve == stage # "panic" /\ CapturesHeldOutside /\ ReferencesLexical
=============================================================================

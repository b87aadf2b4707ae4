# Verification of mal

mal is a functional language with its compiler (`malc`), formatter and language server, written in Rust, and a small
C11 runtime that compiled programs link. This directory models the parts of it where state, order and sharing make the
program hard to test: TLA+ modules, TLC configurations for small instances, and TLAPS proofs for every value of the
constants.

    tlc -config MCSymbols.cfg MCSymbols.tla      # one run
    tlapm Symbols_proofs.tla                     # one proof module

`PROJECT.json` lists the runs, the definitions with the lines they model, the hazards, the mutants and the theorems.

## Inventory

The workspace has seven crates under `src/crates/`; 82,700 lines of Rust with tests, and the runtime.

| Part | State it keeps | Operations | Hard behaviour |
| --- | --- | --- | --- |
| `mal-syntax` lexer, parser | none between calls | text to tokens to syntax | none modelled: pure |
| `mal-syntax/graph.rs`, `requirement.rs` | files, edges, C sources, per path unseen/loading/loaded, an explicit stack | load a program depth first, overlays before disk | cycles, diamonds, repeated requirements, every error path, termination |
| `mal-frontend/resolve` | per file mark and exports, stack of active files, scopes | second walk over the graph; import names; resolve a file after its dependencies | two walks that must agree; a panic if they do not |
| `mal-frontend/check` | substitutions, specialization worklist | types, kinds, specialization | termination of the worklist |
| `mal-frontend/editor` | an index built from one analysis | hover, references, rename | staleness, seen from the server |
| `mal-backend` middle passes (core, anf, closure, call_pattern, continuation_specialization, control, flow) | program trees | tree rewrites, fixpoints | soundness of each rewrite |
| `mal-backend/execution` | plans: regions, frames, calls, ownership | decide who owns a value where, which frame is reused, what recurses natively | aliasing, last uses, merges of paths |
| `mal-backend/backend/llvm` | emitted bodies: slots, local top, cached view of the arena | emit LLVM from the plans | locals stale after a call |
| runtime `bytes.c`, `symbol.c` | counted byte owners with start, length, capacity; Symbol views | copy, share, slice, concatenate, extend in place | in-place change of a shared owner; realloc |
| runtime `buffer*.c` | Buffer objects: inline or flat storage, elements | reserve, replace, ranges, conversions | overlapping ranges, self-append, adoption of storage |
| runtime `pool.c` | header, bitmap, payload, capacity | grow, peek, swap, destroy | bitmap copied by bytes; relocation |
| runtime `control.c` | arena storage and capacity, native stack limit | reserve, grow, destroy; is-deep | relocation under cached pointers; unsigned limits |
| `mal-compiler` | a temporary directory per build | build, emit, format from the command line | concurrent builds, crashes, reused process ids |
| `mal-lsp` | open documents, their analyses, what was published | one JSON-RPC message at a time | invalidation through files a document never names |
| `mal-fmt`, `mal-backend-macros`, editors, scripts, examples | none | | |

How they interact. `malc` and `mal-lsp` load a source graph, analyse it and, in `malc`, hand it to the backend, whose
plans say for every binding whether it owns, borrows, moves or shares. The emitted LLVM calls the runtime, and runtime
correctness rests on the plans: a count is right only if every owner releases once, and an owner is extended in place
only when the plan says its last use is here. Compiled programs are single-threaded, so "interleaving" below is the
freedom of a program to call these operations in any order. The language server is single-threaded too: it reads one
message, handles it and writes every answer before it reads the next (`mal-lsp/src/main.rs`), which is why a message is
one step.

## Modules

| Module | Extends | Models | Promise it is checked against |
| --- | --- | --- | --- |
| `Symbols` | | `bytes.c`, `symbol.c` and the concatenation plan of `symbol_concat.rs` | `SymbolValues` |
| `StorageCapacities` | | `mal_bytes_capacity`, `mal_pool_growth_capacity` | |
| `ByteConversions` | `Symbols` | `buffer_symbol.c`, byte Buffers of `buffer.c` | `ByteValues` |
| `ManagedBuffer` | | `buffer_range.c`, `buffer.c`, `buffer_host.c` with counted elements | |
| `Pool` | | `pool.c` | `PoolValues` |
| `NativeStack` | | the native stack limit of `control.c` and the guard that uses it | |
| `ControlArena` | `NativeStack` | `control.c`, frames and calls of emitted bodies | `ControlStack` |
| `Requirements`, `SourceGraph` | | what a text requires; `graph.rs` | a reference definition by reachability |
| `FileResolution` | `SourceGraph` | `resolve/files.rs` | a reference definition without order |
| `CompilerDriver` | `FileResolution` | `driver/build.rs`, `driver/files.rs`: a build that loads, resolves and writes among other builds | |
| `NameResolution` | | the other files of `resolve/`: names, scopes and captures of one file | |
| `LanguageServer` | `Requirements` | `server/mod.rs`, `server/analysis.rs` | a fresh analysis of the current texts |
| `SourceMeaning` | | what a checked program computes, from `docs/spec` and the checked syntax | |
| `CoreLowering` | | `core/`: blocks, completions, joins | `SourceMeaning` |
| `ClosureConversion` | | `anf/`, `closure/mod.rs` | `SourceMeaning` |
| `ClosureMeaning` | `ControlProgram` | what a closure program computes | |
| `CallPattern` | `CallPlan` | `call_pattern/`: copies for the functions handed over, captures as arguments | `ClosureMeaning` |
| `ContinuationSpecialization` | `CallPattern` | `continuation_specialization/`: a call and the one application of its result as one call of a worker | `ClosureMeaning` |
| `ControlProgram` | | `control/`: blocks to states | `ClosureMeaning` |
| `CallPlan` | `ControlProgram` | `execution/`: applications, optimizations, regions, calls, frames | |
| `OwnershipPlan` | `CallPlan` | `execution/ownership/`: who owns, borrows, shares, moves, drops | |
| `ResponsibilityChecks` | `OwnershipPlan` | `execution/ownership/validation.rs`: the rules a plan keeps | |
| `EmittedProgram` | the forms and passes above | the emitted states of `backend/llvm/body`, run on their own | `ProgramAnswers` |

The `MC` modules give the constants values for TLC. Eight modules hold theorems: `Symbols_proofs` and
`ByteConversions_proofs`, `ManagedBuffer_proofs`, `Pool_proofs`, `ControlArena_proofs`, `Requirements_proofs`,
`CompilerDriver_proofs` and `LanguageServer_proofs`.

### Bytes: `Symbols` and `ByteConversions`

`heap` is the owner header of `bytes_internal.h` (`references`, `length`, `capacity`, `start`, bytes); a freed or
uninitialised byte is `Junk`. `live`, `view` and `lender` are what the emitted code has per binding: a binding with a
lender borrows and holds no reference. An address is an owner and an offset, so a `realloc` that moves is a change of
owner and an old view dangles. One action is one operation with every retain, release and copy it makes:
`ConsumingLeft` is `mal_runtime_symbol_concatenate_consuming_left` with its empty-operand cases, the extension in place,
and the drop of the lenders that end there. Bytes are the identities of their origins; comparing and printing them
changes nothing and is left out. `ByteConversions` adds Buffer objects with handles and the copying and consuming
conversions; storage adopted in either direction must leave its old holder.

`ViewsReadable` says that no live window reads moved, freed or uninitialised bytes; `ReferencesMatchHolders` that a count is the number of
owners; `ExtendsOnlyUnshared` that nobody else looks at storage that changes; `ImplementsValues` and
`ImplementsByteValues` that a program sees immutable strings and plain mutable Buffers.

The runs use `AliasedOperands = FALSE`: a concatenation whose other operand borrows from the consumed one is a
disagreement of its own (see Findings), shown by the run `symbols_aliased`.

### `ManagedBuffer`

Elements refer to counted objects. A range operation is a sequence of retain and release events in the order of the
loops of `buffer_range.c`; an event on an object whose count is already zero sets `faulted`. The properties say that no
order loses, repeats or outlives a reference, also when a Buffer is copied onto or appended to itself.

### `Pool`

`live` is the bitmap, of which growth copies whole bytes; `payload` is the backing. `LiveWithinCapacity` is the fact that
makes growth right: a bit above the capacity would turn into an occupied coordinate the program never wrote. Coordinates
in range are the caller's duty in the code and a guard in the model. A trivial Pool is the same storage without counts.

### `ControlArena` and `NativeStack`

An activation is one native call of an emitted body. A unit is a control region (a strongly connected set of functions,
emitted as one body) or a function outside every region. A call inside a region pushes a frame and branches
(`emit_frame_call`), a return pops or leaves (`emit_continuation_return`), any other call is native. In production a body
with frames keeps `%mal_local_control_top` and a view (storage and capacity) in locals; the model keeps them per
activation and lets `realloc` return the same or another block. A write through a view of a freed block is lost, and a
read of one gives any frame. `localizing` distinguishes production from baseline builds, where every access goes through
the runtime. A unit with a native version nests native calls until the stack is deep and continues in its frames version.
Which frame a site may replace is decided by a dataflow (`execution/frame/replacement.rs`); the model lets a site replace
any frame retired on the path to it if it is large enough, or reserve, which covers every outcome of the dataflow.

`FrameAddressesCurrent` states the comment on `mal_control_reserve_frame`; `FramesWithinStorage` that no frame reaches
past the capacity, also when it took the place of another; `ImplementsControlStack` says that each body has a private
stack of suspended calls. `NativeStack` computes the limit in unsigned words; the mapping of the native stack is chosen
when the program is entered, and `NativeStackKept` says that the innermost activation and the fallback are always within
it. An activation and the fallback together are assumed to fit the reserve.

### Files and builds: `SourceGraph`, `FileResolution`, `CompilerDriver`

The program is chosen in `Init`: each path holds a text, abstracted to what it requires and declares and whether its
header and body parse. The steps are those of the loops over explicit stacks. `LoadsWhatIsRequired` compares the result
with a reference definition that has no stack; `DependenciesFirst` is the `expect` of `resolve_file`.

Builds of one process share a counter; a number is taken and the directory created in two steps. A process can end
without drops, and its id can come back with the counter at zero. In `CompilerDriver` a build that has loaded its program
takes a directory while its files are resolved; the other builds meet it in the directories only.

### Names: `NameResolution`

`resolve()` walks the tree of one parsed file. The tree is not in the state: a behaviour takes the steps of the walk in any
order that some file has, so that its files are all files. `scopes` is `value_scopes`, `lambdas` is `lambda_frames` with
`captured_sources` read off `captures`, and `open` says what the walk is inside of, with the `outer_lambda` that each
construct gives back when it ends. An identity is its place in `owners`; `origin` is a history variable, the declaration
that an identity made by a capture goes back to. A reference to a name of an outer lambda takes one step per frame
(`Capture`, an iteration of the loop of `resolve_value_reference`), in which the frame finds itself (`self_binding`), finds
an earlier capture or makes one. Nothing else happens until it has arrived.

`NamesResolve` puts together what the later passes take for granted: the owner of a name in scope is on the stack (else the
resolver panics), a reference stands for the innermost declaration however many lambdas it came through, and a lambda
captures only what the lambda around it holds, each thing once, and never the closure that it is itself. Names that come
from other files are left to `FileResolution`; `begin_file` is the start of each walk. In the run a file that requires
nothing is walked after it is resolved.

### `LanguageServer`

`documents` has the open buffers with version, analysis and last published report; `disk` the files. A handler is one
action including `publish_workspace_diagnostics`, which analyses every stale document. `client` is what the editor shows.
`ShownIsCurrent` compares it with the diagnostics of the texts of this moment. Only the editor writes files, and only
those whose buffer is open: the server has no handler for other changes.

### The backend: from checked programs to emitted code

`EmittedProgram` builds one program and runs it. Its first actions are the passes, in the order of the compiler: each
takes the program in its present form and makes the next one, with operators that are functions of the program, as the
passes are (`LoweredProgram`, `LinearProgram`, `ConvertedProgram`, `Specialized`, `Fused`, `Lower`, `PlannedCalls`,
`WithOwnership`). A program enters as a checked program or as a closure program. Then the emitted code runs: a machine of
activations with slots, an environment and a pending result, a control arena with frames, a heap of counted owners, and a
log of what the host was called with. One action is one emitted state with the effects its plan gives it: shares, moves
and drops before the operation, what a suspended frame keeps, and what is dropped on the edge that is taken. A use of an
owner after its release, a use of an empty slot and a state that the emission declares unreachable are faults, at which a
run stops.

Which plan an argument is follows from its letter: p program, a applications, o optimizations, r regions, k calls,
f frames, n native recursion, w ownership; x is the record of all of them. A technique is one of the eight that
`optimization/mod.rs` lets a build enable; the model computes the program's meaning before any of them.

`Fused` follows `continuation_specialization`: the one demand of a program (a call whose result is applied once, with
nothing in between), the calls and closures its result may come from, the functions that run for it, and a provenance of
closures that must show that nothing else uses them. An admitted slice is evaluated symbolically (`Fuse`) into workers
that take captures, argument and the argument of the result at once; a function met again while it is evaluated becomes a
call of its worker. Any failure leaves the program as it was, as in the code.

Programs are first-order data: names are strings, unique as value ids are; a type is a sequence of leaf types, of which
`int` is copied and the others have owners; a text is a number that tells from which texts, and in which order, it was
made. Unit values, layouts and arithmetic beyond adding, subtracting and comparing are left out.

`ResponsibilitiesConserved` is the validator that a debug build asserts on every plan: along each path of control an owner
is consumed, dropped or live, once. `OperandsLive`, `NeverTrapped` and `CountsMatchOwners` are what the plan promises the
program that runs, and do not take the validator's word for it; `FramesFit` and
`RegionsNestOnce` what the frame and call plans promise the arena; `ImplementsMeaning` that a program ends, once, with the
answer and the log that its source means, whichever techniques are on.

## Runs and bounds

| Run | States | Bounds, and why they suffice |
| --- | --- | --- |
| `symbols` | 355,999 | three bindings and owners: a consumed operand, its other operand and a third observer; lengths to 3 with capacities from 1, so that append, prepend, realloc, headroom and shared windows occur |
| `symbols_aliased` | violation | the same with aliased operands |
| `conversions` | 50,976 | two bindings, two owners, one Buffer with two handles, lengths to 3, inline storage and first capacity of one byte: promotion, adoption and refusal in both directions |
| `managed_buffer` | 12,228 | two objects and Buffers, three elements: overlap to the left, right and in place |
| `pool` | 210,912 | bytes of two bits, five coordinates: growth meets a byte used in part, and overflow |
| `control_arena` | 65,722 | two regions, one with two frame sizes and one with a native version; a leaf, a helper; growth from 3 to the size limit 13; a native stack longer than the budget and one that ends before it |
| `control_nested` | violation | the same in production, with a helper between the two regions |
| `compiler_driver` | 521,134 | three files and fourteen texts: cycles, diamonds, repetitions, each error; two builds of a reused process id, two attempts, numbers to 3; for one file, every walk over two names, one of them predefined, with four identities, three lambdas and three constructs inside each other: a capture through one frame into another, and a closure that refers to itself from within |
| `language_server` | 46,416 | three files, two versions: a chain, a cycle, errors in each place |
| `emitted_program` | 309,604 | thirty-one families of programs with two or three rounds of each recursion, without the 116 of `emitted_jumped`, under seven sets of techniques that enable, disable and mix every two of them |
| `emitted_jumped` | violation | the 116 programs of the same 1117 in which a jump moves an owner that its join reads |
| `emitted_order` | violation | a sum with a host call on the left and control on the right |

The bounds are constants: `MaxLength`, `MaxHeld`, `MaxCount`, `MaxVersion`, `MaxSequence`, `BuiltSources`, `MostValues`, `MostLambdas`, `Deepest`. The others
(`SizeMax`, `StackLimit`, `BitsPerByte`, `InitialCapacity`, `Attempts`, `InlineBytes`, `MaxAddress`, `Budget`) are the
code's own numbers made small. Symmetry is over interchangeable bindings, owners, objects and handles, in runs of
properties without liveness.

The families of `MCEmittedProgram` and `MCCheckedPrograms` are programs written down with alternatives in every place that
a plan looks at: what is read after a call, what a call is given, what is captured, on which branch a name dies.
Each family is divided by what the plan without optional techniques does with the values of jumps
(`JumpsWithOwner`): `MCPrograms` has the programs in which no jump moves an owner that its join reads, `MCJumping` the
others, from `Dispatching`, `Building`, `Choosing`, `Joining`, `Leaving` and `Looping`. The six other sets of techniques
divide them in the same way. So `emitted_program` shows nothing of such jumps, as `symbols` shows nothing of aliased
operands.
`Currying` has functions that are made and applied at once, through aliases, calls, choices, callbacks and recursion, and
the shapes next to them that the plan must refuse: applied twice, with an effect in between, escaping. Five
shapes are left out of them because the code, read closely, looks wrong there and a passing run may not hold them: an
alias type of a captured lambda that a rewrite leaves behind (`q := (lambda, 2); apply(q)`), captures that
`lambda_lift` leaves stale, a tail forwarder whose managed argument nothing keeps
(`execution/ownership/parameter.rs:131`, against 214), a forwarder that applies its pair and returns something else (which
`execution/optimization/tail_forwarder.rs:43` fuses without asking what it returns), and a choice with effects whose
value a fused function does not use once and at once: kept as a symbolic value with the bindings of its arms, it is put
out where its value is used, once for each use, and bound to `_` not at all (`continuation_specialization/binding.rs:55`),
although `docs/implementation/continuation-specialization.md:50` wants a slice rejected unless an observable operation
stays in its place; TLC shows it with `MCUnused` for `Programs`. `Forwarding` hands over no managed argument because of
the third.

`CHECK_DEADLOCK FALSE` stands where the program may stop: all bindings or owners in use and nothing left to do within the
bounds (`symbols`, `conversions`), a trap (`pool`, `control_arena`), the end of the program (`control_arena`), the end of
the analysis (`compiler_driver`).

Fairness is assumed twice. The run `compiler_driver` has weak fairness of `Analyze`, for `AnalysisEnds`: loading and resolving are
loops of one thread with nothing to wait for, and what other builds do cannot stop them. `EmittedProgram` says that a
run goes on until it has ended (`Fairness`): a compiled program is one thread too, and some action of it is enabled until
it ends, which is weak fairness of all its actions.

## Findings

1. **A consumed operand and its alias** (`symbols_aliased`). In `y := x; x + y` the plan lets the concatenation consume
   `x`'s owner although the other operand is a borrowed alias of it. When the extension reallocates, the suffix is read
   through the old address. `runtime.h` promises that windows are kept alive by their owner.
2. **A stale view of the control arena** (`control_nested`). A production body reloads its view after a native call only
   if the direct target has control frames (`call_emission/mod.rs:64`, `optimization/mod.rs:156`). A helper without frames
   that calls a recursive function lets the arena move unnoticed, and the caller goes on pushing and popping through the
   freed block. `runtime.h:63` and `docs/implementation/execution-backend.md:94` ask for the reload. Baseline builds are
   not affected. The run `control_arena` shows that the view is current when callees of bodies with frames have frames
   themselves or call nothing, and `FrameAddressesSafe` proves it for every call graph of which that holds.
3. **A jump that moves a live owner** (`emitted_jumped`). In `r := if (c) then x else y`, with `x` read afterwards, the
   jump out of the first arm is planned to move `x` into `r`: the last successor of a local owner consumes it if
   `dies_at_terminator` agrees, and for a jump that is always so (`execution/ownership/use_plan.rs:388`), whatever the join
   reads. The emitted jump empties the slot of `x` (`backend/llvm/body/terminator.rs:92`), and the read finds no owner.
   The comments of the same file say "the last successor of a dying local consumes it" (44) and that the test is whether a
   value "has no use after it" (367); `docs/implementation/ownership.md:65` lets an owner move to a join because it ends
   with its predecessor. The validator accepts these plans (`ResponsibilitiesConserved` holds of them): it
   asks that no owner is left over (`validation.rs:153`), not that a live one is still held.
4. **Operands out of order** (`emitted_order`). With control in the right operand of a binary operator, the left one is
   evaluated after it (`core/completion/value.rs:176`); `docs/spec/execution.md` fixes the order of operands.

## Proofs

Each proof module extends the module it is about, and uses the named assumptions on its constants and nothing else: any
sets, capacities, texts and call graphs that satisfy them.

**`Symbols_proofs`**: `TypeCorrect`, `ReferencesCorrect`. Neither is inductive alone. An in-place extension writes at
`start + length`, so types need that an owner's active part lies in its capacity; a release needs the count to be the
holders' number to stay in `Nat`; reads of literals need the window inside the literal. `IInv(extra)` is the conjunction
for owners that others hold `extra` times. The lemmas follow the code: what `Read` and `Write` return, what each heap
operation (retain, release, copy, realloc, append and prepend in place) does to headers, how the set of holders changes
when one binding is rebound (`Rebind`), then one lemma per action. They hold with or without aliased operands.
The second part proves `WindowsCorrect`, `ExtensionsUnshared` and `ImplementsValuesCorrect`, for `~AliasedOperands`: the run `symbols_aliased` shows that they fail without it. `WInv` adds to `IInv` that owners in use are
readable, that windows lie in the active part of their owner and that a borrower reads what its lender reads. Every action
is shown to be a step `Becomes(d, content, ended)` of the values: one binding gets a content, some end, the others read
what they read before. `Joined` and `Halves` are the arithmetic of the two extensions.

**`ByteConversions_proofs`**: `ConversionsTypesCorrect`, `CountsCorrect`, `BuffersStoredCorrect`,
`ImplementsByteValuesCorrect`. Everything proved of Symbols holds of
owners that others hold `extra` times, as long as no binding views those (`Held`); here `extra` is what the Buffers hold
(`HeldBy`). `BInv` adds that no two Buffers hold one owner and that a Buffer's storage agrees with its other fields;
`CInv` that handles are counted. `ObjectStep` (a Buffer changes storage), `BindObjectStep` (a Buffer gives its owner up to
a binding) and `EndObjectStep` (a dying binding gives its owner up to a Buffer) are the three ways a reference moves, and
every operation is one of them. What adopts an owner must know that nothing else views it: for a Symbol that is
`OneViewer`, the count of one and the borrowing discipline together.
The last two theorems are about bytes, and assume `~AliasedOperands` as the windows of Symbols do. `DInv` adds to the
counts that every binding is a window onto initialised bytes (`WInv`) and that every Buffer's storage starts where its
owner does, is no shorter than its count and has no uninitialised byte below it (`AllStored`); none of these is inductive
without the others, since bytes move both ways. One lemma per operation, named `...Reads`, says that it keeps `DInv`, what
the Buffer it is about has afterwards, and that every other Buffer has what it had; for the refinement these are read as
steps of `ByteValues` (`NextByteValue`). `RoomMoved` is the reallocation and `IntoBufferAdoptedReads` the adoption of an
owner whose recorded length is stale.

**`ManagedBuffer_proofs`**: `TypesKept`, `ReferencesMatch`, `UsesOnlyLive`. A call is a sequence of events. `Performs`
says when a whole call is `Safe`, and then its effect is a `Tally`: what is retained less what is released, and no event
meets a destroyed object; `Exchanges` and `FillPerforms` apply it to the two orders that `buffer_range.c` uses.
`Writes` and `Cuts` say how the places of live elements change when a range is stored or the end cut off, and `WritesIs`
and `CutsIs` count them. `BufferInv`, the balance of both, is inductive; it needs that a live element is an object, and
that only an open Buffer has elements.

**`Pool_proofs`**: `TypeCorrect`, `LiveCorrect`, `ReferencesCorrect`, `RefinesPoolValues`, for any objects, bits per byte,
`SIZE_MAX` and growth policy that reaches the required capacity (`GrowthAssumption`). The key lemma `BitmapCovers` says
that the bytes growth copies contain all bits of the old capacity; clear bits above it are what makes the new coordinates
vacant. The refinement uses it at both ends of each step. `GrowthCovers` proves of the loop in `pool.c` what the others
assume of a growth policy; as `GrownCapacityCovers` does for the arena, it makes the recursive function from its last turn
to its first and takes the least turn that would go wrong.

**`ControlArena_proofs`**: `TypeCorrect`, `NativeStackSafe`, `FrameAddressesSafe`, `FramesContained`, `KeepsCallsApart`.
`EnteredAboveLimit` (a native version was entered above the limit) is what makes the guard enough. `ViewsKept` says of each
suspended body that it will reload its view or that nothing above it keeps frames; it needs the hypothesis `Settled`,
that no body whose callees cannot be seen to have frames reaches one that has. `control_nested` shows that the hypothesis
is needed, and an `ASSUME` of `MCControlArena` that the calls of `control_arena` satisfy it. `Stacked` says that bases are in
order, that every body finds its top where its callees left it, and that the frames tile the arena; with it a push, a
replacement, a pop and a native call are each a step of `ControlStack` (`Call`, `Suspend`, `Resume`, `Return`).

**`Requirements_proofs`**: what a program is. `ReachableClosed` and `ReachableLeast` characterise the files a root
reaches, `ReachableSame` says that a change of a text the program does not contain leaves the program as it was. Both
other components about files rest on it.

**`CompilerDriver_proofs`**: `TypesKept`, `GraphKept`, `LoadAnswers`, `RequiredFirst`, `ResolvesAll`, `DirectoriesApart`,
`LeftoversOnly`. `LoadInv` accounts for every requirement of a file on the stack (an edge already, on top of it, or to
come) and ranks loaded files by the order in which they were finished: with it a load that ends without an error has no
cycle and is exactly what the root reaches, and an error names a true reason. `ResolverInv` has the same stack discipline for the
second walk (`StackDescends`); that a file is never resolved before what it requires needs the ranks of the first walk.
`DirectoriesInv` says that a directory a build owns was created by that build and by no other.
The last part, `NamesTyped` and `NamesResolveCorrect`, is about names, for any identifiers, predefined names and bounds.
`NamesInv` adds to the two parts of `NamesResolve` that the constructs, scopes and lambdas nest (`Nested`: identities of
lambdas grow inwards, and each construct gives back the lambda that it began in), that what a scope declares belongs to the
file or to the lambda that the scope is written in (`ScopesOwned`), which is why no owner is ever missing, and that a
reference on its way is held by the frame below it (`InProgress`). A capture changes one frame and adds one identity, which
no other frame mentions (`CaptureKeeps`).

**`LanguageServer_proofs`**: `TypesKept`, `ShowsCurrent`, `AnswersCurrent`, `KeepsUnrelated`. `ServerInv` says that every
analysis kept, and every report sent, is that of the texts of this moment. A message that changes one text leaves an
analysis as it is only if its program did not contain the file, and then an unread change leaves the program as it was
(`ReachableSame`). It holds for any number of documents that require each other in any way.

Only model-checked:

- `AnalysisEnds` and the liveness in `ImplementsMeaning`: the prover does not reach liveness under fairness.
- The seven properties of `EmittedProgram` (`ResponsibilitiesConserved`, `OperandsLive`, `NeverTrapped`,
  `CountsMatchOwners`, `FramesFit`, `RegionsNestOnce`, `ImplementsMeaning`): its passes and plans are recursive operators over
  programs, which the prover's backends do not accept; what such a definition computes for every program would be an
  induction over data.
- That `BytesCapacity` is at least what is required: the provers know nothing of powers of two. The proofs about Symbols
  assume it of any capacity, and TLC evaluates it for the code's own.

## Hazards

`PROJECT.json` names each at its line with the properties that would catch it. Three have none: files changed on disk by
another program, which no handler observes; two uris of one canonical file, which the model identifies; and a Buffer
appended to itself whose elements `reserve` moves, since `ManagedBuffer` does not tell storage before and after apart.

## Not modelled, and why

Lexer, parser, formatter, editor index and generation of LLVM and C text are functions of text or trees without state to
interleave. The type checker is not modelled: checked programs are the first form here. Resolution of type names and parameters, which
shares nothing with that of values, is left out too. Byte contents, comparison and host
copies; zero-stride and trivial element Buffers; layouts of Pool and frame fields; the toolchain's exit codes.

## Plan

1. `Specialization`: the worklist of the type checker and its termination.
2. `NameResolution` over a graph of files, with the identities that imports bring.
3. `LanguageServer` with two uris of one path.

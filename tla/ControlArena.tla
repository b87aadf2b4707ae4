---------------------------- MODULE ControlArena ----------------------------
(***************************************************************************)
(* The control arena (control.c) and the emitted bodies that keep their    *)
(* suspended calls in it (backend/llvm/body).  A call inside a control     *)
(* region pushes a frame and branches; any other call is a native call,    *)
(* and the callee uses the same arena above its caller.  In production a   *)
(* body with frames keeps the top and a view of the storage in locals.     *)
(***************************************************************************)
EXTENDS NativeStack, FiniteSets, Sequences, SequencesExt, FiniteSetsExt

CONSTANTS
    Units,          \* emitted bodies: a control region, or a function outside every region
    Root,           \* the body of main, in no region
    FrameSites,     \* calls inside a region, each with a frame layout
    UnitOf,         \* the unit of each frame site
    FrameSize,      \* the size of its frame
    NativeCalls,    \* call sites that leave their unit: [from, targets]
    NativeVersions, \* units also emitted as natively recursive code
    Mappings,       \* what the program may find of its native stack, and its entry's address
    InitialCapacity,\* 64
    SizeMax,        \* SIZE_MAX
    Builds          \* per build: whether LocalControlTop and LocalControlStorage are enabled

ASSUME ControlAssumption ==
    /\ Root \in Units
    /\ UnitOf \in [FrameSites -> Units \ {Root}]
    /\ FrameSize \in [FrameSites -> 1..SizeMax]
    /\ NativeVersions \subseteq {UnitOf[s] : s \in FrameSites}
    /\ \A call \in NativeCalls : call.from \in Units /\ call.targets \in (SUBSET Units) \ {{}}
    /\ SizeMax \in Nat /\ InitialCapacity \in 1..SizeMax
    /\ Mappings \subseteq {m \in [low : Address, size : Address, entry : Address] : Mapped(m)}
    /\ Builds \subseteq BOOLEAN

VARIABLES
    localizing,     \* how the program was built: TRUE in production, FALSE in baseline
    mapping,        \* the native stack it runs on
    arena,          \* the storage the context points to (0 is NULL) and its capacity
    memory,         \* the frames stored in that storage and not resumed yet
    sharedTop,      \* %mal_control_top
    activations,    \* the native stack, innermost last
    trapped         \* whether mal_trap has ended the program

vars == <<localizing, mapping, arena, memory, sharedTop, activations, trapped>>

NoStorage == [storage |-> 0, capacity |-> 0]
NoCall == [from |-> Root, targets |-> {}]

Framed(unit) == \E s \in FrameSites : UnitOf[s] = unit

\* The units whose bodies keep the top and the storage view in locals.
Localizes(unit) == localizing /\ Framed(unit)

\* The version keeps frames: a native version touches no arena.
KeepsFrames(a) == a.version = "frames" /\ Framed(a.unit)
KeepsLocals(a) == a.version = "frames" /\ Localizes(a.unit)

Running == Last(activations)
Caller == Last(Front(activations))

\* control_top_pointer and current_control_storage.
Top == IF KeepsLocals(Running) THEN Running.top ELSE sharedTop
View == IF KeepsLocals(Running) THEN Running.view ELSE arena

End(frame) == frame.at + FrameSize[frame.site]
FrameSet == [at : 0..SizeMax, site : FrameSites]
-----------------------------------------------------------------------------
(* Entering and leaving bodies.                                             *)

\* Where the i-th activation has its native stack, below all its callers'.
StackAddress(i) == mapping.entry - i * ActivationSize

\* The entry guard: the native version until the native stack is used up.
VersionOf(unit) ==
    IF unit \in NativeVersions /\ ~IsDeep(StackAddress(Len(activations) + 1), NativeStackLimit(mapping))
    THEN "native" ELSE "frames"

\* The prologue: the base is the shared top, and the locals start from it; a body
\* without frames has none.  retired is the size of the frame just resumed, 0
\* where none can be reused.
Entered(unit, version, top) ==
    LET frames == version = "frames" /\ Framed(unit)
        locals == version = "frames" /\ Localizes(unit)
    IN [unit |-> unit, version |-> version, base |-> IF frames THEN top ELSE 0,
        top |-> IF locals THEN top ELSE 0, view |-> IF locals THEN arena ELSE NoStorage,
        retired |-> 0, call |-> NoCall]

Init ==
    /\ localizing \in Builds /\ mapping \in Mappings
    /\ arena = NoStorage
    /\ memory = {}
    /\ sharedTop = 0
    /\ activations = <<Entered(Root, "frames", 0)>>
    /\ trapped = FALSE

\* The running body after an operation that leaves it running.
Continue(body) == activations' = Append(Front(activations), body)

\* Mutant of NativeCall: the top is not synchronised.
NativeCallUnsynced(call, target) ==
    /\ call.from = Running.unit
    /\ activations' = Append(Append(Front(activations), [Running EXCEPT !.call = call]),
                             Entered(target, VersionOf(target), sharedTop))
    /\ UNCHANGED <<arena, memory, sharedTop, trapped>>

\* A call of another unit: sync_control_top, then the callee's prologue.
NativeCall(call, target) ==
    /\ call.from = Running.unit
    /\ sharedTop' = Top
    /\ activations' = Append(Append(Front(activations), [Running EXCEPT !.call = call]),
                             Entered(target, VersionOf(target), Top))
    /\ UNCHANGED <<arena, memory, trapped>>

\* A recursive call of the native version.
NativeSelfCall ==
    /\ Running.version = "native"
    /\ activations' = Append(activations, Entered(Running.unit, VersionOf(Running.unit), sharedTop))
    /\ UNCHANGED <<arena, memory, sharedTop, trapped>>

\* Mutant of Relocates: no call is taken to move the storage.
NeverRelocates(call) == FALSE

\* localizes_control_storage of a direct target, site_may_relocate_control_storage of several.
Relocates(call) == \E target \in call.targets : Localizes(target)

\* The caller when its native call has returned.
Returned(caller) ==
    IF KeepsLocals(caller) /\ Relocates(caller.call)
    THEN [caller EXCEPT !.call = NoCall, !.view = arena]
    ELSE [caller EXCEPT !.call = NoCall]

\* A body returns natively when its top is back at its base.
NativeReturn ==
    /\ Len(activations) > 1
    /\ KeepsFrames(Running) => Top = Running.base
    /\ sharedTop' = Top
    /\ activations' = Append(Front(Front(activations)), Returned(Caller))
    /\ UNCHANGED <<arena, memory, trapped>>

\* main returns to the shim: mal_control_destroy.
Finish ==
    /\ Len(activations) = 1
    /\ activations' = <<>>
    /\ arena' = NoStorage /\ memory' = {}
    /\ UNCHANGED <<sharedTop, trapped>>
-----------------------------------------------------------------------------
(* Frames.                                                                  *)

\* Mutant of GrownCapacity: no check before doubling.
GrownUnchecked(required) ==
    LET start == IF arena.capacity = 0 THEN InitialCapacity ELSE arena.capacity
        doubled[c \in Nat] == IF c >= required THEN c ELSE doubled[2 * c]
    IN doubled[start]

\* The doubling of mal_control_grow, from a capacity of at least InitialCapacity.
GrownCapacity(required) ==
    LET start == IF arena.capacity = 0 THEN InitialCapacity ELSE arena.capacity
        doubled[c \in Nat] ==
            IF c >= required THEN c
            ELSE IF c > SizeMax \div 2 THEN required
            ELSE doubled[2 * c]
    IN doubled[start]

\* What realloc can return: the same block or another one.  Storage is numbered
\* in the order it was allocated.
Grown(required) ==
    [storage : {arena.storage + 1} \cup ({arena.storage} \ {0}), capacity : {GrownCapacity(required)}]

\* What the storage holds when site's frame is written on the top of it.
WithFrame(site) ==
    LET frame == [at |-> Top, site |-> site]
    IN {f \in memory : End(f) <= Top \/ End(frame) <= f.at} \cup {frame}

\* The rest of emit_frame_call: the frame is written through the view and the top
\* raised.  A write to a block that realloc has freed is lost to the arena.
Push(site, view, storage) ==
    LET next == (Top + FrameSize[site]) % (SizeMax + 1)
    IN /\ memory' = IF view.storage = storage THEN WithFrame(site) ELSE memory
       /\ IF KeepsLocals(Running)
          THEN /\ Continue([Running EXCEPT !.top = next, !.view = view, !.retired = 0])
               /\ UNCHANGED sharedTop
          ELSE /\ Continue([Running EXCEPT !.retired = 0])
               /\ sharedTop' = next

SiteOfRunning(site) == UnitOf[site] = Running.unit /\ KeepsFrames(Running)

\* Mutant of FitsRetired: any retired frame is reused.
AnyRetired(site) == Running.retired > 0

\* The frame this site replaces is at least as large.
FitsRetired(site) == Running.retired >= FrameSize[site]

\* The fast path of reserve_control_frame.
FitsView(site) ==
    /\ Top <= SizeMax - FrameSize[site]
    /\ (Top + FrameSize[site]) % (SizeMax + 1) <= Running.view.capacity

\* A frame in the place of the one just resumed: nothing is reserved.
ReplaceFrame(site) ==
    /\ SiteOfRunning(site) /\ FitsRetired(site)
    /\ Push(site, View, arena.storage)
    /\ UNCHANGED <<arena, trapped>>

\* The fast path: the cached view has room.
PushCached(site) ==
    /\ SiteOfRunning(site) /\ KeepsLocals(Running) /\ FitsView(site)
    /\ Push(site, View, arena.storage)
    /\ UNCHANGED <<arena, trapped>>

\* mal_control_reserve_frame when the storage has room.
PushReserved(site) ==
    /\ SiteOfRunning(site)
    /\ KeepsLocals(Running) => ~FitsView(site)
    /\ Top <= SizeMax - FrameSize[site]
    /\ Top + FrameSize[site] <= arena.capacity
    /\ Push(site, arena, arena.storage)
    /\ UNCHANGED <<arena, trapped>>

\* mal_control_grow.
PushGrown(site) ==
    /\ SiteOfRunning(site)
    /\ KeepsLocals(Running) => ~FitsView(site)
    /\ Top <= SizeMax - FrameSize[site]
    /\ Top + FrameSize[site] > arena.capacity
    /\ arena' \in Grown(Top + FrameSize[site])
    /\ Push(site, arena', arena'.storage)
    /\ UNCHANGED trapped

\* "control storage size overflow", or an allocation that fails.
ReserveTraps(site) ==
    /\ SiteOfRunning(site)
    /\ KeepsLocals(Running) => ~FitsView(site)
    /\ Top > SizeMax - FrameSize[site] \/ Top + FrameSize[site] > arena.capacity
    /\ trapped' = TRUE
    /\ UNCHANGED <<arena, memory, sharedTop, activations>>

\* The frame below the top, as the body reads its footer and tag through its view:
\* anything when that storage is freed or holds no such frame.
ReadFrames ==
    LET below == {f \in memory : End(f) = Top}
    IN IF View.storage = arena.storage /\ below # {} THEN below ELSE FrameSet

\* A value returned inside the region resumes the frame below the top.
ResumeFrame ==
    /\ KeepsFrames(Running) /\ Top # Running.base
    /\ \E frame \in ReadFrames :
        LET resumed == [Running EXCEPT !.retired = FrameSize[frame.site]]
        IN /\ memory' = memory \ {frame}
           /\ IF KeepsLocals(Running)
              THEN Continue([resumed EXCEPT !.top = frame.at]) /\ UNCHANGED sharedTop
              ELSE Continue(resumed) /\ sharedTop' = frame.at
    /\ UNCHANGED <<arena, trapped>>

\* A tail call inside the region branches to a function entry, where no retired
\* frame is known.
RegionTailCall ==
    /\ KeepsFrames(Running) /\ Running.retired > 0
    /\ Continue([Running EXCEPT !.retired = 0])
    /\ UNCHANGED <<arena, memory, sharedTop, trapped>>
-----------------------------------------------------------------------------
Next ==
    /\ ~trapped /\ activations # <<>>
    /\ UNCHANGED <<localizing, mapping>>
    /\ \/ \E call \in NativeCalls : \E target \in call.targets : NativeCall(call, target)
       \/ NativeSelfCall
       \/ NativeReturn
       \/ Finish
       \/ \E site \in FrameSites :
            \/ ReplaceFrame(site)
            \/ PushCached(site)
            \/ PushReserved(site)
            \/ PushGrown(site)
            \/ ReserveTraps(site)
       \/ ResumeFrame
       \/ RegionTailCall

Spec == Init /\ [][Next]_vars
-----------------------------------------------------------------------------
Views == [storage : Nat, capacity : 0..SizeMax]

Activations ==
    [unit : Units, version : {"frames", "native"}, base : 0..SizeMax, top : 0..SizeMax, view : Views,
     retired : 0..SizeMax, call : NativeCalls \cup {NoCall}]

\* The types of the variables; a view never claims more than SIZE_MAX bytes.
TypeOK ==
    /\ localizing \in BOOLEAN /\ mapping \in Mappings
    /\ arena \in Views
    /\ memory \subseteq FrameSet
    /\ sharedTop \in 0..SizeMax
    /\ activations \in Seq(Activations)
    /\ trapped \in BOOLEAN

\* Callers derive frame addresses from the returned base and reload it after
\* anything that may call back here (runtime.h): whenever a body that keeps a view
\* runs, the view is the storage and capacity the arena has now.
FrameAddressesCurrent ==
    activations # <<>> /\ KeepsLocals(Running) => Running.view = arena

\* A frame, reserved or put in the place of a retired one, is inside the storage.
FramesWithinStorage == \A f \in memory : End(f) <= arena.capacity

\* The native version runs only where the stack is known, within the budget below the
\* program entry and with the room that its next activation and that one's fallback need.
NativeStackKept ==
    \A i \in DOMAIN activations : activations[i].version = "native" =>
        /\ mapping.size # 0
        /\ StackAddress(i) > mapping.entry - Budget
        /\ StackAddress(i) - ActivationSize - Fallback >= mapping.low

\* The bodies neither keep frames nor come, through any call, to a body that does.
StaysClear(calls, bodies) ==
    /\ \A unit \in bodies : ~Framed(unit)
    /\ \A call \in calls : call.from \in bodies => call.targets \subseteq bodies

\* A call of a body with frames that is not taken to move the storage does not.
CallsSettled(calls) ==
    \A call \in calls : Framed(call.from) /\ ~(\E target \in call.targets : Framed(target)) =>
        \E bodies \in SUBSET Units : StaysClear(calls, bodies) /\ call.targets \subseteq bodies

\* Where the frames of activation i end: its own top, or where the next body that
\* keeps frames begins.
UpperEnd(i) ==
    LET above == {j \in i + 1..Len(activations) : KeepsFrames(activations[j])}
    IN IF KeepsLocals(activations[i]) THEN activations[i].top
       ELSE IF above # {} THEN activations[Min(above)].base
       ELSE sharedTop

FramesOf(i) == {f \in memory : activations[i].base <= f.at /\ End(f) <= UpperEnd(i)}

\* The calls that the frames suspend, the lowest frame first.
InOrder(frames) ==
    LET Nth(n) == CHOOSE f \in frames : Cardinality({g \in frames : g.at <= f.at}) = n
    IN [n \in 1..Cardinality(frames) |-> Nth(n).site]

Suspended(i) == IF KeepsFrames(activations[i]) THEN InOrder(FramesOf(i)) ELSE <<>>

SuspendedCalls ==
    [i \in DOMAIN activations |-> [unit |-> activations[i].unit, suspended |-> Suspended(i)]]

Stack == INSTANCE ControlStack WITH stack <- SuspendedCalls

\* The frames in the arena are the suspended calls of each body in its own order,
\* untouched by the bodies it calls, over growth, relocation and reuse of frames.
ImplementsControlStack == Stack!Spec
=============================================================================

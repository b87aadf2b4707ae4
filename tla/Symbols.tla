------------------------------ MODULE Symbols ------------------------------
(***************************************************************************)
(* The Symbol bindings of one activation over the C11 runtime's byte       *)
(* owners (crates/mal-backend/runtime/c11/bytes.c and symbol.c), used the  *)
(* way the ownership plan and the concatenation plan of the backend use    *)
(* them: an owned binding holds one reference of its owner, a borrowed     *)
(* binding holds none and lives no longer than its lender, and an owned    *)
(* operand that dies at a concatenation hands its reference to the runtime,*)
(* which may then extend the storage in place.                             *)
(*                                                                         *)
(* An owner stands for an allocation, so an address is an owner and an     *)
(* offset: a realloc that moves is a change of owner, and a view that      *)
(* still names the old one dangles.  mal_trap aborts the program, so a     *)
(* call that traps is a step the model does not take.                      *)
(***************************************************************************)
EXTENDS Integers, FiniteSets, Sequences

CONSTANTS
    Bindings,         \* the activation's Symbol bindings
    Owners,           \* flat byte owners the allocator can hand out
    StaticBytes,      \* the program's literals: static owner -> its bytes
    Inputs,           \* byte strings a host call may return (bound)
    None,             \* NULL owner; no lender
    Junk,             \* what an uninitialised or freed byte reads as
    SizeMax,          \* SIZE_MAX: a larger size traps
    MaxLength,        \* the longest Symbol considered (bound)
    Capacity(_),      \* mal_bytes_capacity, given by StorageCapacities
    AliasedOperands   \* whether both operands may be views of the consumed binding

Statics == DOMAIN StaticBytes
Byte == UNION {{s[i] : i \in DOMAIN s} : s \in Inputs \cup {StaticBytes[o] : o \in Statics}}

ASSUME OwnersAssumption ==
    /\ IsFiniteSet(Bindings)
    /\ Owners \cap Statics = {}
    /\ None \notin Owners \cup Statics \cup Bindings
ASSUME BytesAssumption ==
    /\ \A s \in Inputs : s \in Seq(Byte) /\ Len(s) <= MaxLength
    /\ \A o \in Statics : StaticBytes[o] \in Seq(Byte) /\ Len(StaticBytes[o]) <= MaxLength
    /\ Junk \notin Byte
    /\ AliasedOperands \in BOOLEAN
ASSUME SizeAssumption ==
    /\ SizeMax \in Nat /\ MaxLength \in 0..SizeMax
    /\ \A n \in 0..SizeMax : Capacity(n) \in Nat /\ Capacity(n) >= n

VARIABLES
    heap,     \* flat owners: header, capacity, start and bytes; references = 0 is free
    live,     \* the bindings that hold a value
    view,     \* MalBytesView of a binding: owner, address in the owner, length
    lender    \* of a borrowed binding, the owned binding it borrows from

vars == <<heap, live, view, lender>>

Freed == [references |-> 0, length |-> 0, capacity |-> 0, start |-> 0, bytes |-> <<>>]
NoView == [owner |-> None, data |-> 0, length |-> 0]

Owned(b) == b \in live /\ lender[b] = None
Borrowers(b) == {c \in live : lender[c] = b}
Holders(o) == {b \in live : lender[b] = None /\ view[b].owner = o}

-----------------------------------------------------------------------------
(* Byte owners: bytes.c *)

\* The n bytes an access to owner o at address d reads in heap h.
Read(h, o, d, n) ==
    [i \in 1..n |->
        CASE o \in Statics -> StaticBytes[o][d + i]
          [] o \in Owners /\ d + i \in 1..h[o].capacity -> h[o].bytes[d + i]
          [] OTHER -> Junk]

\* memcpy of the bytes new to address d of a capacity-sized storage.
Write(bytes, capacity, d, new) ==
    [i \in 1..capacity |->
        IF i \in (d + 1)..(d + Len(new)) THEN new[i - d]
        ELSE IF i \in DOMAIN bytes THEN bytes[i] ELSE Junk]

FlatOwner(content, capacity, start) ==
    [references |-> 1, length |-> Len(content), capacity |-> capacity,
     start |-> start, bytes |-> Write(<<>>, capacity, start, content)]

Fresh(h) == {o \in Owners : h[o].references = 0}

Retain(h, o) ==
    IF o \in Owners THEN [h EXCEPT ![o].references = @ + 1] ELSE h

Release(h, o) ==
    IF o \notin Owners THEN h
    ELSE IF h[o].references = 1 THEN [h EXCEPT ![o] = Freed]
    ELSE [h EXCEPT ![o].references = @ - 1]

\* Mutant of Extensible: the reference count is not asked for.
ExtensibleShared(h, v) ==
    /\ v.owner \in Owners
    /\ v.data = h[v.owner].start
    /\ h[v.owner].length = v.length

\* mal_bytes_append and mal_bytes_prepend extend storage in place only under this test.
Extensible(h, v) ==
    /\ v.owner \in Owners
    /\ h[v.owner].references = 1
    /\ v.data = h[v.owner].start
    /\ h[v.owner].length = v.length

\* Mutant of Realloc: the header keeps the old capacity.
ReallocOldCapacity(h, o, p, capacity) ==
    LET grown == [h[o] EXCEPT !.bytes = Write(@, capacity, 0, <<>>)]
    IN  [h EXCEPT ![o] = Freed, ![p] = grown]

\* realloc of o's storage to a capacity: it stays, or moves to p and frees the old one.
Realloc(h, o, p, capacity) ==
    LET grown == [h[o] EXCEPT !.capacity = capacity,
                              !.bytes = Write(@, capacity, 0, <<>>)]
    IN  [h EXCEPT ![o] = Freed, ![p] = grown]

\* Mutant of AppendCopy: the consumed owner is not released.
AppendCopyUnreleased(h, v, w, p) ==
    LET content == Read(h, v.owner, v.data, v.length) \o Read(h, w.owner, w.data, w.length)
    IN  [h EXCEPT ![p] = FlatOwner(content, Capacity(Len(content)), 0)]

\* The heap after mal_bytes_append of the bytes of view w to the owner of view v; p is
\* where malloc or realloc puts the result.
AppendCopy(h, v, w, p) ==
    LET content == Read(h, v.owner, v.data, v.length) \o Read(h, w.owner, w.data, w.length)
    IN  Release([h EXCEPT ![p] = FlatOwner(content, Capacity(Len(content)), 0)], v.owner)

\* Mutant of AppendInPlace: the suffix goes where it would without headroom.
AppendInPlaceUnshifted(h, v, w, p) ==
    LET size == v.length + w.length
        required == h[v.owner].start + size
        grown == IF required > h[v.owner].capacity
                 THEN Realloc(h, v.owner, p, Capacity(required)) ELSE h
    IN  [grown EXCEPT ![p].length = size,
                      ![p].bytes = Write(@, grown[p].capacity, v.length,
                                         Read(grown, w.owner, w.data, w.length))]

AppendInPlace(h, v, w, p) ==
    LET size == v.length + w.length
        required == h[v.owner].start + size
        grown == IF required > h[v.owner].capacity
                 THEN Realloc(h, v.owner, p, Capacity(required)) ELSE h
    IN  [grown EXCEPT ![p].length = size,
                      ![p].bytes = Write(@, grown[p].capacity, grown[p].start + v.length,
                                         Read(grown, w.owner, w.data, w.length))]

\* mal_bytes_prepend: a copy leaves its headroom in front.
PrependCopy(h, v, w, p) ==
    LET content == Read(h, w.owner, w.data, w.length) \o Read(h, v.owner, v.data, v.length)
        capacity == Capacity(Len(content))
    IN  Release([h EXCEPT ![p] = FlatOwner(content, capacity, capacity - Len(content))], v.owner)

\* Without headroom the storage is reallocated and the content moved to its end.
PrependInPlace(h, v, w, p) ==
    LET size == v.length + w.length
        capacity == Capacity(size)
        moved == Realloc(h, v.owner, p, capacity)
        shifted == [moved EXCEPT
                      ![p].bytes = Write(@, capacity, capacity - v.length,
                                         Read(moved, p, h[v.owner].start, v.length)),
                      ![p].start = capacity - v.length]
        grown == IF w.length > h[v.owner].start THEN shifted ELSE h
        start == grown[p].start - w.length
    IN  [grown EXCEPT ![p].length = size, ![p].start = start,
                      ![p].bytes = Write(@, grown[p].capacity, start,
                                         Read(grown, w.owner, w.data, w.length))]

\* Where an extension may put its result: a fresh allocation when the content is copied,
\* the same owner or a fresh one when realloc grows it.
AppendPlaces(h, v, w) ==
    LET required == h[v.owner].start + v.length + w.length
    IN  IF ~Extensible(h, v) THEN Fresh(h)
        ELSE IF required > SizeMax THEN {}
        ELSE IF required > h[v.owner].capacity THEN {v.owner} \cup Fresh(h)
        ELSE {v.owner}

PrependPlaces(h, v, w) ==
    IF ~Extensible(h, v) THEN Fresh(h)
    ELSE IF w.length > h[v.owner].start THEN {v.owner} \cup Fresh(h) ELSE {v.owner}

-----------------------------------------------------------------------------
(* Bindings: the callers of symbol.c *)

Init ==
    /\ heap = [o \in Owners |-> Freed]
    /\ live = {}
    /\ view = [b \in Bindings |-> NoView]
    /\ lender = [b \in Bindings |-> None]

\* The binding d takes the value v, and the bindings of ended hold none any more.
Bind(d, v, ended) ==
    /\ live' = (live \ ended) \cup {d}
    /\ view' = [b \in Bindings |-> IF b = d THEN v ELSE IF b \in ended THEN NoView ELSE view[b]]

\* A fresh flat owner for content, or no owner at all for the empty one.
BindCopy(d, content) ==
    IF Len(content) = 0 THEN Bind(d, NoView, {}) /\ UNCHANGED heap
    ELSE \E p \in Fresh(heap) :
           /\ heap' = [heap EXCEPT ![p] = FlatOwner(content, Capacity(Len(content)), 0)]
           /\ Bind(d, [owner |-> p, data |-> 0, length |-> Len(content)], {})

\* mal_runtime_symbol_from, for bytes the host passes in.
SymbolFrom(d, content) ==
    /\ d \notin live
    /\ BindCopy(d, content)
    /\ UNCHANGED lender

\* A literal is a view of an immortal static owner.
SymbolLiteral(d, o) ==
    /\ d \notin live
    /\ Bind(d, [owner |-> o, data |-> 0, length |-> Len(StaticBytes[o])], {})
    /\ UNCHANGED <<heap, lender>>

\* `y := x` with x still live: y is an alias of x, or of x's own lender.
Alias(s, d) ==
    /\ s \in live /\ d \notin live
    /\ Bind(d, view[s], {})
    /\ lender' = [lender EXCEPT ![d] = IF Owned(s) THEN s ELSE lender[s]]
    /\ UNCHANGED heap

\* A use with an owner successor shares the value: mal_runtime_symbol_retain.
Share(s, d) ==
    /\ s \in live /\ d \notin live
    /\ heap' = Retain(heap, view[s].owner)
    /\ Bind(d, view[s], {})
    /\ UNCHANGED lender

\* mal_runtime_symbol_slice; a slice of no bytes has no owner.
Slice(s, d, offset, length) ==
    /\ s \in live /\ d \notin live
    /\ offset + length <= view[s].length
    /\ IF length = 0
       THEN Bind(d, NoView, {}) /\ UNCHANGED heap
       ELSE /\ heap' = Retain(heap, view[s].owner)
            /\ Bind(d, [view[s] EXCEPT !.data = @ + offset, !.length = length], {})
    /\ UNCHANGED lender

\* Mutant of Drop: an owner may end before what borrows from it.
DropLender(b) ==
    /\ b \in live
    /\ heap' = IF Owned(b) THEN Release(heap, view[b].owner) ELSE heap
    /\ live' = live \ {b}
    /\ view' = [view EXCEPT ![b] = NoView]
    /\ lender' = [lender EXCEPT ![b] = None]

\* The end of a binding.  An owner is dropped only after everything borrowed from it.
Drop(b) ==
    /\ b \in live /\ Borrowers(b) = {}
    /\ heap' = IF Owned(b) THEN Release(heap, view[b].owner) ELSE heap
    /\ live' = live \ {b}
    /\ view' = [view EXCEPT ![b] = NoView]
    /\ lender' = [lender EXCEPT ![b] = None]

\* mal_runtime_symbol_concatenate borrows both operands.
Concatenate(l, r, d) ==
    /\ l \in live /\ r \in live /\ d \notin live
    /\ view[l].length + view[r].length <= MaxLength
    /\ LET shared == IF view[l].length = 0 THEN view[r] ELSE view[l]
           content == Read(heap, view[l].owner, view[l].data, view[l].length)
                      \o Read(heap, view[r].owner, view[r].data, view[r].length)
       IN  IF view[l].length = 0 \/ view[r].length = 0
           THEN Bind(d, shared, {}) /\ heap' = Retain(heap, shared.owner)
           ELSE BindCopy(d, content)
    /\ UNCHANGED lender

Ended(taken) == {taken} \cup Borrowers(taken)

\* A consuming concatenation into d takes over `taken`, an owner that dies here and is not
\* the other operand; whatever borrows from it dies here too.
Takes(taken, other, d) ==
    /\ Owned(taken) /\ other \in live /\ taken # other
    /\ d \notin live
    /\ Borrowers(taken) \subseteq {other}
    /\ AliasedOperands \/ Borrowers(taken) = {}
    /\ view[taken].length + view[other].length <= MaxLength

EndLenders(taken) ==
    lender' = [b \in Bindings |-> IF b \in Ended(taken) THEN None ELSE lender[b]]

\* With an empty operand the taken view is the result, or is dropped for a share of the other.
MoveTaken(taken, d) ==
    /\ Bind(d, view[taken], Ended(taken))
    /\ UNCHANGED heap

ShareOther(taken, other, d) ==
    /\ heap' = Retain(Release(heap, view[taken].owner), view[other].owner)
    /\ Bind(d, view[other], Ended(taken))

\* The result view covers the whole owner p.
BindWhole(d, p, length, ended) ==
    Bind(d, [owner |-> p, data |-> heap'[p].start, length |-> length], ended)

\* mal_runtime_symbol_concatenate_consuming_left.
ConsumingLeft(l, r, d) ==
    /\ Takes(l, r, d)
    /\ IF view[l].length = 0 THEN ShareOther(l, r, d)
       ELSE IF view[r].length = 0 THEN MoveTaken(l, d)
       ELSE \E p \in AppendPlaces(heap, view[l], view[r]) :
              /\ heap' = IF Extensible(heap, view[l])
                         THEN AppendInPlace(heap, view[l], view[r], p)
                         ELSE AppendCopy(heap, view[l], view[r], p)
              /\ BindWhole(d, p, view[l].length + view[r].length, Ended(l))
    /\ EndLenders(l)

\* mal_runtime_symbol_concatenate_consuming_right.
ConsumingRight(l, r, d) ==
    /\ Takes(r, l, d)
    /\ IF view[l].length = 0 THEN MoveTaken(r, d)
       ELSE IF view[r].length = 0 THEN ShareOther(r, l, d)
       ELSE \E p \in PrependPlaces(heap, view[r], view[l]) :
              /\ heap' = IF Extensible(heap, view[r])
                         THEN PrependInPlace(heap, view[r], view[l], p)
                         ELSE PrependCopy(heap, view[r], view[l], p)
              /\ BindWhole(d, p, view[l].length + view[r].length, Ended(r))
    /\ EndLenders(r)

Next ==
    \/ \E d \in Bindings, content \in Inputs : SymbolFrom(d, content)
    \/ \E d \in Bindings, o \in Statics : SymbolLiteral(d, o)
    \/ \E s, d \in Bindings : Alias(s, d)
    \/ \E s, d \in Bindings : Share(s, d)
    \/ \E s, d \in Bindings : \E offset, length \in 0..MaxLength : Slice(s, d, offset, length)
    \/ \E b \in Bindings : Drop(b)
    \/ \E l, r, d \in Bindings : Concatenate(l, r, d)
    \/ \E l, r, d \in Bindings : ConsumingLeft(l, r, d)
    \/ \E l, r, d \in Bindings : ConsumingRight(l, r, d)

Spec == Init /\ [][Next]_vars

-----------------------------------------------------------------------------
View == [owner : Owners \cup Statics \cup {None}, data : Nat, length : 0..MaxLength]

FlatHeader == [references : Nat, length : Nat, capacity : Nat, start : Nat,
               bytes : Seq(Byte \cup {Junk})]

\* Types of the state; the bytes of an owner fill its capacity.
TypeOK ==
    /\ heap \in [Owners -> FlatHeader]
    /\ \A o \in Owners : Len(heap[o].bytes) = heap[o].capacity
    /\ live \subseteq Bindings
    /\ view \in [Bindings -> View]
    /\ lender \in [Bindings -> Bindings \cup {None}]

\* The reference count of every flat owner is the number of bindings that own it: nothing
\* leaks and nothing is freed early, whichever way concatenations hand references over.
ReferencesMatchHolders ==
    \A o \in Owners : heap[o].references = Cardinality(Holders(o))

\* A binding that holds a value is a window onto bytes kept alive by its owner
\* (runtime.h:26): the bytes lie in the owner's active part and none is uninitialised,
\* moved away by a realloc or freed.
ViewsReadable ==
    \A b \in live :
        /\ view[b].owner \in Owners =>
              LET h == heap[view[b].owner]
              IN  /\ h.references > 0
                  /\ h.start <= view[b].data
                  /\ view[b].data + view[b].length <= h.start + h.length
        /\ \A i \in 1..view[b].length :
              Read(heap, view[b].owner, view[b].data, view[b].length)[i] # Junk

\* Storage that keeps serving changes only under the single view that covers it
\* (docs/implementation/ownership.md: only flat storage that the view covers whole and
\* whose count is 1 is reused): no other binding's window is on an owner that is extended.
ExtendsOnlyUnshared ==
    [][\A o \in Owners :
          heap[o].references > 0 /\ heap'[o].references > 0 /\ heap'[o].length # heap[o].length
          => \A b, c \in live : view[b].owner = o /\ view[c].owner = o => b = c]_vars

-----------------------------------------------------------------------------
(* What the bindings promise: SymbolValues *)

Contents(b) == Read(heap, view[b].owner, view[b].data, view[b].length)

Values == INSTANCE SymbolValues WITH
              value <- [b \in live |-> Contents(b)],
              Literals <- {StaticBytes[o] : o \in Statics}

\* Every run of the runtime is a run of immutable Symbol values: no in-place extension,
\* realloc or shared owner ever changes what another binding reads.
ImplementsValues == Values!Spec

=============================================================================

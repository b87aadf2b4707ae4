-------------------------- MODULE ByteConversions --------------------------
(***************************************************************************)
(* Symbols together with byte Buffers (buffer.c with a stride of 1) and the*)
(* conversions between them (buffer_symbol.c): at its operand's last use a *)
(* conversion moves the byte owner instead of copying it when nothing else *)
(* holds it.  A Buffer starts on inline storage, its handles share one     *)
(* mutable object, and the object exclusively holds its byte owner.        *)
(***************************************************************************)
EXTENDS Symbols

CONSTANTS
    Handles,         \* the activation's byte Buffer bindings
    Buffers,         \* Buffer objects the allocator can hand out
    NewBytes,        \* bytes a program writes into Buffers (bound)
    InlineBytes      \* sizeof storage.inline_bytes, 8 in the code

ASSUME BuffersAssumption ==
    /\ IsFiniteSet(Handles)
    /\ None \notin Buffers
    /\ InlineBytes \in Nat
    /\ NewBytes \subseteq Byte

VARIABLES
    buffer,    \* Buffer objects: references, owner or NULL, inline bytes, count
    handle     \* the Buffer a handle refers to, or None

bufferVars == <<buffer, handle>>
allVars == <<heap, live, view, lender, buffer, handle>>

\* A Buffer's bytes are inline, on the flat owner, or it has no storage at all.
NoBuffer == [references |-> 0, storage |-> "none", owner |-> None, inline |-> <<>>, count |-> 0]
EmptyBuffer == [NoBuffer EXCEPT !.references = 1]

StoredIn(h, b) ==
    IF b.storage = "flat" THEN [owner |-> b.owner, data |-> 0, length |-> b.count]
    ELSE [owner |-> None, data |-> 0, length |-> 0]

BytesOf(h, b) ==
    IF b.storage = "flat" THEN Read(h, b.owner, 0, b.count) ELSE SubSeq(b.inline, 1, b.count)

InitBuffers ==
    /\ buffer = [b \in Buffers |-> NoBuffer]
    /\ handle = [h \in Handles |-> None]

FreshBuffers == {b \in Buffers : buffer[b].references = 0}

CapacityOf(b) ==
    CASE b.storage = "none" -> 0
      [] b.storage = "inline" -> InlineBytes
      [] b.storage = "flat" -> heap[b.owner].capacity

\* mal_buffer_reserve: the Buffer x and heap after storage for `required` bytes is at hand,
\* with p where malloc or realloc puts a larger one.
ReservePlaces(x, required) ==
    IF required <= CapacityOf(x) THEN {x.owner}
    ELSE IF x.storage = "flat" THEN {x.owner} \cup Fresh(heap) ELSE Fresh(heap)

ReservedHeap(x, required, p) ==
    IF required > CapacityOf(x)
    THEN IF x.storage = "flat"
         THEN [Realloc(heap, x.owner, p, Capacity(required)) EXCEPT ![p].length = required]
         ELSE [heap EXCEPT ![p] =
                 [FlatOwner(BytesOf(heap, x), Capacity(required), 0) EXCEPT !.length = required]]
    ELSE IF x.storage = "flat" THEN [heap EXCEPT ![x.owner].length = required] ELSE heap

\* Mutant of ReservedBuffer: one byte more than the storage holds is taken to fit.
ReservedBufferOffByOne(x, required, p) ==
    IF required <= CapacityOf(x) + 1 THEN x
    ELSE [x EXCEPT !.storage = "flat", !.owner = p, !.inline = <<>>]

ReservedBuffer(x, required, p) ==
    IF required <= CapacityOf(x) THEN x
    ELSE [x EXCEPT !.storage = "flat", !.owner = p, !.inline = <<>>]

\* A store of byte v at index i of the Buffer x in heap h, whose storage is large enough.
StoredHeap(h, x, i, v) ==
    IF x.storage = "flat" THEN [h EXCEPT ![x.owner].bytes[i + 1] = v] ELSE h

StoredBuffer(x, i, v) ==
    IF x.storage = "flat" THEN x ELSE [x EXCEPT !.inline[i + 1] = v]

-----------------------------------------------------------------------------
(* Buffer operations *)

\* mal_buffer_make: at most InlineBytes of capacity stay inline.
Made(capacity, p) ==
    [EmptyBuffer EXCEPT
        !.storage = CASE capacity = 0 -> "none" [] capacity > InlineBytes -> "flat"
                      [] OTHER -> "inline",
        !.owner = IF capacity > InlineBytes THEN p ELSE None,
        !.inline = IF capacity \in 1..InlineBytes THEN [i \in 1..InlineBytes |-> Junk] ELSE <<>>]

MakePlaces(capacity) == IF capacity > InlineBytes THEN Fresh(heap) ELSE {None}

MadeHeap(h, capacity, p) ==
    IF p = None THEN h ELSE [h EXCEPT ![p] = FlatOwner(<<>>, capacity, 0)]

BufferMake(h, capacity) ==
    /\ handle[h] = None
    /\ \E b \in FreshBuffers, p \in MakePlaces(capacity) :
         /\ heap' = MadeHeap(heap, capacity, p)
         /\ buffer' = [buffer EXCEPT ![b] = Made(capacity, p)]
         /\ handle' = [handle EXCEPT ![h] = b]
    /\ UNCHANGED <<live, view, lender>>

\* mal_runtime_buffer_new: append one byte through any handle.
BufferNew(h, v) ==
    /\ handle[h] # None
    /\ LET b == handle[h]
           x == buffer[b]
       IN  /\ x.count < MaxLength
           /\ \E p \in ReservePlaces(x, x.count + 1) :
                LET y == ReservedBuffer(x, x.count + 1, p)
                IN  /\ heap' = StoredHeap(ReservedHeap(x, x.count + 1, p), y, x.count, v)
                    /\ buffer' = [buffer EXCEPT
                                    ![b] = [StoredBuffer(y, x.count, v) EXCEPT !.count = @ + 1]]
    /\ UNCHANGED <<live, view, lender, handle>>

\* mal_runtime_buffer_replace_move: an index beyond the count traps.
BufferReplace(h, i, v) ==
    /\ handle[h] # None
    /\ i < buffer[handle[h]].count
    /\ heap' = StoredHeap(heap, buffer[handle[h]], i, v)
    /\ buffer' = [buffer EXCEPT ![handle[h]] = StoredBuffer(@, i, v)]
    /\ UNCHANGED <<live, view, lender, handle>>

\* mal_runtime_buffer_truncate leaves the owner's length as it was.
BufferTruncate(h, n) ==
    /\ handle[h] # None
    /\ n < buffer[handle[h]].count
    /\ buffer' = [buffer EXCEPT ![handle[h]].count = n]
    /\ UNCHANGED <<vars, handle>>

\* mal_runtime_buffer_reserve_elements may set the owner's length below the count.
BufferReserve(h, n) ==
    /\ handle[h] # None
    /\ \E p \in ReservePlaces(buffer[handle[h]], n) :
         /\ heap' = ReservedHeap(buffer[handle[h]], n, p)
         /\ buffer' = [buffer EXCEPT ![handle[h]] = ReservedBuffer(@, n, p)]
    /\ UNCHANGED <<live, view, lender, handle>>

BufferRetain(h, g) ==
    /\ handle[h] # None /\ handle[g] = None
    /\ buffer' = [buffer EXCEPT ![handle[h]].references = @ + 1]
    /\ handle' = [handle EXCEPT ![g] = handle[h]]
    /\ UNCHANGED vars

\* Mutant of HeapWithout: the destructor forgets the byte owner.
HeapWithoutRelease(h, bs, b) == h

\* mal_runtime_owner_release of a Buffer: the last reference destroys it, which releases
\* the byte owner it holds (h is the heap, bs the Buffers the release meets).
ReleasedBuffers(bs, b) ==
    IF bs[b].references = 1 THEN [bs EXCEPT ![b] = NoBuffer]
    ELSE [bs EXCEPT ![b].references = @ - 1]

HeapWithout(h, bs, b) ==
    IF bs[b].references = 1 THEN Release(h, bs[b].owner) ELSE h

BufferRelease(h) ==
    /\ handle[h] # None
    /\ heap' = HeapWithout(heap, buffer, handle[h])
    /\ buffer' = ReleasedBuffers(buffer, handle[h])
    /\ handle' = [handle EXCEPT ![h] = None]
    /\ UNCHANGED <<live, view, lender>>

-----------------------------------------------------------------------------
(* Conversions *)

\* The borrowing `*buffer`: the Symbol gets a flat copy.
BufferToSymbol(h, d) ==
    /\ handle[h] # None /\ d \notin live
    /\ BindCopy(d, BytesOf(heap, buffer[handle[h]]))
    /\ UNCHANGED <<lender, buffer, handle>>

\* Mutant of Movable: other handles may hold the Buffer.
MovableShared(b) ==
    /\ buffer[b].count # 0 /\ buffer[b].storage = "flat"
    /\ heap[buffer[b].owner].references = 1

\* mal_runtime_buffer_into_symbol: nothing but the dying handle holds the Buffer, so its
\* owner becomes the Symbol's and the emptied Buffer is destroyed.
Movable(b) ==
    /\ buffer[b].count # 0 /\ buffer[b].storage = "flat"
    /\ buffer[b].references = 1
    /\ heap[buffer[b].owner].references = 1

BufferIntoSymbol(h, d) ==
    /\ handle[h] # None /\ d \notin live
    /\ LET b == handle[h]
           o == buffer[b].owner
           count == buffer[b].count
           emptied == [buffer EXCEPT ![b].owner = None, ![b].storage = "none", ![b].count = 0]
           bytes == BytesOf(heap, buffer[b])
       IN  IF Movable(b)
           THEN /\ heap' = [heap EXCEPT ![o].start = 0, ![o].length = count]
                /\ Bind(d, [owner |-> o, data |-> 0, length |-> count], {})
                /\ buffer' = ReleasedBuffers(emptied, b)
           ELSE /\ buffer' = ReleasedBuffers(buffer, b)
                /\ IF count = 0
                   THEN heap' = HeapWithout(heap, buffer, b) /\ Bind(d, NoView, {})
                   ELSE \E p \in Fresh(heap) :
                          /\ heap' = HeapWithout(
                                       [heap EXCEPT ![p] = FlatOwner(bytes, Capacity(count), 0)],
                                       buffer, b)
                          /\ Bind(d, [owner |-> p, data |-> 0, length |-> count], {})
    /\ handle' = [handle EXCEPT ![h] = None]
    /\ UNCHANGED lender

\* mal_runtime_buffer_from with a stride of 1: storage of exactly the bytes copied.
Copied(bytes, p) ==
    LET x == Made(Len(bytes), p)
    IN  [x EXCEPT !.count = Len(bytes),
                  !.inline = IF x.storage = "inline" THEN Write(@, InlineBytes, 0, bytes) ELSE @]

CopiedHeap(bytes, p) ==
    IF p = None THEN heap
    ELSE [heap EXCEPT ![p] = [FlatOwner(bytes, Len(bytes), 0) EXCEPT !.length = 0]]

SymbolToBuffer(s, h) ==
    /\ s \in live /\ handle[h] = None
    /\ \E b \in FreshBuffers, p \in MakePlaces(view[s].length) :
         /\ heap' = CopiedHeap(Contents(s), p)
         /\ buffer' = [buffer EXCEPT ![b] = Copied(Contents(s), p)]
         /\ handle' = [handle EXCEPT ![h] = b]
    /\ UNCHANGED <<live, view, lender>>

\* Mutant of Adoptable: the owner may have headroom.
AdoptableHeadroom(v) ==
    /\ v.length # 0
    /\ v.owner \in Owners
    /\ heap[v.owner].references = 1

\* mal_runtime_symbol_into_buffer at the last use of an owned binding.
Adoptable(v) ==
    /\ v.length # 0
    /\ v.owner \in Owners
    /\ heap[v.owner].references = 1
    /\ heap[v.owner].start = 0 /\ v.data = 0

SymbolIntoBuffer(s, h) ==
    /\ Owned(s) /\ Borrowers(s) = {} /\ handle[h] = None
    /\ \E b \in FreshBuffers :
         IF Adoptable(view[s])
         THEN LET o == view[s].owner
              IN  /\ heap' = [heap EXCEPT ![o].length = view[s].length]
                  /\ buffer' = [buffer EXCEPT
                                  ![b] = [EmptyBuffer EXCEPT !.storage = "flat", !.owner = o,
                                                             !.count = view[s].length]]
                  /\ handle' = [handle EXCEPT ![h] = b]
         ELSE \E p \in MakePlaces(view[s].length) :
                  /\ heap' = Release(CopiedHeap(Contents(s), p), view[s].owner)
                  /\ buffer' = [buffer EXCEPT ![b] = Copied(Contents(s), p)]
                  /\ handle' = [handle EXCEPT ![h] = b]
    /\ live' = live \ {s}
    /\ view' = [view EXCEPT ![s] = NoView]
    /\ UNCHANGED lender

ConversionsNext ==
    \/ Next /\ UNCHANGED bufferVars
    \/ \E h \in Handles : \E capacity \in 0..MaxLength : BufferMake(h, capacity)
    \/ \E h \in Handles, v \in NewBytes : BufferNew(h, v)
    \/ \E h \in Handles, v \in NewBytes : \E i \in 0..MaxLength : BufferReplace(h, i, v)
    \/ \E h \in Handles : \E n \in 0..MaxLength : BufferTruncate(h, n)
    \/ \E h \in Handles : \E n \in 0..MaxLength : BufferReserve(h, n)
    \/ \E h, g \in Handles : BufferRetain(h, g)
    \/ \E h \in Handles : BufferRelease(h)
    \/ \E h \in Handles, d \in Bindings : BufferToSymbol(h, d)
    \/ \E h \in Handles, d \in Bindings : BufferIntoSymbol(h, d)
    \/ \E s \in Bindings, h \in Handles : SymbolToBuffer(s, h)
    \/ \E s \in Bindings, h \in Handles : SymbolIntoBuffer(s, h)

ConversionsSpec == Init /\ InitBuffers /\ [][ConversionsNext]_allVars

-----------------------------------------------------------------------------
InUseBuffers == {b \in Buffers : buffer[b].references > 0}

\* Types of the Buffer objects and handles, with those of the Symbols.
ConversionsTypeOK ==
    /\ TypeOK
    /\ buffer \in [Buffers -> [references : Nat, storage : {"none", "inline", "flat"},
                               owner : Owners \cup {None}, inline : Seq(Byte \cup {Junk}),
                               count : 0..MaxLength]]
    /\ handle \in [Handles -> Buffers \cup {None}]

\* A byte owner is held by the bindings that own it or by exactly one Buffer object, never
\* by both; a moved owner has left its old holder.
OwnersMatchHolders ==
    \A o \in Owners :
        LET bs == {b \in InUseBuffers : buffer[b].owner = o}
        IN  /\ heap[o].references = Cardinality(Holders(o)) + Cardinality(bs)
            /\ bs # {} => heap[o].references = 1

BufferReferencesMatchHandles ==
    \A b \in Buffers : buffer[b].references = Cardinality({h \in Handles : handle[h] = b})

\* Both counts together.
CountsMatch == OwnersMatchHolders /\ BufferReferencesMatchHandles

\* A Buffer's storage holds its count, inline, flat from the owner's first byte, or not at all,
\* and none of those bytes is uninitialised.
BuffersStored ==
    \A b \in InUseBuffers :
        /\ buffer[b].count <= CapacityOf(buffer[b])
        /\ buffer[b].storage = "flat" => heap[buffer[b].owner].start = 0
        /\ \A i \in 1..buffer[b].count : BytesOf(heap, buffer[b])[i] # Junk

BufferObjects == {handle[h] : h \in {g \in Handles : handle[g] # None}}

ByteContents == INSTANCE ByteValues WITH
    value <- [b \in live |-> Contents(b)],
    Literals <- {StaticBytes[o] : o \in Statics},
    object <- [h \in {g \in Handles : handle[g] # None} |-> handle[h]],
    content <- [b \in BufferObjects |-> BytesOf(heap, buffer[b])]

\* Every run is one of immutable Symbols and identity-bearing Buffers: moving a byte owner in
\* either direction is indistinguishable from the snapshot copy, whatever shared it before.
ImplementsByteValues == ByteContents!ByteSpec

=============================================================================

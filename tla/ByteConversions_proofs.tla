------------------------ MODULE ByteConversions_proofs ------------------------
(***************************************************************************)
(* Proofs about ByteConversions, for every number of bindings, handles,    *)
(* Buffers and owners, every program's literals and host inputs, every     *)
(* capacity policy and every size bound: types and counts first, then what *)
(* the storage of a Buffer holds, and last the refinement of ByteValues.   *)
(***************************************************************************)
EXTENDS ByteConversions, Symbols_proofs

BufferObject == [references : Nat, storage : {"none", "inline", "flat"},
                 owner : Owners \cup {None}, inline : Seq(Byte \cup {Junk}),
                 count : 0..MaxLength]

\* What the storage of a Buffer says of its other fields; a free one is blank.
Kept(x) ==
    /\ x.storage = "flat" <=> x.owner \in Owners
    /\ x.references = 0 => x = NoBuffer
    /\ x.storage = "inline" => Len(x.inline) = InlineBytes /\ x.count <= InlineBytes
    /\ x.storage = "none" => x.count = 0

\* No two Buffers hold one owner.
Apart(bs) ==
    \A b, c \in Buffers : bs[b].owner \in Owners /\ bs[b].owner = bs[c].owner => b = c

Objects(bs) ==
    /\ bs \in [Buffers -> BufferObject]
    /\ \A b \in Buffers : Kept(bs[b])
    /\ Apart(bs)

\* The references of each owner that the Buffers bs hold.
HeldBy(bs) == [o \in Owners |-> IF \E b \in Buffers : bs[b].owner = o THEN 1 ELSE 0]

-----------------------------------------------------------------------------
(* Which owners the Buffers hold. *)

LEMMA HeldByType ==
    ASSUME NEW bs
    PROVE  /\ HeldBy(bs) \in [Owners -> Nat]
           /\ \A o \in Owners : HeldBy(bs)[o] = IF \E b \in Buffers : bs[b].owner = o THEN 1 ELSE 0
BY DEF HeldBy

LEMMA ObjectFacts ==
    ASSUME NEW bs, Objects(bs), NEW b \in Buffers
    PROVE  /\ bs[b] \in BufferObject /\ Kept(bs[b])
           /\ bs[b].references \in Nat /\ bs[b].owner \in Owners \cup {None}
           /\ bs[b].inline \in Seq(Cell)
           /\ bs[b].count \in Nat /\ bs[b].count <= MaxLength
           /\ bs[b].count \in 0..SizeMax
<1>1. bs[b] \in BufferObject /\ Kept(bs[b])
    BY DEF Objects
<1>2. QED
    BY <1>1, Sizes DEF BufferObject, Cell

\* One Buffer takes its storage to an owner no other one holds.
LEMMA HeldByChange ==
    ASSUME NEW bs, Objects(bs), NEW b \in Buffers, NEW x \in BufferObject, Kept(x),
           \A c \in Buffers : c # b /\ x.owner \in Owners => bs[c].owner # x.owner,
           NEW k \in [Buffers -> BufferObject], k[b] = x,
           \A c \in Buffers : c # b => k[c] = bs[c]
    PROVE  /\ Objects(k)
           /\ \A o \in Owners : HeldBy(k)[o]
                = HeldBy(bs)[o] - (IF o = bs[b].owner THEN 1 ELSE 0)
                  + (IF o = x.owner THEN 1 ELSE 0)
<1>2. k \in [Buffers -> BufferObject] /\ k[b] = x /\ \A c \in Buffers : c # b => k[c] = bs[c]
    OBVIOUS
<1>3. \A c \in Buffers : Kept(k[c])
    BY <1>2 DEF Objects
<1>4. Apart(k)
    BY <1>2 DEF Objects, Apart
<1>5. ASSUME NEW o \in Owners
      PROVE  HeldBy(k)[o] = HeldBy(bs)[o] - (IF o = bs[b].owner THEN 1 ELSE 0)
                            + (IF o = x.owner THEN 1 ELSE 0)
    <2>1. \A c \in Buffers : bs[b].owner = o /\ bs[c].owner = o => c = b
        BY DEF Objects, Apart
    <2>2. HeldBy(bs)[o] = IF \E c \in Buffers : bs[c].owner = o THEN 1 ELSE 0
        BY HeldByType
    <2>3. HeldBy(k)[o] = IF \E c \in Buffers : k[c].owner = o THEN 1 ELSE 0
        BY HeldByType
    <2>4. CASE o = x.owner
        <3>1. HeldBy(k)[o] = 1
            BY <1>2, <2>3, <2>4
        <3>2. HeldBy(bs)[o] = IF o = bs[b].owner THEN 1 ELSE 0
            BY <2>2, <2>4
        <3>3. QED
            BY <2>4, <3>1, <3>2
    <2>5. CASE o # x.owner
        <3>1. (\E c \in Buffers : k[c].owner = o)
                <=> (o # bs[b].owner /\ \E c \in Buffers : bs[c].owner = o)
            BY <1>2, <2>1, <2>5
        <3>2. o = bs[b].owner => HeldBy(bs)[o] = 1
            BY <2>2
        <3>3. QED
            BY <2>2, <2>3, <2>5, <3>1, <3>2
    <2>6. QED
        BY <2>4, <2>5
<1>6. Objects(k)
    BY <1>2, <1>3, <1>4 DEF Objects
<1>7. QED
    BY <1>5, <1>6

\* What others hold changes from extra to among while the bindings stay as they are.
LEMMA HoldStep ==
    ASSUME NEW extra \in [Owners -> Nat], Held(extra), NEW among \in [Owners -> Nat],
           UNCHANGED <<live, view, lender>>, heap' \in Heaps,
           \A o \in Owners : heap'[o].references + extra[o] = heap[o].references + among[o],
           \A o \in Owners : among[o] >= 1 => extra[o] >= 1 \/ heap[o].references = 0
    PROVE  Held(among)'
<1>1. IInv(extra) /\ Lent /\ Unviewed(extra)
    BY DEF Held
<1>2. TypeOK'
    BY <1>1 DEF IInv, TypeOK, View, Heaps, FlatHeader
<1>3. Counted(among)'
    <2> SUFFICES ASSUME NEW o \in Owners
                 PROVE  heap'[o].references = Cardinality(Holders(o)') + among[o]
        BY DEF Counted
    <2>1. Holders(o)' = Holders(o)
        BY DEF Holders
    <2>2. heap[o].references = Cardinality(Holders(o)) + extra[o] /\ extra[o] \in Nat
        BY <1>1 DEF IInv, Counted
    <2>3. Cardinality(Holders(o)) \in Nat /\ heap'[o].references \in Nat /\ among[o] \in Nat
        BY <1>1, HoldersFinite DEF IInv, Heaps, FlatHeader
    <2>4. heap'[o].references + extra[o] = heap[o].references + among[o]
        OBVIOUS
    <2>5. QED
        BY <2>1, <2>2, <2>3, <2>4
<1>4. VacantBorrowNothing' /\ StaticWindows' /\ Lent'
    BY <1>1 DEF IInv, VacantBorrowNothing, StaticWindows, InStatic, Lent, Owned
<1>5. ASSUME NEW b \in live, view[b].owner \in Owners
      PROVE  among[view[b].owner] = 0
    <2>1. extra[view[b].owner] = 0
        BY <1>1, <1>5 DEF Unviewed, Spare
    <2>2. heap[view[b].owner].references >= 1
        BY <1>1, <1>5, ViewedAlive DEF ViewsAlive
    <2>3. ~(among[view[b].owner] >= 1)
        BY <1>5, <2>1, <2>2
    <2>4. QED
        BY <1>5, <2>3
<1>6. Unviewed(among)'
    BY <1>5 DEF Unviewed, Spare
<1>7. QED
    BY <1>2, <1>3, <1>4, <1>6 DEF Held, IInv

-----------------------------------------------------------------------------
(* A step on one Buffer.                                                      *)

\* The Buffers hold what the counts say, with no binding on it.
BInv == \E extra \in [Owners -> Nat] : extra = HeldBy(buffer) /\ Held(extra) /\ Objects(buffer)

\* The owner of a Buffer is held by nothing else.
LEMMA HeldOnce ==
    ASSUME NEW extra \in [Owners -> Nat], extra = HeldBy(buffer), Held(extra), Objects(buffer),
           NEW b \in Buffers, buffer[b].owner \in Owners
    PROVE  /\ extra[buffer[b].owner] = 1
           /\ heap[buffer[b].owner].references >= 1
           /\ \A c \in live : view[c].owner # buffer[b].owner
           /\ heap[buffer[b].owner].references = 1
<1> DEFINE o == buffer[b].owner
<1>1. extra[o] = 1
    BY HeldByType
<1>2. heap[o].references >= 1
    BY <1>1, HeldAliveAlways DEF HeldAlive
<1>3. \A c \in live : view[c].owner # o
    BY <1>1 DEF Held, Unviewed, Spare
<1>4. Holders(o) = {}
    BY <1>3 DEF Holders
<1>5. heap[o].references = 1
    <2>1. Cardinality({}) = 0
        BY FS_EmptySet
    <2>2. heap[o].references = Cardinality(Holders(o)) + extra[o]
        BY DEF Held, IInv, Counted
    <2>3. QED
        BY <1>1, <1>4, <2>1, <2>2
<1>6. QED
    BY <1>1, <1>2, <1>3, <1>5

\* A free owner is no Buffer's.
LEMMA FreshApart ==
    ASSUME NEW extra \in [Owners -> Nat], extra = HeldBy(buffer), Held(extra), Objects(buffer),
           NEW p \in Fresh(heap)
    PROVE  p \in Owners /\ heap[p].references = 0 /\ \A b \in Buffers : buffer[b].owner # p
<1>1. p \in Owners /\ heap[p].references = 0
    BY DEF Fresh
<1>2. QED
    BY <1>1, HeldOnce

\* The Buffer b becomes x on its old owner, a free one or none, and the heap counts it there.
LEMMA ObjectStep ==
    ASSUME BInv, NEW b \in Buffers, NEW x \in BufferObject, Kept(x),
           x.owner \in {buffer[b].owner, None} \cup Fresh(heap),
           buffer' = [buffer EXCEPT ![b] = x], UNCHANGED <<live, view, lender>>,
           heap' \in Heaps, Moved(heap, heap', buffer[b].owner, x.owner)
    PROVE  BInv'
<1>1. PICK extra \in [Owners -> Nat] : extra = HeldBy(buffer) /\ Held(extra) /\ Objects(buffer)
    BY DEF BInv
<1>2. \A c \in Buffers : c # b /\ x.owner \in Owners => buffer[c].owner # x.owner
    <2>1. \A c \in Buffers : c # b /\ buffer[b].owner \in Owners => buffer[c].owner # buffer[b].owner
        BY <1>1 DEF Objects, Apart
    <2>2. \A p \in Fresh(heap) : \A c \in Buffers : buffer[c].owner # p
        BY <1>1, FreshApart
    <2>3. QED
        BY <2>1, <2>2, NoneIsNoOwner
<1>3. /\ Objects(buffer')
      /\ \A o \in Owners : HeldBy(buffer')[o]
            = HeldBy(buffer)[o] - (IF o = buffer[b].owner THEN 1 ELSE 0)
              + (IF o = x.owner THEN 1 ELSE 0)
    <2>1. PICK bs : bs = buffer
        OBVIOUS
    <2>2. PICK k : k = buffer'
        OBVIOUS
    <2>3. /\ Objects(bs)
          /\ k \in [Buffers -> BufferObject] /\ k[b] = x
          /\ \A c \in Buffers : c # b => k[c] = bs[c]
        <3>1. buffer \in [Buffers -> BufferObject]
            BY <1>1 DEF Objects
        <3>2. QED
            BY <1>1, <2>1, <2>2, <3>1
    <2>4. \A c \in Buffers : c # b /\ x.owner \in Owners => bs[c].owner # x.owner
        BY <1>2, <2>1
    <2>5. /\ Objects(k)
          /\ \A o \in Owners : HeldBy(k)[o]
                = HeldBy(bs)[o] - (IF o = bs[b].owner THEN 1 ELSE 0)
                  + (IF o = x.owner THEN 1 ELSE 0)
        BY <2>3, <2>4, HeldByChange
    <2>6. QED
        BY <2>1, <2>2, <2>5
<1>4. PICK among \in [Owners -> Nat] : among = HeldBy(buffer')
    BY HeldByType
<1>5. ASSUME NEW o \in Owners
      PROVE  /\ heap'[o].references + extra[o] = heap[o].references + among[o]
             /\ among[o] >= 1 => extra[o] >= 1 \/ heap[o].references = 0
    <2>1. among[o] = extra[o] - (IF o = buffer[b].owner THEN 1 ELSE 0)
                     + (IF o = x.owner THEN 1 ELSE 0)
        BY <1>1, <1>3, <1>4
    <2>2. heap'[o].references = heap[o].references - (IF o = buffer[b].owner THEN 1 ELSE 0)
                                + (IF o = x.owner THEN 1 ELSE 0)
        BY DEF Moved
    <2>3. heap[o].references \in Nat /\ extra[o] \in Nat
        BY <1>1, TypeFacts DEF Held, IInv
    <2>4. o \in Fresh(heap) => heap[o].references = 0
        BY DEF Fresh
    <2>5. o # None
        BY NoneIsNoOwner
    <2>6. among[o] >= 1 => extra[o] >= 1 \/ heap[o].references = 0
        <3>1. CASE o = x.owner
            <4>1. o = buffer[b].owner \/ o \in Fresh(heap)
                BY <2>5, <3>1
            <4>2. o = buffer[b].owner => extra[o] = 1
                BY <1>1, HeldOnce
            <4>3. QED
                BY <2>4, <4>1, <4>2
        <3>2. CASE o # x.owner
            BY <2>1, <2>3, <3>2
        <3>3. QED
            BY <3>1, <3>2
    <2>7. QED
        BY <2>1, <2>2, <2>3, <2>6
<1>6. Held(among)'
    BY <1>1, <1>5, HoldStep
<1>7. QED
    BY <1>3, <1>4, <1>6 DEF BInv

-----------------------------------------------------------------------------
(* The Buffers' own operations. *)

LEMMA BlankBuffer ==
    /\ NoBuffer \in BufferObject /\ Kept(NoBuffer) /\ NoBuffer.owner = None
    /\ NoBuffer.references = 0 /\ NoBuffer.count = 0
    /\ EmptyBuffer \in BufferObject /\ Kept(EmptyBuffer) /\ EmptyBuffer.owner = None
    /\ EmptyBuffer.references = 1 /\ EmptyBuffer.count = 0
<1>1. 0 \in 0..MaxLength /\ <<>> \in Seq(Byte \cup {Junk})
    BY Sizes
<1>2. NoBuffer \in BufferObject /\ Kept(NoBuffer)
    BY <1>1, NoneIsNoOwner DEF NoBuffer, BufferObject, Kept
<1>3. EmptyBuffer = [references |-> 1, storage |-> "none", owner |-> None, inline |-> <<>>, count |-> 0]
    BY DEF EmptyBuffer, NoBuffer
<1>4. EmptyBuffer \in BufferObject /\ Kept(EmptyBuffer)
    BY <1>1, <1>3, NoneIsNoOwner DEF BufferObject, Kept
<1>5. QED
    BY <1>2, <1>3, <1>4 DEF NoBuffer

\* The bytes of a Buffer are its count of cells.
LEMMA BytesType ==
    ASSUME NEW h \in Heaps, NEW x \in BufferObject, Kept(x)
    PROVE  BytesOf(h, x) \in Seq(Cell) /\ Len(BytesOf(h, x)) = x.count
<1>1. x.count \in Nat /\ x.inline \in Seq(Cell)
    BY Sizes DEF BufferObject, Cell
<1>2. CASE x.storage = "flat"
    <2>1. x.owner \in Owners /\ x.owner \notin Statics
        BY <1>2, OwnersAssumption DEF Kept
    <2>2. InStatic(x.owner, 0, x.count) /\ 0 \in Nat
        BY <2>1 DEF InStatic
    <2>3. Read(h, x.owner, 0, x.count) \in Seq(Cell) /\ Len(Read(h, x.owner, 0, x.count)) = x.count
        BY <1>1, <2>2, ReadType
    <2>4. QED
        BY <1>2, <2>3 DEF BytesOf
<1>3. CASE x.storage # "flat"
    <2>1. x.count <= Len(x.inline) \/ x.count = 0
        BY <1>3, BuffersAssumption DEF Kept, BufferObject
    <2>2. SubSeq(x.inline, 1, x.count) \in Seq(Cell) /\ Len(SubSeq(x.inline, 1, x.count)) = x.count
        BY <1>1, <2>1
    <2>3. QED
        BY <1>3, <2>2 DEF BytesOf
<1>4. QED
    BY <1>2, <1>3

LEMMA SameMoved ==
    ASSUME NEW h \in Heaps, NEW k, \A q \in Owners : k[q].references = h[q].references, NEW o
    PROVE  Moved(h, k, o, o)
BY HeaderFacts DEF Moved

LEMMA MovedBy ==
    ASSUME NEW h, NEW g, NEW k, NEW from, NEW to, Moved(h, g, from, to),
           \A q \in Owners : k[q].references = g[q].references
    PROVE  Moved(h, k, from, to)
BY DEF Moved

\* A store changes one byte of one owner.
LEMMA StoredHeapFacts ==
    ASSUME NEW h \in Heaps, NEW x, x.storage = "flat" => x.owner \in Owners, NEW i \in Nat,
           NEW v \in Cell, NEW k, k = StoredHeap(h, x, i, v)
    PROVE  /\ k \in Heaps
           /\ \A q \in Owners : /\ k[q].references = h[q].references
                                /\ k[q].length = h[q].length /\ k[q].capacity = h[q].capacity
                                /\ k[q].start = h[q].start
           /\ \A q \in Owners : q # x.owner => k[q] = h[q]
           /\ x.storage = "flat" =>
                 \A j \in 1..h[x.owner].capacity :
                    k[x.owner].bytes[j] = IF j = i + 1 THEN v ELSE h[x.owner].bytes[j]
<1>1. CASE x.storage # "flat"
    BY <1>1, HeaderFacts DEF StoredHeap
<1>2. CASE x.storage = "flat"
    <2> DEFINE o == x.owner
               bytes == [h[o].bytes EXCEPT ![i + 1] = v]
               y == [h[o] EXCEPT !.bytes = bytes]
    <2>1. o \in Owners /\ h \in [Owners -> FlatHeader] /\ h[o] \in FlatHeader
        BY <1>2 DEF Heaps
    <2>2. h[o].bytes \in Seq(Cell) /\ Len(h[o].bytes) = h[o].capacity
        BY <2>1, HeaderFacts DEF Heaps
    <2>3. /\ bytes \in Seq(Cell) /\ Len(bytes) = h[o].capacity
          /\ \A j \in 1..h[o].capacity : bytes[j] = IF j = i + 1 THEN v ELSE h[o].bytes[j]
        <3>1. h[o].bytes \in [1..h[o].capacity -> Cell] /\ h[o].capacity \in Nat
            BY <2>1, <2>2, HeaderFacts
        <3>2. bytes \in [1..h[o].capacity -> Cell]
            BY <3>1
        <3>3. \A j \in 1..h[o].capacity : bytes[j] = IF j = i + 1 THEN v ELSE h[o].bytes[j]
            BY <3>1
        <3> HIDE DEF bytes
        <3>4. QED
            BY <3>1, <3>2, <3>3
    <2> HIDE DEF bytes
    <2>4. /\ y \in FlatHeader /\ y.references = h[o].references /\ y.length = h[o].length
          /\ y.capacity = h[o].capacity /\ y.start = h[o].start /\ y.bytes = bytes
        BY <2>1, <2>3 DEF FlatHeader, Cell
    <2>5. k = [h EXCEPT ![o] = y]
        BY <1>2 DEF StoredHeap, bytes
    <2> HIDE DEF y
    <2>6. Len(y.bytes) = y.capacity
        BY <2>3, <2>4
    <2>7. k \in Heaps /\ k[o] = y /\ \A q \in Owners : q # o => k[q] = h[q]
        <3>1. [h EXCEPT ![o] = y] \in Heaps
            BY <2>1, <2>4, <2>6, HeapUpdate
        <3>2. QED
            BY <2>1, <2>5, <3>1
    <2>8. QED
        BY <2>3, <2>4, <2>7
<1>3. QED
    BY <1>1, <1>2

LEMMA StoredBufferFacts ==
    ASSUME NEW x \in BufferObject, Kept(x), NEW i \in Nat, NEW v \in Cell, x.references # 0
    PROVE  /\ StoredBuffer(x, i, v) \in BufferObject /\ Kept(StoredBuffer(x, i, v))
           /\ StoredBuffer(x, i, v).references = x.references
           /\ StoredBuffer(x, i, v).owner = x.owner
           /\ StoredBuffer(x, i, v).storage = x.storage
           /\ StoredBuffer(x, i, v).count = x.count
           /\ IF x.storage = "flat" THEN StoredBuffer(x, i, v) = x
              ELSE /\ Len(StoredBuffer(x, i, v).inline) = Len(x.inline)
                   /\ \A j \in 1..Len(x.inline) :
                         StoredBuffer(x, i, v).inline[j] = IF j = i + 1 THEN v ELSE x.inline[j]
<1>1. CASE x.storage = "flat"
    BY <1>1 DEF StoredBuffer
<1>2. CASE x.storage # "flat"
    <2> DEFINE inline == [x.inline EXCEPT ![i + 1] = v]
               y == [x EXCEPT !.inline = inline]
    <2>1. x.inline \in Seq(Cell)
        BY DEF BufferObject, Cell
    <2>2. /\ inline \in Seq(Cell) /\ Len(inline) = Len(x.inline)
          /\ \A j \in 1..Len(x.inline) : inline[j] = IF j = i + 1 THEN v ELSE x.inline[j]
        <3>1. x.inline \in [1..Len(x.inline) -> Cell] /\ Len(x.inline) \in Nat
            BY <2>1
        <3>2. inline \in [1..Len(x.inline) -> Cell]
            BY <3>1
        <3>3. \A j \in 1..Len(x.inline) : inline[j] = IF j = i + 1 THEN v ELSE x.inline[j]
            BY <3>1
        <3> HIDE DEF inline
        <3>4. QED
            BY <3>1, <3>2, <3>3
    <2>3. StoredBuffer(x, i, v) = y
        BY <1>2 DEF StoredBuffer
    <2> HIDE DEF inline
    <2>4. /\ y \in BufferObject /\ y.references = x.references /\ y.storage = x.storage
          /\ y.owner = x.owner /\ y.inline = inline /\ y.count = x.count
        BY <2>2 DEF BufferObject, Cell
    <2>5. Kept(y)
        <3>1. y.inline = inline /\ Len(inline) = Len(x.inline)
            BY <2>2, <2>4
        <3> HIDE DEF y
        <3>2. QED
            BY <2>4, <3>1 DEF Kept
    <2>6. QED
        BY <1>2, <2>2, <2>3, <2>4, <2>5
<1>3. QED
    BY <1>1, <1>2

\* What mal_buffer_reserve makes of a Buffer in use.
Reserves(h, x, k, y) ==
    /\ k \in Heaps /\ Moved(h, k, x.owner, y.owner)
    /\ y \in BufferObject /\ Kept(y)
    /\ y.owner \in {x.owner, None} \cup Fresh(h)
    /\ y.references = x.references /\ y.count = x.count

LEMMA ReserveTypes ==
    ASSUME heap \in Heaps, NEW x \in BufferObject, Kept(x), x.references # 0,
           x.owner \in Owners => heap[x.owner].references = 1,
           NEW required \in 0..SizeMax, NEW p \in ReservePlaces(x, required),
           NEW k, k = ReservedHeap(x, required, p), NEW y, y = ReservedBuffer(x, required, p)
    PROVE  Reserves(heap, x, k, y)
<1>0. /\ heap \in [Owners -> FlatHeader] /\ required \in Nat
      /\ \A q \in Owners : heap[q].references \in Nat
    BY HeaderFacts, Sizes DEF Heaps
<1>1. CASE required <= CapacityOf(x)
    <2>1. y = x
        BY <1>1 DEF ReservedBuffer
    <2>2. ~(required > CapacityOf(x))
        <3>1. CapacityOf(x) \in Nat
            BY <1>0, BuffersAssumption, HeaderFacts DEF CapacityOf, Kept, BufferObject
        <3>2. QED
            BY <1>0, <1>1, <3>1
    <2>3. CASE x.storage = "flat"
        <3>1. x.owner \in Owners
            BY <2>3 DEF Kept
        <3> DEFINE z == [heap[x.owner] EXCEPT !.length = required]
        <3>2. z \in FlatHeader /\ Len(z.bytes) = z.capacity /\ z.references = heap[x.owner].references
            BY <1>0, <3>1 DEF Heaps, FlatHeader
        <3>3. k = [heap EXCEPT ![x.owner] = z]
            BY <2>2, <2>3 DEF ReservedHeap
        <3> HIDE DEF z
        <3>4. k \in Heaps /\ \A q \in Owners : k[q].references = heap[q].references
            <4>1. k \in Heaps /\ k[x.owner] = z /\ \A q \in Owners : q # x.owner => k[q] = heap[q]
                <5>1. [heap EXCEPT ![x.owner] = z] \in Heaps
                    BY <3>1, <3>2, HeapUpdate
                <5>2. QED
                    BY <1>0, <3>1, <3>3, <5>1
            <4>2. QED
                BY <3>2, <4>1
        <3>5. QED
            BY <2>1, <3>4, SameMoved DEF Reserves
    <2>4. CASE x.storage # "flat"
        <3>1. k = heap
            BY <2>2, <2>4 DEF ReservedHeap
        <3>2. QED
            BY <2>1, <3>1, SameMoved DEF Reserves
    <2>5. QED
        BY <2>3, <2>4
<1>2. CASE ~(required <= CapacityOf(x))
    <2>1. CapacityOf(x) \in Nat
        BY <1>0, BuffersAssumption, HeaderFacts DEF CapacityOf, Kept, BufferObject
    <2>2. required > CapacityOf(x) /\ Capacity(required) \in Nat
        BY <1>0, <1>2, <2>1, Sizes
    <2>3. p \in Owners /\ (p = x.owner \/ p \in Fresh(heap)) /\ (p = x.owner => x.storage = "flat")
        BY <1>2 DEF ReservePlaces, Fresh, Kept
    <2>4. /\ y = [x EXCEPT !.storage = "flat", !.owner = p, !.inline = <<>>]
        BY <1>2 DEF ReservedBuffer
    <2>5. /\ y \in BufferObject /\ y.storage = "flat" /\ y.owner = p
          /\ y.references = x.references /\ y.count = x.count
        <3>1. <<>> \in Seq(Byte \cup {Junk})
            OBVIOUS
        <3>2. QED
            BY <2>3, <2>4, <3>1 DEF BufferObject
    <2>6. Kept(y)
        BY <2>3, <2>5 DEF Kept
    <2>7. k \in Heaps /\ Moved(heap, k, x.owner, p)
        <3>1. CASE x.storage = "flat"
            <4> DEFINE g == Realloc(heap, x.owner, p, Capacity(required))
                       z == [g[p] EXCEPT !.length = required]
            <4>1. x.owner \in Owners /\ heap[x.owner].references = 1 /\ p \in {x.owner} \cup Fresh(heap)
                BY <2>3, <3>1 DEF Kept
            <4>2. g \in Heaps /\ Moved(heap, g, x.owner, p)
                BY <2>2, <4>1, ReallocHeap
            <4>3. k = [g EXCEPT ![p] = z]
                BY <2>2, <3>1 DEF ReservedHeap
            <4> HIDE DEF g
            <4>4. z \in FlatHeader /\ Len(z.bytes) = z.capacity /\ z.references = g[p].references
                BY <1>0, <2>3, <4>2 DEF Heaps, FlatHeader
            <4>5. g \in [Owners -> FlatHeader]
                BY <4>2 DEF Heaps
            <4> HIDE DEF z
            <4>6. k \in Heaps /\ \A q \in Owners : k[q].references = g[q].references
                <5>1. k \in Heaps /\ k[p] = z /\ \A q \in Owners : q # p => k[q] = g[q]
                    <6>1. [g EXCEPT ![p] = z] \in Heaps
                        BY <2>3, <4>2, <4>4, HeapUpdate
                    <6>2. QED
                        BY <2>3, <4>3, <4>5, <6>1
                <5>2. QED
                    BY <4>4, <5>1
            <4>7. QED
                BY <4>2, <4>6, MovedBy
        <3>2. CASE x.storage # "flat"
            <4> DEFINE w == FlatOwner(BytesOf(heap, x), Capacity(required), 0)
                       z == [w EXCEPT !.length = required]
            <4>1. p \in Fresh(heap) /\ p \in Owners /\ heap[p].references = 0
                BY <2>3, <3>2 DEF Fresh
            <4>2. w \in FlatHeader /\ Len(w.bytes) = w.capacity /\ w.references = 1
                <5>1. BytesOf(heap, x) \in Seq(Cell) /\ 0 \in Nat
                    BY BytesType
                <5>2. QED
                    BY <2>2, <5>1, FlatOwnerType
            <4>3. k = [heap EXCEPT ![p] = z]
                BY <2>2, <3>2 DEF ReservedHeap
            <4> HIDE DEF w
            <4>4. z \in FlatHeader /\ Len(z.bytes) = z.capacity /\ z.references = 1
                BY <1>0, <4>2 DEF FlatHeader
            <4> HIDE DEF z
            <4>5. k \in Heaps /\ \A q \in Owners : k[q] = IF q = p THEN z ELSE heap[q]
                <5>1. k \in Heaps /\ k[p] = z /\ \A q \in Owners : q # p => k[q] = heap[q]
                    <6>1. [heap EXCEPT ![p] = z] \in Heaps
                        BY <4>1, <4>4, HeapUpdate
                    <6>2. QED
                        BY <1>0, <4>1, <4>3, <6>1
                <5>2. QED
                    BY <5>1
            <4>6. x.owner = None
                BY <3>2 DEF Kept, BufferObject
            <4>7. QED
                BY <1>0, <4>1, <4>4, <4>5, <4>6, NoneIsNoOwner DEF Moved
        <3>3. QED
            BY <3>1, <3>2
    <2>8. QED
        BY <2>3, <2>5, <2>6, <2>7 DEF Reserves
<1>3. QED
    BY <1>1, <1>2

LEMMA BInvFacts ==
    ASSUME BInv
    PROVE  /\ Objects(buffer) /\ heap \in Heaps /\ live \subseteq Bindings
           /\ heap \in [Owners -> FlatHeader] /\ \A q \in Owners : heap[q].references \in Nat
           /\ buffer \in [Buffers -> BufferObject]
           /\ \A b \in Buffers : /\ buffer[b] \in BufferObject /\ Kept(buffer[b])
                                 /\ buffer[b].owner \in Owners => heap[buffer[b].owner].references = 1
<1>1. PICK extra \in [Owners -> Nat] : extra = HeldBy(buffer) /\ Held(extra) /\ Objects(buffer)
    BY DEF BInv
<1>2. \A b \in Buffers : buffer[b].owner \in Owners => heap[buffer[b].owner].references = 1
    BY <1>1, HeldOnce
<1>3. QED
    BY <1>1, <1>2, TypeFacts DEF Held, IInv, Objects

\* A Buffer the allocator hands out was blank.
LEMMA FreshBuffer ==
    ASSUME BInv, NEW b \in FreshBuffers
    PROVE  b \in Buffers /\ buffer[b] = NoBuffer /\ buffer[b].owner = None
<1>1. b \in Buffers /\ buffer[b].references = 0
    BY DEF FreshBuffers
<1>2. QED
    BY <1>1, BInvFacts, BlankBuffer DEF Kept

LEMMA MadeTypes ==
    ASSUME NEW capacity \in 0..MaxLength, NEW p \in MakePlaces(capacity),
           NEW x, x = Made(capacity, p)
    PROVE  /\ x \in BufferObject /\ Kept(x) /\ x.references = 1 /\ x.count = 0 /\ x.owner = p
           /\ capacity > InlineBytes =>
                 p \in Fresh(heap) /\ p \in Owners /\ x.storage = "flat" /\ x.inline = <<>>
           /\ ~(capacity > InlineBytes) => p = None
           /\ capacity \in 1..InlineBytes =>
                 x.storage = "inline" /\ x.inline \in Seq(Cell) /\ Len(x.inline) = InlineBytes
           /\ capacity = 0 => x.storage = "none"
<1>1. capacity \in Nat /\ InlineBytes \in Nat
    BY Sizes, BuffersAssumption
<1> DEFINE storage == CASE capacity = 0 -> "none" [] capacity > InlineBytes -> "flat" [] OTHER -> "inline"
           inline == IF capacity \in 1..InlineBytes THEN [i \in 1..InlineBytes |-> Junk] ELSE <<>>
<1>2. x = [references |-> 1, storage |-> storage, owner |-> IF capacity > InlineBytes THEN p ELSE None,
           inline |-> inline, count |-> 0]
    BY DEF Made, EmptyBuffer, NoBuffer
<1>3. inline \in Seq(Cell) /\ (capacity \in 1..InlineBytes => Len(inline) = InlineBytes)
    <2>1. CASE capacity \in 1..InlineBytes
        <3>1. inline \in [1..InlineBytes -> Cell]
            BY <2>1 DEF Cell
        <3>2. QED
            BY <1>1, <2>1, <3>1
    <2>2. CASE capacity \notin 1..InlineBytes
        BY <2>2, EmptyCells
    <2>3. QED
        BY <2>1, <2>2
<1>4. storage \in {"none", "inline", "flat"} /\ (storage = "flat" <=> capacity > InlineBytes)
      /\ (storage = "inline" <=> capacity \in 1..InlineBytes) /\ (storage = "none" <=> capacity = 0)
    BY <1>1
<1>5. /\ capacity > InlineBytes => p \in Fresh(heap) /\ p \in Owners /\ inline = <<>>
      /\ ~(capacity > InlineBytes) => p = None
    BY <1>1 DEF MakePlaces, Fresh
<1> HIDE DEF storage, inline
<1>6. 0 \in 0..MaxLength
    BY Sizes
<1>7. x \in BufferObject
    BY <1>2, <1>3, <1>4, <1>5, <1>6 DEF BufferObject, Cell
<1>8. Kept(x)
    BY <1>1, <1>2, <1>3, <1>4, <1>5, NoneIsNoOwner DEF Kept
<1>9. QED
    BY <1>2, <1>3, <1>4, <1>5, <1>7, <1>8

\* A free owner p, or none, gets the storage y.
LEMMA PlacedHeap ==
    ASSUME NEW h \in Heaps, NEW p, p = None \/ p \in Fresh(h),
           NEW y \in FlatHeader, Len(y.bytes) = y.capacity, y.references = 1,
           NEW k, k = IF p = None THEN h ELSE [h EXCEPT ![p] = y]
    PROVE  k \in Heaps /\ Moved(h, k, None, p)
<1>1. h \in [Owners -> FlatHeader] /\ \A q \in Owners : h[q].references \in Nat
    BY HeaderFacts DEF Heaps
<1>2. CASE p = None
    BY <1>2, SameMoved
<1>3. CASE p # None
    <2>1. p \in Owners /\ h[p].references = 0
        BY <1>3 DEF Fresh
    <2>2. [h EXCEPT ![p] = y] \in Heaps
        BY <2>1, HeapUpdate
    <2>3. k \in Heaps /\ \A q \in Owners : k[q] = IF q = p THEN y ELSE h[q]
        BY <1>1, <1>3, <2>1, <2>2
    <2>4. QED
        BY <1>1, <2>1, <2>3, NoneIsNoOwner DEF Moved
<1>4. QED
    BY <1>2, <1>3

LEMMA BufferMakeStep ==
    ASSUME BInv, NEW h \in Handles, NEW capacity \in 0..MaxLength, BufferMake(h, capacity)
    PROVE  BInv'
<1>1. PICK b \in FreshBuffers, p \in MakePlaces(capacity) :
         /\ heap' = MadeHeap(heap, capacity, p)
         /\ buffer' = [buffer EXCEPT ![b] = Made(capacity, p)]
    BY DEF BufferMake
<1> DEFINE x == Made(capacity, p)
           y == FlatOwner(<<>>, capacity, 0)
<1>2. /\ x \in BufferObject /\ Kept(x) /\ x.owner = p /\ (p = None \/ p \in Fresh(heap))
    BY MadeTypes
<1>3. y \in FlatHeader /\ Len(y.bytes) = y.capacity /\ y.references = 1
    <2>1. capacity \in Nat /\ 0 \in Nat
        BY Sizes
    <2>2. QED
        BY <2>1, EmptyCells, FlatOwnerType
<1>4. heap' = IF p = None THEN heap ELSE [heap EXCEPT ![p] = y]
    BY <1>1 DEF MadeHeap
<1> HIDE DEF y
<1>5. heap' \in Heaps /\ Moved(heap, heap', None, p)
    BY <1>2, <1>3, <1>4, BInvFacts, PlacedHeap
<1>6. b \in Buffers /\ buffer[b].owner = None /\ buffer' = [buffer EXCEPT ![b] = x]
    BY <1>1, FreshBuffer
<1>7. UNCHANGED <<live, view, lender>>
    BY DEF BufferMake
<1> HIDE DEF x
<1>8. QED
    BY <1>2, <1>5, <1>6, <1>7, ObjectStep

LEMMA NewByteCell ==
    ASSUME NEW v \in NewBytes
    PROVE  v \in Cell /\ v # Junk
BY BuffersAssumption, BytesAssumption DEF Cell

\* A Buffer with another count its storage holds.
LEMMA CountedBuffer ==
    ASSUME NEW x \in BufferObject, Kept(x), x.references # 0, NEW n \in 0..MaxLength,
           x.storage = "inline" => n <= InlineBytes, x.storage = "none" => n = 0,
           NEW y, y = [x EXCEPT !.count = n]
    PROVE  /\ y \in BufferObject /\ Kept(y) /\ y.references = x.references
           /\ y.owner = x.owner /\ y.storage = x.storage /\ y.inline = x.inline /\ y.count = n
<1>1. /\ y \in BufferObject /\ y.references = x.references /\ y.owner = x.owner
      /\ y.storage = x.storage /\ y.inline = x.inline /\ y.count = n
    BY DEF BufferObject
<1>2. Kept(y)
    BY <1>1 DEF Kept
<1>3. QED
    BY <1>1, <1>2

\* What an append makes of a Buffer: the byte goes behind the others.
Appended(x, y, v) == [StoredBuffer(y, x.count, v) EXCEPT !.count = @ + 1]

LEMMA AppendedTypes ==
    ASSUME heap \in Heaps, NEW x \in BufferObject, Kept(x), x.references # 0, x.count < MaxLength,
           x.owner \in Owners => heap[x.owner].references = 1,
           NEW p \in ReservePlaces(x, x.count + 1), NEW v \in Cell,
           NEW y, y = ReservedBuffer(x, x.count + 1, p), NEW z, z = Appended(x, y, v)
    PROVE  /\ Reserves(heap, x, ReservedHeap(x, x.count + 1, p), y)
           /\ z \in BufferObject /\ Kept(z) /\ z.references = x.references
           /\ z.owner = y.owner /\ z.storage = y.storage /\ z.count = x.count + 1
           /\ z.inline = StoredBuffer(y, x.count, v).inline
<1>1. x.count \in Nat /\ x.count + 1 \in 0..SizeMax /\ x.count + 1 \in 0..MaxLength
    BY Sizes DEF BufferObject
<1>2. Reserves(heap, x, ReservedHeap(x, x.count + 1, p), y)
    BY <1>1, ReserveTypes
<1> DEFINE w == StoredBuffer(y, x.count, v)
<1>3. /\ w \in BufferObject /\ Kept(w) /\ w.references = x.references /\ w.owner = y.owner
      /\ w.storage = y.storage /\ w.count = x.count
    BY <1>1, <1>2, StoredBufferFacts DEF Reserves
<1>4. /\ y.storage = "inline" => x.count + 1 <= InlineBytes
      /\ y.storage # "none"
    <2>1. CASE x.count + 1 <= CapacityOf(x)
        <3>1. y = x
            BY <2>1 DEF ReservedBuffer
        <3>2. QED
            BY <1>1, <2>1, <3>1 DEF CapacityOf
    <2>2. CASE ~(x.count + 1 <= CapacityOf(x))
        <3>1. y = [x EXCEPT !.storage = "flat", !.owner = p, !.inline = <<>>]
            BY <2>2 DEF ReservedBuffer
        <3>2. y.storage = "flat"
            BY <3>1 DEF BufferObject
        <3>3. QED
            BY <3>2
    <2>3. QED
        BY <2>1, <2>2
<1>5. z = [w EXCEPT !.count = x.count + 1]
    BY <1>3 DEF Appended
<1> HIDE DEF w
<1>6. /\ z \in BufferObject /\ Kept(z) /\ z.references = w.references
      /\ z.owner = w.owner /\ z.storage = w.storage /\ z.inline = w.inline /\ z.count = x.count + 1
    BY <1>1, <1>3, <1>4, <1>5, CountedBuffer
<1>7. QED
    BY <1>2, <1>3, <1>6 DEF w

-----------------------------------------------------------------------------
(* Handles.                                                                   *)

HandlesOf(hs, b) == {h \in Handles : hs[h] = b}

\* A Buffer counts its handles.
HandleCounts(bs, hs) ==
    /\ hs \in [Handles -> Buffers \cup {None}]
    /\ \A b \in Buffers : bs[b].references = Cardinality(HandlesOf(hs, b))

LEMMA HandlesFinite ==
    ASSUME NEW hs, NEW b
    PROVE  IsFiniteSet(HandlesOf(hs, b)) /\ Cardinality(HandlesOf(hs, b)) \in Nat
<1>1. HandlesOf(hs, b) \subseteq Handles
    BY DEF HandlesOf
<1>2. IsFiniteSet(HandlesOf(hs, b))
    BY <1>1, BuffersAssumption, FS_Subset
<1>3. QED
    BY <1>2, FS_CardinalityType

LEMMA HandleFacts ==
    ASSUME HandleCounts(buffer, handle), NEW h \in Handles, handle[h] # None
    PROVE  handle[h] \in Buffers /\ buffer[handle[h]].references >= 1
<1>1. handle[h] \in Buffers
    BY DEF HandleCounts
<1>2. h \in HandlesOf(handle, handle[h])
    BY DEF HandlesOf
<1>3. IsFiniteSet(HandlesOf(handle, handle[h])) /\ Cardinality(HandlesOf(handle, handle[h])) \in Nat
    BY HandlesFinite
<1>4. Cardinality(HandlesOf(handle, handle[h])) # 0
    BY <1>2, <1>3, FS_EmptySet
<1>5. buffer[handle[h]].references = Cardinality(HandlesOf(handle, handle[h]))
    BY <1>1 DEF HandleCounts
<1>6. QED
    BY <1>1, <1>3, <1>4, <1>5

\* The handle h takes to another Buffer, and each counts by one.
LEMMA HandleMoves ==
    ASSUME NEW bs, NEW cs, NEW hs, HandleCounts(bs, hs), NEW h \in Handles,
           NEW c \in Buffers \cup {None}, NEW ks \in [Handles -> Buffers \cup {None}],
           \A g \in Handles : ks[g] = IF g = h THEN c ELSE hs[g], hs[h] # c,
           \A b \in Buffers : cs[b].references
                = bs[b].references - (IF b = hs[h] THEN 1 ELSE 0) + (IF b = c THEN 1 ELSE 0)
    PROVE  HandleCounts(cs, ks)
<1>3. ASSUME NEW b \in Buffers
      PROVE  cs[b].references = Cardinality(HandlesOf(ks, b))
    <2>1. IsFiniteSet(HandlesOf(hs, b)) /\ Cardinality(HandlesOf(hs, b)) \in Nat
        BY HandlesFinite
    <2>2. bs[b].references = Cardinality(HandlesOf(hs, b))
        BY DEF HandleCounts
    <2>3. CASE b = c
        <3>1. HandlesOf(ks, b) = HandlesOf(hs, b) \cup {h} /\ h \notin HandlesOf(hs, b)
            BY <2>3 DEF HandlesOf
        <3>2. Cardinality(HandlesOf(hs, b) \cup {h}) = Cardinality(HandlesOf(hs, b)) + 1
            BY <2>1, <3>1, FS_AddElement
        <3>3. b # hs[h]
            BY <2>3
        <3>4. QED
            BY <2>1, <2>2, <2>3, <3>1, <3>2, <3>3
    <2>4. CASE b # c
        <3>1. HandlesOf(ks, b) = HandlesOf(hs, b) \ {h} /\ (h \in HandlesOf(hs, b) <=> b = hs[h])
            BY <2>4 DEF HandlesOf
        <3>2. Cardinality(HandlesOf(hs, b) \ {h})
                = IF h \in HandlesOf(hs, b) THEN Cardinality(HandlesOf(hs, b)) - 1
                  ELSE Cardinality(HandlesOf(hs, b))
            BY <2>1, FS_RemoveElement
        <3>3. QED
            BY <2>1, <2>2, <2>4, <3>1, <3>2
    <2>5. QED
        BY <2>3, <2>4
<1>4. QED
    BY <1>3 DEF HandleCounts

LEMMA HandlesStay ==
    ASSUME NEW bs, NEW cs, NEW hs, HandleCounts(bs, hs),
           \A b \in Buffers : cs[b].references = bs[b].references
    PROVE  HandleCounts(cs, hs)
BY DEF HandleCounts

-----------------------------------------------------------------------------
(* Every operation keeps the counts.                                          *)

CInv == BInv /\ HandleCounts(buffer, handle)

\* The Buffer in a handle.
LEMMA HandledBuffer ==
    ASSUME CInv, NEW h \in Handles, handle[h] # None
    PROVE  /\ handle[h] \in Buffers
           /\ buffer[handle[h]] \in BufferObject /\ Kept(buffer[handle[h]])
           /\ buffer[handle[h]].references \in Nat /\ buffer[handle[h]].references # 0
           /\ buffer[handle[h]].references >= 1
           /\ buffer[handle[h]].count \in Nat /\ buffer[handle[h]].count \in 0..MaxLength
           /\ buffer[handle[h]].owner \in Owners => heap[buffer[handle[h]].owner].references = 1
           /\ heap \in Heaps
<1>1. handle[h] \in Buffers /\ buffer[handle[h]].references >= 1
    BY HandleFacts DEF CInv
<1>2. /\ buffer[handle[h]] \in BufferObject /\ Kept(buffer[handle[h]]) /\ heap \in Heaps
      /\ buffer[handle[h]].owner \in Owners => heap[buffer[handle[h]].owner].references = 1
    BY <1>1, BInvFacts DEF CInv
<1>3. buffer[handle[h]].references \in Nat /\ buffer[handle[h]].count \in 0..MaxLength
    BY <1>2 DEF BufferObject
<1>4. QED
    BY <1>1, <1>2, <1>3, Sizes

\* The Buffer of b becomes x.
Puts(b, x) == buffer' = [buffer EXCEPT ![b] = x]

LEMMA PutFacts ==
    ASSUME BInv, NEW b \in Buffers, NEW x, Puts(b, x)
    PROVE  \A c \in Buffers : buffer'[c] = IF c = b THEN x ELSE buffer[c]
<1>1. buffer \in [Buffers -> BufferObject]
    BY BInvFacts
<1>2. QED
    BY <1>1 DEF Puts

\* A step on the Buffer of a handle that keeps its count.
LEMMA MutateStep ==
    ASSUME CInv, NEW b \in Buffers, NEW x \in BufferObject, Kept(x),
           x.references = buffer[b].references,
           x.owner \in {buffer[b].owner, None} \cup Fresh(heap),
           Puts(b, x), UNCHANGED <<live, view, lender, handle>>,
           heap' \in Heaps, Moved(heap, heap', buffer[b].owner, x.owner)
    PROVE  CInv'
<1>1. BInv'
    <2>1. buffer' = [buffer EXCEPT ![b] = x] /\ UNCHANGED <<live, view, lender>>
        BY DEF Puts
    <2>2. QED
        BY <2>1, ObjectStep DEF CInv
<1>2. \A c \in Buffers : buffer'[c].references = buffer[c].references
    BY PutFacts DEF CInv
<1>3. HandleCounts(buffer', handle)
    BY <1>2, HandlesStay DEF CInv
<1>4. HandleCounts(buffer', handle')
    BY <1>3
<1>5. QED
    BY <1>1, <1>4 DEF CInv

\* A handle that ends or begins.
LEMMA HandleStep ==
    ASSUME CInv, BInv', NEW h \in Handles, NEW c \in Buffers \cup {None},
           handle' \in [Handles -> Buffers \cup {None}],
           \A g \in Handles : handle'[g] = IF g = h THEN c ELSE handle[g], handle[h] # c,
           \A b \in Buffers : buffer'[b].references
                = buffer[b].references - (IF b = handle[h] THEN 1 ELSE 0) + (IF b = c THEN 1 ELSE 0)
    PROVE  CInv'
<1>1. HandleCounts(buffer', handle')
    BY HandleMoves DEF CInv
<1>2. QED
    BY <1>1 DEF CInv

LEMMA MakeCounts ==
    ASSUME CInv, NEW h \in Handles, NEW capacity \in 0..MaxLength, BufferMake(h, capacity)
    PROVE  CInv'
<1>1. BInv'
    BY BufferMakeStep DEF CInv
<1>2. PICK b \in FreshBuffers, p \in MakePlaces(capacity) :
         /\ buffer' = [buffer EXCEPT ![b] = Made(capacity, p)]
         /\ handle' = [handle EXCEPT ![h] = b]
    BY DEF BufferMake
<1>3. b \in Buffers /\ buffer[b].references = 0 /\ Made(capacity, p).references = 1
    BY MadeTypes, FreshBuffer, BlankBuffer DEF CInv
<1>4. buffer \in [Buffers -> BufferObject]
    BY BInvFacts DEF CInv
<1>5. handle[h] = None /\ b # None /\ None \notin Buffers
    BY <1>3, BuffersAssumption DEF BufferMake
<1>6. \A c \in Buffers : /\ c # b => buffer'[c] = buffer[c]
                         /\ buffer'[b] = Made(capacity, p)
    BY <1>2, <1>3, <1>4
<1>7. \A c \in Buffers : buffer[c].references \in Nat
    BY <1>4 DEF BufferObject
<1>8. \A c \in Buffers : buffer'[c].references
            = buffer[c].references - (IF c = handle[h] THEN 1 ELSE 0) + (IF c = b THEN 1 ELSE 0)
    BY <1>3, <1>5, <1>6, <1>7
<1>9. /\ handle' \in [Handles -> Buffers \cup {None}]
      /\ \A g \in Handles : handle'[g] = IF g = h THEN b ELSE handle[g]
    <2>1. handle \in [Handles -> Buffers \cup {None}]
        BY DEF CInv, HandleCounts
    <2>2. QED
        BY <1>2, <1>3, <2>1
<1>10. b \in Buffers \cup {None} /\ handle[h] # b
    BY <1>3, <1>5
<1>11. QED
    BY <1>1, <1>8, <1>9, <1>10, HandleStep

\* The handle h becomes one of c.
Hands(h, c) == handle' = [handle EXCEPT ![h] = c]

LEMMA HandlePut ==
    ASSUME CInv, NEW h \in Handles, NEW c \in Buffers \cup {None}, Hands(h, c)
    PROVE  /\ handle' \in [Handles -> Buffers \cup {None}]
           /\ \A g \in Handles : handle'[g] = IF g = h THEN c ELSE handle[g]
<1>1. handle \in [Handles -> Buffers \cup {None}]
    BY DEF CInv, HandleCounts
<1>2. QED
    BY <1>1 DEF Hands

LEMMA NewCounts ==
    ASSUME CInv, NEW h \in Handles, NEW v \in NewBytes, BufferNew(h, v)
    PROVE  CInv'
<1> DEFINE b == handle[h]
           x == buffer[b]
<1>1. handle[h] # None /\ x.count < MaxLength /\ UNCHANGED <<live, view, lender, handle>>
    BY DEF BufferNew
<1>2. PICK p \in ReservePlaces(x, x.count + 1) :
         LET y == ReservedBuffer(x, x.count + 1, p)
         IN  /\ heap' = StoredHeap(ReservedHeap(x, x.count + 1, p), y, x.count, v)
             /\ buffer' = [buffer EXCEPT ![b] = [StoredBuffer(y, x.count, v) EXCEPT !.count = @ + 1]]
    BY DEF BufferNew
<1> DEFINE y == ReservedBuffer(x, x.count + 1, p)
           k == ReservedHeap(x, x.count + 1, p)
           z == Appended(x, y, v)
<1>3. /\ b \in Buffers /\ x \in BufferObject /\ Kept(x) /\ x.references # 0 /\ x.count \in Nat
      /\ x.owner \in Owners => heap[x.owner].references = 1
      /\ heap \in Heaps
    BY <1>1, HandledBuffer
<1>4. heap' = StoredHeap(k, y, x.count, v) /\ Puts(b, z)
    BY <1>2 DEF Puts, Appended
<1> HIDE DEF b
<1>5. /\ Reserves(heap, x, k, y)
      /\ z \in BufferObject /\ Kept(z) /\ z.references = x.references /\ z.owner = y.owner
    <2> HIDE DEF x
    <2>1. v \in Cell
        BY NewByteCell
    <2>2. QED
        BY <1>1, <1>3, <2>1, AppendedTypes
<1> HIDE DEF x, y, k, z
<1>6. heap' \in Heaps /\ Moved(heap, heap', x.owner, z.owner)
    <2>1. k \in Heaps /\ (y.storage = "flat" => y.owner \in Owners) /\ v \in Cell
        BY <1>5, NewByteCell DEF Reserves, Kept
    <2>2. heap' \in Heaps /\ \A q \in Owners : heap'[q].references = k[q].references
        BY <1>3, <1>4, <2>1, StoredHeapFacts
    <2>3. Moved(heap, k, x.owner, z.owner)
        BY <1>5 DEF Reserves
    <2>4. QED
        BY <2>2, <2>3, MovedBy
<1>7. x = buffer[b] /\ z.owner \in {x.owner, None} \cup Fresh(heap)
    BY <1>5 DEF Reserves, x
<1>8. QED
    BY <1>1, <1>3, <1>4, <1>5, <1>6, <1>7, MutateStep

LEMMA ReplaceCounts ==
    ASSUME CInv, NEW h \in Handles, NEW v \in NewBytes, NEW i \in 0..MaxLength, BufferReplace(h, i, v)
    PROVE  CInv'
<1> DEFINE b == handle[h]
           x == buffer[b]
           z == StoredBuffer(x, i, v)
<1>1. handle[h] # None /\ UNCHANGED <<live, view, lender, handle>>
    BY DEF BufferReplace
<1>2. /\ b \in Buffers /\ x \in BufferObject /\ Kept(x) /\ x.references # 0 /\ heap \in Heaps
    BY <1>1, HandledBuffer
<1>3. heap' = StoredHeap(heap, x, i, v) /\ Puts(b, z)
    <2>1. buffer \in [Buffers -> BufferObject]
        BY BInvFacts DEF CInv
    <2>2. buffer' = [buffer EXCEPT ![b] = StoredBuffer(buffer[b], i, v)]
        BY <1>2, <2>1 DEF BufferReplace
    <2>3. QED
        BY <2>2 DEF Puts, BufferReplace
<1>4. v \in Cell /\ i \in Nat
    BY NewByteCell, Sizes
<1> HIDE DEF b
<1>5. /\ z \in BufferObject /\ Kept(z) /\ z.references = x.references /\ z.owner = x.owner
    <2> HIDE DEF x
    <2>1. QED
        BY <1>2, <1>4, StoredBufferFacts
<1>6. x = buffer[b]
    OBVIOUS
<1> HIDE DEF x, z
<1>7. heap' \in Heaps /\ Moved(heap, heap', x.owner, z.owner)
    <2>1. x.storage = "flat" => x.owner \in Owners
        BY <1>2 DEF Kept
    <2>2. heap' \in Heaps /\ \A q \in Owners : heap'[q].references = heap[q].references
        <3>1. PICK k : k = heap'
            OBVIOUS
        <3>2. k = StoredHeap(heap, x, i, v) /\ heap \in Heaps /\ v \in Cell /\ i \in Nat
            BY <1>2, <1>3, <1>4, <3>1
        <3>3. k \in Heaps /\ \A q \in Owners : k[q].references = heap[q].references
            BY <2>1, <3>2, StoredHeapFacts
        <3>4. QED
            BY <3>1, <3>3
    <2>3. Moved(heap, heap', x.owner, x.owner)
        BY <1>2, <2>2, SameMoved
    <2>4. QED
        BY <1>5, <2>2, <2>3
<1>8. QED
    BY <1>1, <1>2, <1>3, <1>5, <1>6, <1>7, MutateStep

LEMMA TruncateCounts ==
    ASSUME CInv, NEW h \in Handles, NEW n \in 0..MaxLength, BufferTruncate(h, n)
    PROVE  CInv'
<1> DEFINE b == handle[h]
           x == buffer[b]
           z == [x EXCEPT !.count = n]
<1>1. handle[h] # None /\ n < x.count /\ UNCHANGED <<live, view, lender, handle, heap>>
    BY DEF BufferTruncate, vars
<1>2. /\ b \in Buffers /\ x \in BufferObject /\ Kept(x) /\ x.references # 0 /\ heap \in Heaps
      /\ x.count \in Nat
    BY <1>1, HandledBuffer
<1>3. Puts(b, z)
    BY DEF BufferTruncate, Puts
<1>4. x = buffer[b]
    OBVIOUS
<1> HIDE DEF b, x
<1>5. /\ x.storage = "inline" => n <= InlineBytes
      /\ x.storage = "none" => n = 0
    <2>1. n \in Nat /\ InlineBytes \in Nat
        BY Sizes, BuffersAssumption
    <2>2. x.storage = "inline" => x.count <= InlineBytes
        BY <1>2 DEF Kept
    <2>3. x.storage = "none" => x.count = 0
        BY <1>2 DEF Kept
    <2>4. QED
        BY <1>1, <1>2, <2>1, <2>2, <2>3
<1>6. z \in BufferObject /\ Kept(z) /\ z.references = x.references /\ z.owner = x.owner
    BY <1>2, <1>5, CountedBuffer
<1> HIDE DEF z
<1>7. heap' \in Heaps /\ Moved(heap, heap', x.owner, z.owner)
    BY <1>1, <1>2, <1>6, SameMoved
<1>8. QED
    BY <1>1, <1>2, <1>3, <1>4, <1>6, <1>7, MutateStep

LEMMA ReserveCounts ==
    ASSUME CInv, NEW h \in Handles, NEW n \in 0..MaxLength, BufferReserve(h, n)
    PROVE  CInv'
<1> DEFINE b == handle[h]
           x == buffer[b]
<1>1. handle[h] # None /\ UNCHANGED <<live, view, lender, handle>>
    BY DEF BufferReserve
<1>2. /\ b \in Buffers /\ x \in BufferObject /\ Kept(x) /\ x.references # 0 /\ heap \in Heaps
      /\ x.owner \in Owners => heap[x.owner].references = 1
    BY <1>1, HandledBuffer
<1>3. PICK p \in ReservePlaces(x, n) :
         /\ heap' = ReservedHeap(x, n, p)
         /\ buffer' = [buffer EXCEPT ![b] = ReservedBuffer(@, n, p)]
    BY DEF BufferReserve
<1> DEFINE y == ReservedBuffer(x, n, p)
<1>4. Puts(b, y)
    <2>1. buffer \in [Buffers -> BufferObject]
        BY BInvFacts DEF CInv
    <2>2. QED
        BY <1>2, <1>3, <2>1 DEF Puts
<1>5. x = buffer[b]
    OBVIOUS
<1> HIDE DEF b, x
<1>6. Reserves(heap, x, heap', y)
    <2>1. n \in 0..SizeMax
        BY Sizes
    <2>2. QED
        BY <1>2, <1>3, <2>1, ReserveTypes
<1> HIDE DEF y
<1>7. QED
    BY <1>1, <1>2, <1>4, <1>5, <1>6, MutateStep DEF Reserves

\* A Buffer with another count of handles.
LEMMA RecountedBuffer ==
    ASSUME NEW x \in BufferObject, Kept(x), x.references # 0, NEW n \in Nat, n # 0,
           NEW y, y = [x EXCEPT !.references = n]
    PROVE  /\ y \in BufferObject /\ Kept(y) /\ y.references = n
           /\ y.owner = x.owner /\ y.storage = x.storage /\ y.inline = x.inline /\ y.count = x.count
<1>1. /\ y \in BufferObject /\ y.references = n /\ y.owner = x.owner
      /\ y.storage = x.storage /\ y.inline = x.inline /\ y.count = x.count
    BY DEF BufferObject
<1>2. Kept(y)
    BY <1>1 DEF Kept
<1>3. QED
    BY <1>1, <1>2

LEMMA RetainCounts ==
    ASSUME CInv, NEW h \in Handles, NEW g \in Handles, BufferRetain(h, g)
    PROVE  CInv'
<1> DEFINE b == handle[h]
           x == buffer[b]
           y == [x EXCEPT !.references = x.references + 1]
<1>1. handle[h] # None /\ handle[g] = None /\ UNCHANGED <<heap, live, view, lender>>
    BY DEF BufferRetain, vars
<1>2. /\ b \in Buffers /\ x \in BufferObject /\ Kept(x) /\ x.references # 0 /\ x.references \in Nat
      /\ heap \in Heaps
    BY <1>1, HandledBuffer
<1>3. buffer' = [buffer EXCEPT ![b] = y] /\ handle' = [handle EXCEPT ![g] = b] /\ b = handle[h] /\ x = buffer[b]
    <2>1. buffer \in [Buffers -> BufferObject]
        BY BInvFacts DEF CInv
    <2>2. QED
        BY <1>2, <2>1 DEF BufferRetain
<1> HIDE DEF b, x
<1>4. y \in BufferObject /\ Kept(y) /\ y.references = x.references + 1 /\ y.owner = x.owner
    <2>1. x.references + 1 \in Nat /\ x.references + 1 # 0
        BY <1>2
    <2>2. QED
        BY <1>2, <2>1, RecountedBuffer
<1> HIDE DEF y
<1>5. BInv'
    <2>1. Moved(heap, heap', x.owner, x.owner) /\ heap' \in Heaps
        BY <1>1, <1>2, SameMoved
    <2>2. QED
        BY <1>1, <1>2, <1>3, <1>4, <2>1, ObjectStep DEF CInv
<1>6. \A c \in Buffers : buffer'[c] = IF c = b THEN y ELSE buffer[c]
    <2>1. Puts(b, y)
        BY <1>3 DEF Puts
    <2>2. QED
        BY <1>2, <2>1, PutFacts DEF CInv
<1>7. \A c \in Buffers : buffer[c].references \in Nat
    BY BInvFacts, ObjectFacts DEF CInv
<1>8. None \notin Buffers
    BY BuffersAssumption
<1>9. \A c \in Buffers : buffer'[c].references
            = buffer[c].references - (IF c = handle[g] THEN 1 ELSE 0) + (IF c = b THEN 1 ELSE 0)
    BY <1>1, <1>3, <1>4, <1>6, <1>7, <1>8
<1>10. /\ handle' \in [Handles -> Buffers \cup {None}]
       /\ \A k \in Handles : handle'[k] = IF k = g THEN b ELSE handle[k]
    <2>1. Hands(g, b)
        BY <1>3 DEF Hands
    <2>2. QED
        BY <1>2, <2>1, HandlePut
<1>11. b \in Buffers \cup {None} /\ handle[g] # b
    BY <1>1, <1>2, <1>8
<1>12. QED
    BY <1>5, <1>9, <1>10, <1>11, HandleStep

\* What is left of a Buffer that loses a handle.
Left(x) == IF x.references = 1 THEN NoBuffer ELSE [x EXCEPT !.references = x.references - 1]

LEMMA LeftTypes ==
    ASSUME NEW x \in BufferObject, Kept(x), x.references # 0
    PROVE  /\ Left(x) \in BufferObject /\ Kept(Left(x)) /\ Left(x).references = x.references - 1
           /\ Left(x).owner = IF x.references = 1 THEN None ELSE x.owner
<1>1. x.references \in Nat
    BY DEF BufferObject
<1>2. CASE x.references = 1
    BY <1>2, BlankBuffer DEF Left
<1>3. CASE x.references # 1
    <2> DEFINE n == x.references - 1
    <2>1. n \in Nat /\ n # 0
        BY <1>1, <1>3
    <2>2. Left(x) = [x EXCEPT !.references = n]
        BY <1>3 DEF Left
    <2> HIDE DEF n
    <2>3. Left(x) \in BufferObject /\ Kept(Left(x)) /\ Left(x).references = n /\ Left(x).owner = x.owner
        BY <2>1, <2>2, RecountedBuffer
    <2>4. QED
        BY <1>3, <2>3 DEF n
<1>4. QED
    BY <1>2, <1>3

LEMMA ReleasedPuts ==
    ASSUME CInv, NEW b \in Buffers, NEW bs \in [Buffers -> BufferObject], buffer' = ReleasedBuffers(bs, b)
    PROVE  buffer' = [bs EXCEPT ![b] = Left(bs[b])]
BY DEF ReleasedBuffers, Left

\* The heap after the last handle's release lacks the owner the Buffer held.
LEMMA HeapWithoutMoves ==
    ASSUME NEW h \in Heaps, NEW bs, NEW b \in Buffers,
           bs[b].owner \in Owners => h[bs[b].owner].references >= 1, bs[b].owner \in Owners \cup {None},
           NEW k, k = HeapWithout(h, bs, b)
    PROVE  /\ k \in Heaps
           /\ Moved(h, k, bs[b].owner, IF bs[b].references = 1 THEN None ELSE bs[b].owner)
<1>1. \A q \in Owners : h[q].references \in Nat
    BY HeaderFacts
<1>2. CASE bs[b].references = 1
    <2>1. k = Release(h, bs[b].owner)
        BY <1>2 DEF HeapWithout
    <2>2. /\ k \in Heaps
          /\ \A q \in Owners : k[q].references = h[q].references - (IF q = bs[b].owner THEN 1 ELSE 0)
        BY <2>1, ReleaseHeap
    <2>3. Moved(h, k, bs[b].owner, None)
        BY <1>1, <2>2, NoneIsNoOwner DEF Moved
    <2>4. QED
        BY <1>2, <2>2, <2>3
<1>3. CASE bs[b].references # 1
    <2>1. k = h
        BY <1>3 DEF HeapWithout
    <2>2. Moved(h, k, bs[b].owner, bs[b].owner)
        BY <2>1, SameMoved
    <2>3. QED
        BY <1>3, <2>1, <2>2
<1>4. QED
    BY <1>2, <1>3

LEMMA ReleaseCounts ==
    ASSUME CInv, NEW h \in Handles, BufferRelease(h)
    PROVE  CInv'
<1> DEFINE b == handle[h]
           x == buffer[b]
           y == Left(x)
<1>1. /\ handle[h] # None /\ UNCHANGED <<live, view, lender>>
      /\ heap' = HeapWithout(heap, buffer, b) /\ buffer' = ReleasedBuffers(buffer, b)
      /\ handle' = [handle EXCEPT ![h] = None]
    BY DEF BufferRelease
<1>2. /\ b \in Buffers /\ x \in BufferObject /\ Kept(x) /\ x.references # 0 /\ x.references \in Nat
      /\ heap \in Heaps /\ (x.owner \in Owners => heap[x.owner].references = 1)
      /\ b = handle[h] /\ x = buffer[b] /\ buffer \in [Buffers -> BufferObject]
    BY <1>1, HandledBuffer, BInvFacts DEF CInv
<1> HIDE DEF b, x
<1>3. buffer' = [buffer EXCEPT ![b] = y]
    BY <1>1, <1>2, ReleasedPuts
<1>4. y \in BufferObject /\ Kept(y) /\ y.references = x.references - 1
      /\ y.owner = IF x.references = 1 THEN None ELSE x.owner
    BY <1>2, LeftTypes
<1> HIDE DEF y
<1>5. heap' \in Heaps /\ Moved(heap, heap', x.owner, y.owner)
    <2>1. x.owner \in Owners \cup {None} /\ (x.owner \in Owners => heap[x.owner].references >= 1)
        BY <1>2 DEF BufferObject
    <2>2. PICK k : k = heap'
        OBVIOUS
    <2>3. k \in Heaps /\ Moved(heap, k, x.owner, IF x.references = 1 THEN None ELSE x.owner)
        BY <1>1, <1>2, <2>1, <2>2, HeapWithoutMoves
    <2>4. QED
        BY <1>4, <2>2, <2>3
<1>6. BInv'
    BY <1>1, <1>2, <1>3, <1>4, <1>5, ObjectStep DEF CInv
<1>7. \A c \in Buffers : buffer'[c] = IF c = b THEN y ELSE buffer[c]
    <2>1. Puts(b, y)
        BY <1>3 DEF Puts
    <2>2. QED
        BY <1>2, <2>1, PutFacts DEF CInv
<1>8. \A c \in Buffers : buffer[c].references \in Nat
    BY BInvFacts, ObjectFacts DEF CInv
<1>9. None \notin Buffers
    BY BuffersAssumption
<1>10. \A c \in Buffers : buffer'[c].references
            = buffer[c].references - (IF c = handle[h] THEN 1 ELSE 0) + (IF c = None THEN 1 ELSE 0)
    BY <1>2, <1>4, <1>7, <1>8, <1>9
<1>11. /\ handle' \in [Handles -> Buffers \cup {None}]
       /\ \A k \in Handles : handle'[k] = IF k = h THEN None ELSE handle[k]
    <2>1. Hands(h, None)
        BY <1>1 DEF Hands
    <2>2. QED
        BY <2>1, HandlePut
<1>12. QED
    BY <1>1, <1>6, <1>10, <1>11, HandleStep

-----------------------------------------------------------------------------
(* The conversions.                                                           *)

LEMMA ToSymbolCounts ==
    ASSUME CInv, NEW h \in Handles, NEW d \in Bindings, BufferToSymbol(h, d)
    PROVE  CInv'
<1>1. /\ handle[h] # None /\ d \notin live /\ BindCopy(d, BytesOf(heap, buffer[handle[h]]))
      /\ UNCHANGED <<lender, buffer, handle>>
    BY DEF BufferToSymbol
<1> DEFINE content == BytesOf(heap, buffer[handle[h]])
<1>2. content \in Seq(Cell) /\ Len(content) <= MaxLength
    <2>1. /\ buffer[handle[h]] \in BufferObject /\ Kept(buffer[handle[h]]) /\ heap \in Heaps
          /\ buffer[handle[h]].count <= MaxLength
        BY <1>1, HandledBuffer, Sizes
    <2>2. QED
        BY <2>1, BytesType
<1> HIDE DEF content
<1>3. PICK extra \in [Owners -> Nat] : extra = HeldBy(buffer) /\ Held(extra) /\ Objects(buffer)
    BY DEF CInv, BInv
<1>4. BindCopy(d, content) /\ d \notin live /\ UNCHANGED lender
    BY <1>1 DEF content
<1>5. IInv(extra)'
    BY <1>2, <1>3, <1>4, BindCopyStep DEF Held
<1>6. Held(extra)'
    BY <1>3, <1>4, <1>5, BindCopyHeld
<1>7. BInv'
    BY <1>1, <1>3, <1>6 DEF BInv
<1>8. QED
    BY <1>1, <1>7 DEF CInv

\* What a Buffer gives up is bound to d, or d gets a free owner of its own.
LEMMA BindObjectStep ==
    ASSUME BInv, NEW b \in Buffers, NEW x \in BufferObject, Kept(x),
           x.owner \in {buffer[b].owner, None},
           buffer' = [buffer EXCEPT ![b] = x],
           NEW d \in Bindings, d \notin live, NEW v \in View, InStatic(v.owner, v.data, v.length),
           Bind(d, v, {}), UNCHANGED lender, heap' \in Heaps,
           \A q \in Owners : heap'[q].references
                = heap[q].references - (IF q = buffer[b].owner THEN 1 ELSE 0)
                  + (IF q = x.owner THEN 1 ELSE 0) + (IF q = v.owner THEN 1 ELSE 0),
           v.owner \in Owners =>
                (v.owner = buffer[b].owner /\ x.owner = None) \/ v.owner \in Fresh(heap)
    PROVE  BInv'
<1>1. PICK extra \in [Owners -> Nat] : extra = HeldBy(buffer) /\ Held(extra) /\ Objects(buffer)
    BY DEF BInv
<1>2. \A c \in Buffers : c # b /\ x.owner \in Owners => buffer[c].owner # x.owner
    BY <1>1, NoneIsNoOwner DEF Objects, Apart
<1>3. /\ Objects(buffer')
      /\ \A o \in Owners : HeldBy(buffer')[o]
            = HeldBy(buffer)[o] - (IF o = buffer[b].owner THEN 1 ELSE 0)
              + (IF o = x.owner THEN 1 ELSE 0)
    <2>1. PICK bs : bs = buffer
        OBVIOUS
    <2>2. PICK k : k = buffer'
        OBVIOUS
    <2>3. /\ Objects(bs)
          /\ k \in [Buffers -> BufferObject] /\ k[b] = x
          /\ \A c \in Buffers : c # b => k[c] = bs[c]
        <3>1. buffer \in [Buffers -> BufferObject]
            BY <1>1 DEF Objects
        <3>2. QED
            BY <1>1, <2>1, <2>2, <3>1
    <2>4. \A c \in Buffers : c # b /\ x.owner \in Owners => bs[c].owner # x.owner
        BY <1>2, <2>1
    <2>5. /\ Objects(k)
          /\ \A o \in Owners : HeldBy(k)[o]
                = HeldBy(bs)[o] - (IF o = bs[b].owner THEN 1 ELSE 0)
                  + (IF o = x.owner THEN 1 ELSE 0)
        BY <2>3, <2>4, HeldByChange
    <2>6. QED
        BY <2>1, <2>2, <2>5
<1>4. PICK among \in [Owners -> Nat] : among = HeldBy(buffer')
    BY HeldByType
<1>5. \A o \in Owners : among[o] = extra[o] - (IF o = buffer[b].owner THEN 1 ELSE 0)
                                   + (IF o = x.owner THEN 1 ELSE 0)
    BY <1>1, <1>3, <1>4
<1>6. \A q \in Owners : heap[q].references \in Nat /\ extra[q] \in Nat /\ q # None
    BY <1>1, TypeFacts, NoneIsNoOwner DEF Held, IInv
<1>7. IInv(among)'
    <2>1. ASSUME NEW q \in Owners
          PROVE  heap'[q].references + extra[q]
                    = heap[q].references - (IF q = None THEN 1 ELSE 0)
                      + (IF q = v.owner THEN 1 ELSE 0) + among[q]
        BY <1>5, <1>6
    <2>2. Taken(None, {}, None)
        BY DEF Taken
    <2>3. IInv(extra)
        BY <1>1 DEF Held
    <2>4. QED
        BY <2>1, <2>2, <2>3, UnchangedLender, RebindAmong
<1>8. Ends({}, None)
    BY NothingEnds
<1>9. Lent'
    BY <1>1, <1>8, BindLends DEF Held
<1>10. /\ live' = live \cup {d} /\ view'[d] = v /\ \A c \in live : view'[c] = view[c]
    <2>1. /\ live' = (live \ {}) \cup {d} /\ view'[d] = v /\ \A c \in live \ {} : view'[c] = view[c]
        BY <1>1, <1>8, BindFacts DEF Held
    <2>2. QED
        BY <2>1
<1>11. ASSUME NEW c \in live, view[c].owner \in Owners
       PROVE  among[view[c].owner] = 0
    <2> DEFINE q == view[c].owner
    <2>1. extra[q] = 0
        BY <1>1, <1>11 DEF Held, Unviewed, Spare
    <2>2. q # buffer[b].owner
        BY <1>1, <1>11, HeldOnce
    <2>3. q # x.owner
        BY <1>6, <1>11, <2>2
    <2>4. among[q] = extra[q] - (IF q = buffer[b].owner THEN 1 ELSE 0) + (IF q = x.owner THEN 1 ELSE 0)
        BY <1>5, <1>11
    <2> HIDE DEF q
    <2>5. among[q] = 0
        BY <2>1, <2>2, <2>3, <2>4
    <2>6. QED
        BY <2>5 DEF q
<1>12. ASSUME v.owner \in Owners
       PROVE  among[v.owner] = 0
    <2>1. CASE v.owner = buffer[b].owner /\ x.owner = None
        <3>1. extra[v.owner] = 1
            BY <1>1, <1>12, <2>1, HeldOnce
        <3>2. QED
            BY <1>5, <1>6, <1>12, <2>1, <3>1
    <2>2. CASE v.owner \in Fresh(heap)
        <3>1. extra[v.owner] = 0
            BY <1>1, <2>2, FreshSpare DEF Held
        <3>2. v.owner # buffer[b].owner
            BY <1>1, <2>2, FreshApart
        <3>3. v.owner # x.owner
            BY <1>6, <1>12, <3>2
        <3>4. QED
            BY <1>5, <1>12, <3>1, <3>2, <3>3
    <2>3. QED
        BY <1>12, <2>1, <2>2
<1>13. \A c \in live' : view'[c].owner \in Owners => among[view'[c].owner] = 0
    BY <1>10, <1>11, <1>12
<1>14. Unviewed(among)'
    BY <1>13 DEF Unviewed, Spare
<1>15. Held(among)'
    BY <1>7, <1>9, <1>14 DEF Held
<1>16. QED
    BY <1>3, <1>4, <1>15 DEF BInv

\* A dying binding gives its value up to the blank Buffer b, which takes over its owner or has
\* a free one or none.
LEMMA EndObjectStep ==
    ASSUME BInv, NEW b \in Buffers, buffer[b].owner = None, NEW x \in BufferObject, Kept(x),
           buffer' = [buffer EXCEPT ![b] = x],
           NEW s \in Bindings, Owned(s), Borrowers(s) = {},
           live' = live \ {s}, view' = [view EXCEPT ![s] = NoView], UNCHANGED lender,
           heap' \in Heaps, Moved(heap, heap', view[s].owner, x.owner),
           \/ x.owner = None \/ x.owner \in Fresh(heap)
           \/ x.owner = view[s].owner /\ \A c \in live : view[c].owner = x.owner => c = s
    PROVE  BInv'
<1>1. PICK extra \in [Owners -> Nat] : extra = HeldBy(buffer) /\ Held(extra) /\ Objects(buffer)
    BY DEF BInv
<1>2. \A c \in Buffers : c # b /\ x.owner \in Owners => buffer[c].owner # x.owner
    <2>1. s \in live
        BY DEF Owned
    <2>2. \A p \in Fresh(heap) : \A c \in Buffers : buffer[c].owner # p
        BY <1>1, FreshApart
    <2>3. x.owner = view[s].owner /\ x.owner \in Owners => \A c \in Buffers : buffer[c].owner # x.owner
        BY <1>1, <2>1, HeldOnce
    <2>4. QED
        BY <2>2, <2>3, NoneIsNoOwner
<1>3. /\ Objects(buffer')
      /\ \A o \in Owners : HeldBy(buffer')[o]
            = HeldBy(buffer)[o] - (IF o = buffer[b].owner THEN 1 ELSE 0)
              + (IF o = x.owner THEN 1 ELSE 0)
    <2>1. PICK bs : bs = buffer
        OBVIOUS
    <2>2. PICK k : k = buffer'
        OBVIOUS
    <2>3. /\ Objects(bs)
          /\ k \in [Buffers -> BufferObject] /\ k[b] = x
          /\ \A c \in Buffers : c # b => k[c] = bs[c]
        <3>1. buffer \in [Buffers -> BufferObject]
            BY <1>1 DEF Objects
        <3>2. QED
            BY <1>1, <2>1, <2>2, <3>1
    <2>4. \A c \in Buffers : c # b /\ x.owner \in Owners => bs[c].owner # x.owner
        BY <1>2, <2>1
    <2>5. /\ Objects(k)
          /\ \A o \in Owners : HeldBy(k)[o]
                = HeldBy(bs)[o] - (IF o = bs[b].owner THEN 1 ELSE 0)
                  + (IF o = x.owner THEN 1 ELSE 0)
        BY <2>3, <2>4, HeldByChange
    <2>6. QED
        BY <2>1, <2>2, <2>5
<1>4. PICK among \in [Owners -> Nat] : among = HeldBy(buffer')
    BY HeldByType
<1>5. \A o \in Owners : among[o] = extra[o] + (IF o = x.owner THEN 1 ELSE 0)
    <2> TAKE o \in Owners
    <2>1. o # buffer[b].owner /\ extra[o] \in Nat
        BY NoneIsNoOwner
    <2>2. HeldBy(buffer)[o] = extra[o] /\ HeldBy(buffer')[o] = among[o]
        BY <1>1, <1>4
    <2>3. HeldBy(buffer')[o] = HeldBy(buffer)[o] - (IF o = buffer[b].owner THEN 1 ELSE 0)
                               + (IF o = x.owner THEN 1 ELSE 0)
        BY <1>3
    <2>4. QED
        BY <2>1, <2>2, <2>3
<1>6. /\ heap \in Heaps /\ live \subseteq Bindings /\ view \in [Bindings -> View]
      /\ lender \in [Bindings -> Bindings \cup {None}]
      /\ \A q \in Owners : heap[q].references \in Nat /\ extra[q] \in Nat /\ q # None
      /\ s \in live /\ lender[s] = None
    BY <1>1, TypeFacts, NoneIsNoOwner DEF Held, IInv, Owned
<1>7. \A c \in live' : c \in live /\ c # s /\ view'[c] = view[c] /\ lender'[c] = lender[c]
    BY <1>6
<1>8. TypeOK'
    <2>1. view' \in [Bindings -> View] /\ live' \subseteq Bindings
        BY <1>6, NoViewFacts
    <2>2. QED
        BY <1>6, <2>1 DEF TypeOK, View, Heaps, FlatHeader
<1>9. Counted(among)'
    <2> SUFFICES ASSUME NEW o \in Owners
                 PROVE  heap'[o].references = Cardinality(Holders(o)') + among[o]
        BY DEF Counted
    <2>1. Holders(o)' = Holders(o) \ {s}
        BY <1>6, <1>7 DEF Holders
    <2>2. s \in Holders(o) <=> view[s].owner = o
        BY <1>6 DEF Holders
    <2>3. IsFiniteSet(Holders(o)) /\ Cardinality(Holders(o)) \in Nat
        BY <1>1, HoldersFinite DEF Held, IInv
    <2>4. Cardinality(Holders(o) \ {s})
            = IF s \in Holders(o) THEN Cardinality(Holders(o)) - 1 ELSE Cardinality(Holders(o))
        BY <2>3, FS_RemoveElement
    <2>5. heap[o].references = Cardinality(Holders(o)) + extra[o]
        BY <1>1 DEF Held, IInv, Counted
    <2>6. heap'[o].references = heap[o].references - (IF o = view[s].owner THEN 1 ELSE 0)
                                + (IF o = x.owner THEN 1 ELSE 0)
        BY DEF Moved
    <2>7. among[o] = extra[o] + (IF o = x.owner THEN 1 ELSE 0) /\ extra[o] \in Nat
        BY <1>5, <1>6
    <2>8. QED
        BY <2>1, <2>2, <2>3, <2>4, <2>5, <2>6, <2>7
<1>10. VacantBorrowNothing'
    <2>1. VacantBorrowNothing
        BY <1>1 DEF Held, IInv
    <2>2. QED
        BY <1>6, <2>1 DEF VacantBorrowNothing
<1>11. StaticWindows'
    <2>1. StaticWindows
        BY <1>1 DEF Held, IInv
    <2>2. QED
        BY <1>7, <2>1 DEF StaticWindows, InStatic
<1>12. Lent'
    <2> SUFFICES ASSUME NEW c \in live', lender'[c] # None
                 PROVE  Owned(lender[c])' /\ view'[c] = view'[lender'[c]]
        BY DEF Lent
    <2>1. c \in live /\ lender'[c] = lender[c] /\ view'[c] = view[c]
        BY <1>7
    <2>2. Owned(lender[c]) /\ view[c] = view[lender[c]]
        BY <1>1, <2>1 DEF Held, Lent
    <2>3. lender[c] # s
        BY <2>1 DEF Borrowers
    <2>4. lender[c] \in live' /\ lender[lender[c]] = None
        BY <2>2, <2>3 DEF Owned
    <2>5. QED
        BY <1>7, <2>1, <2>2, <2>4 DEF Owned
<1>13. ASSUME NEW c \in live', view'[c].owner \in Owners
       PROVE  among[view'[c].owner] = 0
    <2> DEFINE q == view[c].owner
    <2>1. c \in live /\ c # s /\ view'[c] = view[c] /\ q \in Owners
        BY <1>7, <1>13
    <2>2. extra[q] = 0
        BY <1>1, <2>1 DEF Held, Unviewed, Spare
    <2>3. heap[q].references >= 1
        BY <1>1, <2>1, HeldAliveAlways DEF HeldAlive, ViewsAlive
    <2>4. q \notin Fresh(heap)
        BY <2>3 DEF Fresh
    <2>5. q # x.owner
        BY <1>6, <2>1, <2>4
    <2> HIDE DEF q
    <2>6. among[q] = 0
        BY <1>5, <2>1, <2>2, <2>5
    <2>7. QED
        BY <2>1, <2>6 DEF q
<1>14. Unviewed(among)'
    BY <1>13 DEF Unviewed, Spare
<1>15. Held(among)'
    BY <1>8, <1>9, <1>10, <1>11, <1>12, <1>14 DEF Held, IInv
<1>16. QED
    BY <1>3, <1>4, <1>15 DEF BInv
\* A handle ends: its Buffer becomes x, and d the value v.
LEMMA IntoSymbolStep ==
    ASSUME CInv, NEW h \in Handles, handle[h] # None, NEW b, b = handle[h],
           NEW x \in BufferObject, Kept(x), x.references = buffer[b].references - 1,
           x.owner \in {buffer[b].owner, None}, Puts(b, x), Hands(h, None),
           NEW d \in Bindings, d \notin live, NEW v \in View, InStatic(v.owner, v.data, v.length),
           Bind(d, v, {}), UNCHANGED lender, heap' \in Heaps,
           \A q \in Owners : heap'[q].references
                = heap[q].references - (IF q = buffer[b].owner THEN 1 ELSE 0)
                  + (IF q = x.owner THEN 1 ELSE 0) + (IF q = v.owner THEN 1 ELSE 0),
           v.owner \in Owners =>
                (v.owner = buffer[b].owner /\ x.owner = None) \/ v.owner \in Fresh(heap)
    PROVE  CInv'
<1>1. b \in Buffers /\ BInv /\ buffer[b].references \in Nat
    BY HandledBuffer DEF CInv
<1>2. BInv'
    <2>1. buffer' = [buffer EXCEPT ![b] = x]
        BY DEF Puts
    <2>2. QED
        BY <1>1, <2>1, BindObjectStep
<1>3. \A c \in Buffers : buffer'[c] = IF c = b THEN x ELSE buffer[c]
    BY <1>1, PutFacts
<1>4. \A c \in Buffers : buffer[c].references \in Nat
    BY BInvFacts, ObjectFacts DEF CInv
<1>5. None \notin Buffers
    BY BuffersAssumption
<1>6. \A c \in Buffers : buffer'[c].references
            = buffer[c].references - (IF c = handle[h] THEN 1 ELSE 0) + (IF c = None THEN 1 ELSE 0)
    BY <1>1, <1>3, <1>4, <1>5
<1>7. /\ handle' \in [Handles -> Buffers \cup {None}]
      /\ \A g \in Handles : handle'[g] = IF g = h THEN None ELSE handle[g]
    BY HandlePut
<1>8. QED
    BY <1>2, <1>6, <1>7, HandleStep

\* The moved owner keeps its bytes, and its window is the Buffer's.
MovedOut(f, o, n) == [f EXCEPT ![o].start = 0, ![o].length = n]

LEMMA MovedOutHeap ==
    ASSUME NEW f \in Heaps, NEW o \in Owners, NEW n \in Nat,
           NEW k, k = MovedOut(f, o, n)
    PROVE  /\ k \in Heaps
           /\ k[o].start = 0 /\ k[o].length = n /\ k[o].bytes = f[o].bytes
           /\ k[o].capacity = f[o].capacity
           /\ \A q \in Owners : k[q].references = f[q].references /\ (q # o => k[q] = f[q])
<1> DEFINE y == [f[o] EXCEPT !.start = 0, !.length = n]
<1>1. f \in [Owners -> FlatHeader] /\ Len(f[o].bytes) = f[o].capacity /\ f[o] \in FlatHeader
    BY DEF Heaps
<1>2. k = [f EXCEPT ![o] = y]
    BY <1>1 DEF FlatHeader, MovedOut
<1>3. /\ y \in FlatHeader /\ y.references = f[o].references /\ y.bytes = f[o].bytes
      /\ y.capacity = f[o].capacity /\ y.start = 0 /\ y.length = n
    BY <1>1 DEF FlatHeader
<1> HIDE DEF y
<1>4. k \in Heaps /\ k[o] = y /\ \A q \in Owners : q # o => k[q] = f[q]
    <2>1. [f EXCEPT ![o] = y] \in Heaps
        BY <1>1, <1>3, HeapUpdate
    <2>2. QED
        BY <1>1, <1>2, <2>1
<1>5. QED
    BY <1>3, <1>4

LEMMA IntoSymbolMoved ==
    ASSUME CInv, NEW h \in Handles, NEW d \in Bindings, BufferIntoSymbol(h, d),
           Movable(handle[h])
    PROVE  CInv'
<1> DEFINE b == handle[h]
           o == buffer[b].owner
           n == buffer[b].count
           v == [owner |-> o, data |-> 0, length |-> n]
           emptied == [buffer EXCEPT ![b].owner = None, ![b].storage = "none", ![b].count = 0]
<1>1. /\ handle[h] # None /\ d \notin live /\ UNCHANGED lender /\ Hands(h, None)
      /\ heap' = MovedOut(heap, o, n) /\ Bind(d, v, {})
    BY DEF BufferIntoSymbol, Hands, MovedOut
<1>2. /\ b \in Buffers /\ buffer[b] \in BufferObject /\ Kept(buffer[b]) /\ heap \in Heaps
      /\ n \in Nat /\ n \in 0..MaxLength /\ buffer \in [Buffers -> BufferObject]
    BY <1>1, HandledBuffer, BInvFacts DEF CInv
<1>3. /\ buffer[b].references = 1 /\ o \in Owners /\ o \notin Statics /\ o # None
      /\ NoBuffer \in BufferObject /\ Kept(NoBuffer) /\ NoBuffer.references = 0
      /\ NoBuffer.owner = None
    BY <1>2, BlankBuffer, OwnersAssumption DEF Movable, Kept
<1>4. Puts(b, NoBuffer)
    <2>1. emptied[b].references = 1
        BY <1>2, <1>3 DEF BufferObject
    <2>2. buffer' = [emptied EXCEPT ![b] = NoBuffer]
        BY <2>1 DEF BufferIntoSymbol, ReleasedBuffers
    <2>3. [emptied EXCEPT ![b] = NoBuffer] = [buffer EXCEPT ![b] = NoBuffer]
        BY <1>2
    <2>4. QED
        BY <2>2, <2>3 DEF Puts
<1>5. v \in View /\ InStatic(v.owner, v.data, v.length) /\ v.owner = o
    BY <1>2, <1>3, Sizes DEF View, InStatic
<1> HIDE DEF v, emptied
<1>6. heap' \in Heaps /\ \A q \in Owners : heap'[q].references = heap[q].references
    <2>1. PICK k : k = heap'
        OBVIOUS
    <2>2. k = MovedOut(heap, o, n)
        BY <1>1, <2>1
    <2>3. heap \in Heaps /\ o \in Owners /\ n \in Nat
        BY <1>2, <1>3
    <2> HIDE DEF b, o, n
    <2>4. k \in Heaps /\ \A q \in Owners : k[q].references = heap[q].references
        BY <2>2, <2>3, MovedOutHeap
    <2>5. QED
        BY <2>1, <2>4
<1>7. \A q \in Owners : heap'[q].references
          = heap[q].references - (IF q = buffer[b].owner THEN 1 ELSE 0)
            + (IF q = NoBuffer.owner THEN 1 ELSE 0) + (IF q = v.owner THEN 1 ELSE 0)
    <2>1. \A q \in Owners : heap[q].references \in Nat /\ q # None
        BY BInvFacts, NoneIsNoOwner DEF CInv
    <2>2. QED
        BY <1>3, <1>5, <1>6, <2>1
<1> DEFINE x == NoBuffer
<1>8. b = handle[h] /\ o = buffer[b].owner
    OBVIOUS
<1>9. /\ x \in BufferObject /\ Kept(x) /\ x.references = buffer[b].references - 1
      /\ x.owner \in {buffer[b].owner, None} /\ Puts(b, x) /\ x.owner = None
    BY <1>3, <1>4
<1>10. \A q \in Owners : heap'[q].references
          = heap[q].references - (IF q = buffer[b].owner THEN 1 ELSE 0)
            + (IF q = x.owner THEN 1 ELSE 0) + (IF q = v.owner THEN 1 ELSE 0)
    BY <1>7
<1> HIDE DEF b, o, n, x
<1>11. QED
    BY <1>1, <1>5, <1>6, <1>8, <1>9, <1>10, IntoSymbolStep

LEMMA IntoSymbolCopied ==
    ASSUME CInv, NEW h \in Handles, NEW d \in Bindings, BufferIntoSymbol(h, d),
           ~Movable(handle[h])
    PROVE  CInv'
<1> DEFINE b == handle[h]
           o == buffer[b].owner
           n == buffer[b].count
           bytes == BytesOf(heap, buffer[b])
           x == Left(buffer[b])
<1>1. /\ handle[h] # None /\ d \notin live /\ UNCHANGED lender /\ Hands(h, None)
      /\ buffer' = ReleasedBuffers(buffer, b)
    BY DEF BufferIntoSymbol, Hands
<1>2. \/ n = 0 /\ heap' = HeapWithout(heap, buffer, b) /\ Bind(d, NoView, {})
      \/ /\ n # 0
         /\ \E p \in Fresh(heap) :
              /\ heap' = HeapWithout([heap EXCEPT ![p] = FlatOwner(bytes, Capacity(n), 0)], buffer, b)
              /\ Bind(d, [owner |-> p, data |-> 0, length |-> n], {})
    BY DEF BufferIntoSymbol
<1>3. /\ b \in Buffers /\ buffer[b] \in BufferObject /\ Kept(buffer[b]) /\ heap \in Heaps
      /\ n \in Nat /\ n \in 0..MaxLength /\ buffer \in [Buffers -> BufferObject]
      /\ buffer[b].references # 0 /\ (o \in Owners => heap[o].references = 1)
    BY <1>1, HandledBuffer, BInvFacts DEF CInv
<1>4. o \in Owners \cup {None} /\ bytes \in Seq(Cell) /\ Len(bytes) = n
    BY <1>3, BytesType DEF BufferObject
<1>5. Puts(b, x)
    BY <1>1, <1>3, ReleasedPuts DEF Puts
<1>6. /\ x \in BufferObject /\ Kept(x) /\ x.references = buffer[b].references - 1
      /\ x.owner = IF buffer[b].references = 1 THEN None ELSE o
    BY <1>3, LeftTypes
<1>7. \A q \in Owners : heap[q].references \in Nat /\ q # None
    BY BInvFacts, NoneIsNoOwner DEF CInv
<1>8. b = handle[h] /\ o = buffer[b].owner /\ x.owner \in {o, None}
    BY <1>6
<1> HIDE DEF b, o, n, bytes, x
<1>9. CASE n = 0
    <2>1. heap' = HeapWithout(heap, buffer, b) /\ Bind(d, NoView, {})
        BY <1>2, <1>9
    <2>2. heap' \in Heaps /\ Moved(heap, heap', o, x.owner)
        <3>1. PICK k : k = heap'
            OBVIOUS
        <3>2. (o \in Owners => heap[o].references >= 1)
            BY <1>3
        <3>3. k \in Heaps /\ Moved(heap, k, o, IF buffer[b].references = 1 THEN None ELSE o)
            BY <1>3, <1>4, <1>8, <2>1, <3>1, <3>2, HeapWithoutMoves
        <3>4. QED
            BY <1>6, <3>1, <3>3
    <2>3. PICK v : v = NoView
        OBVIOUS
    <2>4. v \in View /\ InStatic(v.owner, v.data, v.length) /\ v.owner = None /\ Bind(d, v, {})
        BY <2>1, <2>3, NoViewFacts DEF NoView
    <2>5. \A q \in Owners : heap'[q].references
              = heap[q].references - (IF q = buffer[b].owner THEN 1 ELSE 0)
                + (IF q = x.owner THEN 1 ELSE 0) + (IF q = v.owner THEN 1 ELSE 0)
        BY <1>7, <1>8, <2>2, <2>4 DEF Moved
    <2>6. v.owner \notin Owners
        BY <2>4, NoneIsNoOwner
    <2>7. QED
        BY <1>1, <1>5, <1>6, <1>8, <2>2, <2>4, <2>5, <2>6, IntoSymbolStep
<1>10. CASE n # 0
    <2>1. PICK p \in Fresh(heap) :
              /\ heap' = HeapWithout([heap EXCEPT ![p] = FlatOwner(bytes, Capacity(n), 0)], buffer, b)
              /\ Bind(d, [owner |-> p, data |-> 0, length |-> n], {})
        BY <1>2, <1>10
    <2>2. p \in Owners /\ heap[p].references = 0 /\ p # None /\ p \notin Statics
        BY NoneIsNoOwner, OwnersAssumption DEF Fresh
    <2>3. PICK v : v = [owner |-> p, data |-> 0, length |-> n]
        OBVIOUS
    <2>4. v \in View /\ InStatic(v.owner, v.data, v.length) /\ v.owner = p /\ Bind(d, v, {})
        BY <1>3, <2>1, <2>2, <2>3, Sizes DEF View, InStatic
    <2>5. PICK y : y = FlatOwner(bytes, Capacity(n), 0)
        OBVIOUS
    <2>6. y \in FlatHeader /\ Len(y.bytes) = y.capacity /\ y.references = 1
        <3>1. Capacity(n) \in Nat /\ 0 \in Nat
            BY <1>3, Sizes
        <3>2. QED
            BY <1>4, <2>5, <3>1, FlatOwnerType
    <2>7. PICK f : f = [heap EXCEPT ![p] = y]
        OBVIOUS
    <2>8. f \in Heaps /\ Moved(heap, f, None, p)
        <3>1. f = IF p = None THEN heap ELSE [heap EXCEPT ![p] = y]
            BY <2>2, <2>7
        <3>2. QED
            BY <1>3, <2>1, <2>6, <3>1, PlacedHeap
    <2>9. PICK k : k = heap'
        OBVIOUS
    <2>10. k \in Heaps /\ Moved(f, k, o, IF buffer[b].references = 1 THEN None ELSE o)
        <3>1. k = HeapWithout(f, buffer, b)
            BY <2>1, <2>5, <2>7, <2>9
        <3>2. o \in Owners => f[o].references >= 1
            BY <1>3, <1>7, <2>2, <2>8 DEF Moved
        <3>3. QED
            BY <1>3, <1>4, <1>8, <2>8, <3>1, <3>2, HeapWithoutMoves
    <2>11. heap' \in Heaps
        BY <2>9, <2>10
    <2>12. ASSUME NEW q \in Owners
           PROVE  heap'[q].references
              = heap[q].references - (IF q = buffer[b].owner THEN 1 ELSE 0)
                + (IF q = x.owner THEN 1 ELSE 0) + (IF q = v.owner THEN 1 ELSE 0)
        <3>1. f[q].references = heap[q].references + (IF q = p THEN 1 ELSE 0)
            BY <1>7, <2>8 DEF Moved
        <3>2. k[q].references = f[q].references - (IF q = o THEN 1 ELSE 0)
                                + (IF q = x.owner THEN 1 ELSE 0)
            BY <1>6, <2>10 DEF Moved
        <3>3. QED
            BY <1>7, <1>8, <2>4, <2>9, <3>1, <3>2
    <2>13. QED
        BY <1>1, <1>5, <1>6, <1>8, <2>4, <2>11, <2>12, IntoSymbolStep
<1>11. QED
    BY <1>9, <1>10

LEMMA IntoSymbolCounts ==
    ASSUME CInv, NEW h \in Handles, NEW d \in Bindings, BufferIntoSymbol(h, d)
    PROVE  CInv'
BY IntoSymbolMoved, IntoSymbolCopied
\* A Buffer made of copied bytes has storage for exactly those.
LEMMA CopiedTypes ==
    ASSUME NEW bytes \in Seq(Cell), NEW n, n = Len(bytes), n <= MaxLength,
           NEW p \in MakePlaces(n), NEW x, x = Copied(bytes, p)
    PROVE  /\ x \in BufferObject /\ Kept(x) /\ x.references = 1 /\ x.count = n /\ x.owner = p
           /\ p = None \/ p \in Fresh(heap)
           /\ x.storage = "flat" <=> p # None
           /\ x.storage = "inline" => \A i \in 1..n : x.inline[i] = bytes[i]
<1> DEFINE m == Made(n, p)
           inline == IF m.storage = "inline" THEN Write(m.inline, InlineBytes, 0, bytes) ELSE m.inline
<1>1. n \in Nat /\ n \in 0..MaxLength /\ InlineBytes \in Nat
    BY Sizes, BuffersAssumption
<1>2. /\ m \in BufferObject /\ Kept(m) /\ m.references = 1 /\ m.count = 0 /\ m.owner = p
      /\ n > InlineBytes => p \in Fresh(heap) /\ p \in Owners /\ m.storage = "flat" /\ m.inline = <<>>
      /\ ~(n > InlineBytes) => p = None
      /\ n \in 1..InlineBytes =>
            m.storage = "inline" /\ m.inline \in Seq(Cell) /\ Len(m.inline) = InlineBytes
      /\ n = 0 => m.storage = "none"
    BY <1>1, MadeTypes
<1>3. x = [m EXCEPT !.count = n, !.inline = inline]
    BY DEF Copied
<1>4. m.inline \in Seq(Cell) /\ m.storage \in {"none", "inline", "flat"} /\ m.owner \in Owners \cup {None}
    BY <1>2 DEF BufferObject, Cell
<1>5. m.storage = "inline" => m.inline = [i \in 1..InlineBytes |-> Junk]
    <2>1. m.storage = "inline" => n \in 1..InlineBytes
        BY <1>1, <1>2, NoneIsNoOwner
    <2>2. n \in 1..InlineBytes => m.inline = [i \in 1..InlineBytes |-> Junk]
        BY DEF Made, EmptyBuffer, NoBuffer
    <2>3. QED
        BY <2>1, <2>2
<1>6. inline \in Seq(Cell) /\ (m.storage = "inline" => Len(inline) = InlineBytes)
    <2>1. 0 \in Int
        OBVIOUS
    <2>2. /\ Write(m.inline, InlineBytes, 0, bytes) \in Seq(Cell)
          /\ Len(Write(m.inline, InlineBytes, 0, bytes)) = InlineBytes
        BY <1>1, <1>4, <2>1, WriteType
    <2>3. QED
        BY <1>4, <2>2
<1>7. m.storage = "inline" =>
          inline = Write([i \in 1..InlineBytes |-> Junk], InlineBytes, 0, bytes)
    BY <1>5
<1> HIDE DEF inline, m
<1>8. /\ x \in BufferObject /\ x.references = m.references /\ x.storage = m.storage
      /\ x.owner = m.owner /\ x.inline = inline /\ x.count = n
    BY <1>1, <1>2, <1>3, <1>6 DEF BufferObject, Cell
<1>9. /\ m.storage = "flat" <=> n > InlineBytes
      /\ m.storage = "inline" => n <= InlineBytes
      /\ m.storage = "none" => n = 0
    BY <1>1, <1>2, <1>4, NoneIsNoOwner DEF Kept
<1>10. m.storage = "flat" <=> p \in Owners
    BY <1>2 DEF Kept
<1>11. Kept(x)
    BY <1>2, <1>6, <1>8, <1>9, <1>10 DEF Kept
<1>12. p = None \/ p \in Fresh(heap)
    BY <1>2
<1>13. x.storage = "flat" <=> p # None
    BY <1>2, <1>4, <1>8, <1>10, NoneIsNoOwner
<1>14. x.storage = "inline" => \A i \in 1..n : x.inline[i] = bytes[i]
    <2> SUFFICES ASSUME x.storage = "inline", NEW i \in 1..n
                 PROVE  x.inline[i] = bytes[i]
        OBVIOUS
    <2>1. n <= InlineBytes /\ x.inline = Write([j \in 1..InlineBytes |-> Junk], InlineBytes, 0, bytes)
        BY <1>7, <1>8, <1>9
    <2>2. i \in 1..InlineBytes /\ i \in (0 + 1)..(0 + Len(bytes)) /\ i - 0 = i
        BY <1>1, <2>1
    <2>3. QED
        BY <2>1, <2>2 DEF Write
<1>15. QED
    BY <1>2, <1>8, <1>11, <1>12, <1>13, <1>14

LEMMA CopiedHeapTypes ==
    ASSUME heap \in Heaps, NEW bytes \in Seq(Cell), NEW p, p = None \/ p \in Fresh(heap),
           NEW k, k = CopiedHeap(bytes, p)
    PROVE  k \in Heaps /\ Moved(heap, k, None, p)
<1> DEFINE w == FlatOwner(bytes, Len(bytes), 0)
           y == [w EXCEPT !.length = 0]
<1>1. w \in FlatHeader /\ Len(w.bytes) = w.capacity /\ w.references = 1
    <2>1. Len(bytes) \in Nat /\ 0 \in Nat
        OBVIOUS
    <2>2. QED
        BY <2>1, FlatOwnerType
<1>2. k = IF p = None THEN heap ELSE [heap EXCEPT ![p] = y]
    BY DEF CopiedHeap
<1> HIDE DEF w
<1>3. y \in FlatHeader /\ Len(y.bytes) = y.capacity /\ y.references = 1
    BY <1>1 DEF FlatHeader
<1> HIDE DEF y
<1>4. QED
    BY <1>2, <1>3, PlacedHeap

\* A handle begins on a blank Buffer, which becomes x.
LEMMA NewObjectStep ==
    ASSUME CInv, BInv', NEW h \in Handles, handle[h] = None, NEW b \in FreshBuffers,
           NEW x, x.references = 1, Puts(b, x), Hands(h, b)
    PROVE  CInv'
<1>1. b \in Buffers /\ buffer[b].references = 0
    BY FreshBuffer, BlankBuffer DEF CInv
<1>2. \A c \in Buffers : buffer'[c] = IF c = b THEN x ELSE buffer[c]
    BY <1>1, PutFacts DEF CInv
<1>3. \A c \in Buffers : buffer[c].references \in Nat
    BY BInvFacts, ObjectFacts DEF CInv
<1>4. None \notin Buffers
    BY BuffersAssumption
<1>5. \A c \in Buffers : buffer'[c].references
            = buffer[c].references - (IF c = handle[h] THEN 1 ELSE 0) + (IF c = b THEN 1 ELSE 0)
    BY <1>1, <1>2, <1>3, <1>4
<1>6. /\ handle' \in [Handles -> Buffers \cup {None}]
      /\ \A g \in Handles : handle'[g] = IF g = h THEN b ELSE handle[g]
    BY <1>1, HandlePut
<1>7. b \in Buffers \cup {None} /\ handle[h] # b
    BY <1>1, <1>4
<1>8. QED
    BY <1>5, <1>6, <1>7, HandleStep

LEMMA ToBufferCounts ==
    ASSUME CInv, NEW s \in Bindings, NEW h \in Handles, SymbolToBuffer(s, h)
    PROVE  CInv'
<1>1. s \in live /\ handle[h] = None /\ UNCHANGED <<live, view, lender>>
    BY DEF SymbolToBuffer
<1>2. PICK b \in FreshBuffers, p \in MakePlaces(view[s].length) :
         /\ heap' = CopiedHeap(Contents(s), p) /\ Puts(b, Copied(Contents(s), p)) /\ Hands(h, b)
    BY DEF SymbolToBuffer, Puts, Hands
<1>3. PICK extra \in [Owners -> Nat] : extra = HeldBy(buffer) /\ Held(extra) /\ Objects(buffer)
    BY DEF CInv, BInv
<1> DEFINE bytes == Contents(s)
           x == Copied(bytes, p)
<1>4. /\ bytes \in Seq(Cell) /\ Len(bytes) = view[s].length /\ Len(bytes) <= MaxLength
      /\ view[s].length \in Nat
    <2>1. view[s] \in View /\ heap \in Heaps /\ InStatic(view[s].owner, view[s].data, view[s].length)
        BY <1>1, <1>3, TypeFacts DEF Held, IInv, StaticWindows
    <2>2. view[s].length \in Nat /\ view[s].length <= MaxLength
        BY <2>1, Sizes DEF View
    <2>3. bytes \in Seq(Cell) /\ Len(bytes) = view[s].length
        BY <2>1, OperandBytes DEF Contents
    <2>4. QED
        BY <2>2, <2>3
<1>5. b \in Buffers /\ buffer[b].owner = None /\ BInv
    BY FreshBuffer DEF CInv
<1>6. heap \in Heaps
    BY <1>5, BInvFacts
<1>7. heap' = CopiedHeap(bytes, p) /\ Puts(b, x)
    BY <1>2
<1> HIDE DEF bytes
<1>8. /\ x \in BufferObject /\ Kept(x) /\ x.references = 1 /\ x.owner = p
      /\ p = None \/ p \in Fresh(heap)
    BY <1>4, CopiedTypes
<1> HIDE DEF x
<1>9. heap' \in Heaps /\ Moved(heap, heap', None, p)
    BY <1>4, <1>6, <1>7, <1>8, CopiedHeapTypes
<1>10. BInv'
    <2>1. buffer' = [buffer EXCEPT ![b] = x]
        BY <1>7 DEF Puts
    <2>2. QED
        BY <1>1, <1>5, <1>8, <1>9, <2>1, ObjectStep
<1>11. QED
    BY <1>1, <1>2, <1>7, <1>8, <1>10, NewObjectStep

\* The adopted owner's window is what the Symbol saw of it.
Adopted(f, o, n) == [f EXCEPT ![o].length = n]

LEMMA AdoptedHeap ==
    ASSUME NEW f \in Heaps, NEW a \in Owners, NEW m \in Nat, NEW k, k = Adopted(f, a, m)
    PROVE  /\ k \in Heaps
           /\ \A q \in Owners : k[q].references = f[q].references /\ (q # a => k[q] = f[q])
<1> DEFINE y == [f[a] EXCEPT !.length = m]
<1>1. f \in [Owners -> FlatHeader] /\ Len(f[a].bytes) = f[a].capacity /\ f[a] \in FlatHeader
    BY DEF Heaps
<1>2. k = [f EXCEPT ![a] = y]
    BY <1>1 DEF FlatHeader, Adopted
<1>3. /\ y \in FlatHeader /\ y.references = f[a].references /\ y.bytes = f[a].bytes
      /\ y.capacity = f[a].capacity /\ y.start = f[a].start /\ y.length = m
    BY <1>1 DEF FlatHeader
<1> HIDE DEF y
<1>4. k \in Heaps /\ k[a] = y /\ \A q \in Owners : q # a => k[q] = f[q]
    <2>1. [f EXCEPT ![a] = y] \in Heaps
        BY <1>1, <1>3, HeapUpdate
    <2>2. QED
        BY <1>1, <1>2, <2>1
<1>5. QED
    BY <1>3, <1>4

LEMMA AdoptedMoves ==
    ASSUME NEW f \in Heaps, NEW a \in Owners, NEW m \in Nat, NEW k, k = Adopted(f, a, m)
    PROVE  k \in Heaps /\ Moved(f, k, a, a)
<1>1. k \in Heaps /\ \A q \in Owners : k[q].references = f[q].references
    BY AdoptedHeap
<1>2. QED
    BY <1>1, SameMoved

\* The Buffer that adopts an owner.
Adopting(o, n) == [EmptyBuffer EXCEPT !.storage = "flat", !.owner = o, !.count = n]

LEMMA AdoptingBuffer ==
    ASSUME NEW o \in Owners, NEW n \in 0..MaxLength, NEW x, x = Adopting(o, n)
    PROVE  /\ x \in BufferObject /\ Kept(x) /\ x.references = 1 /\ x.owner = o
           /\ x.storage = "flat" /\ x.count = n
<1>1. x = [references |-> 1, storage |-> "flat", owner |-> o, inline |-> <<>>, count |-> n]
    BY DEF Adopting, EmptyBuffer, NoBuffer
<1>2. x \in BufferObject
    BY <1>1, EmptyCells DEF BufferObject, Cell
<1>3. Kept(x)
    BY <1>1 DEF Kept
<1>4. QED
    BY <1>1, <1>2, <1>3

LEMMA IntoBufferAdopted ==
    ASSUME CInv, NEW s \in Bindings, NEW h \in Handles, SymbolIntoBuffer(s, h), Adoptable(view[s])
    PROVE  CInv'
<1> DEFINE o == view[s].owner
           n == view[s].length
           x == Adopting(o, n)
<1>1. /\ Owned(s) /\ Borrowers(s) = {} /\ handle[h] = None
      /\ live' = live \ {s} /\ view' = [view EXCEPT ![s] = NoView] /\ UNCHANGED lender
    BY DEF SymbolIntoBuffer
<1>2. PICK b \in FreshBuffers :
         heap' = Adopted(heap, o, n) /\ Puts(b, x) /\ Hands(h, b)
    BY DEF SymbolIntoBuffer, Adopted, Adopting, Puts, Hands
<1>3. PICK extra \in [Owners -> Nat] : extra = HeldBy(buffer) /\ Held(extra) /\ Objects(buffer)
    BY DEF CInv, BInv
<1>4. o \in Owners /\ heap[o].references = 1
    BY DEF Adoptable
<1>5. n \in Nat /\ n \in 0..MaxLength /\ heap \in Heaps /\ \A q \in Owners : heap[q].references \in Nat
    <2>1. view[s] \in View /\ heap \in Heaps
        BY <1>3, TypeFacts DEF Held, IInv
    <2>2. QED
        BY <2>1, HeaderFacts, Sizes DEF View
<1>6. b \in Buffers /\ buffer[b].owner = None /\ BInv
    BY FreshBuffer DEF CInv
<1>7. x \in BufferObject /\ Kept(x) /\ x.references = 1 /\ x.owner = o
    BY <1>4, <1>5, AdoptingBuffer
<1>8. \A c \in live : view[c].owner = o => c = s
    BY <1>1, <1>3, <1>4, OneViewer
<1>9. o = view[s].owner
    OBVIOUS
<1> HIDE DEF o, n, x
<1>10. heap' \in Heaps /\ Moved(heap, heap', o, o)
    <2>1. PICK k : k = heap'
        OBVIOUS
    <2>2. heap \in Heaps /\ o \in Owners /\ n \in Nat
        BY <1>4, <1>5
    <2>3. k = Adopted(heap, o, n)
        BY <1>2, <2>1
    <2>4. k \in Heaps /\ Moved(heap, k, o, o)
        BY <2>2, <2>3, AdoptedMoves
    <2>5. QED
        BY <2>1, <2>4
<1>11. BInv'
    <2>1. buffer' = [buffer EXCEPT ![b] = x]
        BY <1>2 DEF Puts
    <2>2. Moved(heap, heap', view[s].owner, x.owner)
        BY <1>7, <1>9, <1>10
    <2>3. x.owner = view[s].owner /\ \A c \in live : view[c].owner = x.owner => c = s
        BY <1>7, <1>8, <1>9
    <2>4. QED
        BY <1>1, <1>6, <1>7, <1>10, <2>1, <2>2, <2>3, EndObjectStep
<1>12. QED
    BY <1>1, <1>2, <1>7, <1>11, NewObjectStep

LEMMA IntoBufferCopied ==
    ASSUME CInv, NEW s \in Bindings, NEW h \in Handles, SymbolIntoBuffer(s, h), ~Adoptable(view[s])
    PROVE  CInv'
<1>1. /\ Owned(s) /\ Borrowers(s) = {} /\ handle[h] = None /\ s \in live
      /\ live' = live \ {s} /\ view' = [view EXCEPT ![s] = NoView] /\ UNCHANGED lender
    BY DEF SymbolIntoBuffer, Owned
<1>2. PICK b \in FreshBuffers, p \in MakePlaces(view[s].length) :
         /\ heap' = Release(CopiedHeap(Contents(s), p), view[s].owner)
         /\ Puts(b, Copied(Contents(s), p)) /\ Hands(h, b)
    BY DEF SymbolIntoBuffer, Puts, Hands
<1>3. PICK extra \in [Owners -> Nat] : extra = HeldBy(buffer) /\ Held(extra) /\ Objects(buffer)
    BY DEF CInv, BInv
<1> DEFINE bytes == Contents(s)
           x == Copied(bytes, p)
           o == view[s].owner
           f == CopiedHeap(bytes, p)
<1>4. /\ bytes \in Seq(Cell) /\ Len(bytes) = view[s].length /\ Len(bytes) <= MaxLength
      /\ view[s].length \in Nat
    <2>1. view[s] \in View /\ heap \in Heaps /\ InStatic(view[s].owner, view[s].data, view[s].length)
        BY <1>1, <1>3, TypeFacts DEF Held, IInv, StaticWindows
    <2>2. view[s].length \in Nat /\ view[s].length <= MaxLength
        BY <2>1, Sizes DEF View
    <2>3. bytes \in Seq(Cell) /\ Len(bytes) = view[s].length
        BY <2>1, OperandBytes DEF Contents
    <2>4. QED
        BY <2>2, <2>3
<1>5. b \in Buffers /\ buffer[b].owner = None /\ BInv
    BY FreshBuffer DEF CInv
<1>6. heap \in Heaps /\ \A q \in Owners : heap[q].references \in Nat /\ q # None
    BY <1>5, BInvFacts, NoneIsNoOwner
<1>7. heap' = Release(f, o) /\ Puts(b, x) /\ o = view[s].owner
    BY <1>2
<1> HIDE DEF bytes
<1>8. /\ x \in BufferObject /\ Kept(x) /\ x.references = 1 /\ x.owner = p
      /\ p = None \/ p \in Fresh(heap)
    BY <1>4, CopiedTypes
<1>9. f \in Heaps /\ Moved(heap, f, None, p)
    BY <1>4, <1>6, <1>8, CopiedHeapTypes
<1> HIDE DEF x, f, o
<1>10. o \in Owners => heap[o].references >= 1
    BY <1>1, <1>3, <1>7, HeldAliveAlways DEF HeldAlive, ViewsAlive
<1>11. o \in Owners => o # p
    BY <1>8, <1>10, NoneIsNoOwner DEF Fresh
<1>12. heap' \in Heaps /\ Moved(heap, heap', o, p)
    <2>1. o \in Owners => f[o].references >= 1
        BY <1>6, <1>9, <1>10, <1>11 DEF Moved
    <2>2. PICK k : k = heap'
        OBVIOUS
    <2>3. k = Release(f, o)
        BY <1>7, <2>2
    <2>4. /\ k \in Heaps
          /\ \A q \in Owners : k[q].references = f[q].references - (IF q = o THEN 1 ELSE 0)
        BY <1>9, <2>1, <2>3, ReleaseHeap
    <2>5. ASSUME NEW q \in Owners
          PROVE  k[q].references = heap[q].references - (IF q = o THEN 1 ELSE 0) + (IF q = p THEN 1 ELSE 0)
        <3>1. f[q].references = heap[q].references + (IF q = p THEN 1 ELSE 0)
            BY <1>6, <1>9 DEF Moved
        <3>2. QED
            BY <1>6, <2>4, <3>1
    <2>6. QED
        BY <2>2, <2>4, <2>5 DEF Moved
<1>13. BInv'
    <2>1. buffer' = [buffer EXCEPT ![b] = x]
        BY <1>7 DEF Puts
    <2>2. Moved(heap, heap', view[s].owner, x.owner)
        BY <1>7, <1>8, <1>12
    <2>3. x.owner = None \/ x.owner \in Fresh(heap)
        BY <1>8
    <2>4. QED
        BY <1>1, <1>5, <1>8, <1>12, <2>1, <2>2, <2>3, EndObjectStep
<1>14. QED
    BY <1>1, <1>2, <1>7, <1>8, <1>13, NewObjectStep

LEMMA IntoBufferCounts ==
    ASSUME CInv, NEW s \in Bindings, NEW h \in Handles, SymbolIntoBuffer(s, h)
    PROVE  CInv'
BY IntoBufferAdopted, IntoBufferCopied
-----------------------------------------------------------------------------
(* The counts are an invariant.                                               *)

LEMMA SymbolsCounts ==
    ASSUME CInv, [Next]_vars, UNCHANGED bufferVars
    PROVE  CInv'
<1>1. PICK extra \in [Owners -> Nat] : extra = HeldBy(buffer) /\ Held(extra) /\ Objects(buffer)
    BY DEF CInv, BInv
<1>2. Held(extra)'
    BY <1>1, NextHeld
<1>3. buffer' = buffer /\ handle' = handle
    BY DEF bufferVars
<1>4. BInv'
    BY <1>1, <1>2, <1>3 DEF BInv
<1>5. QED
    BY <1>3, <1>4 DEF CInv

LEMMA InitCInv == Init /\ InitBuffers => CInv
<1> SUFFICES ASSUME Init, InitBuffers
             PROVE  CInv
    OBVIOUS
<1>1. \A b \in Buffers : buffer[b] = NoBuffer
    BY DEF InitBuffers
<1>2. Objects(buffer)
    BY <1>1, BlankBuffer, NoneIsNoOwner DEF InitBuffers, Objects, Apart
<1>3. HeldBy(buffer) = Alone
    <2>1. HeldBy(buffer) \in [Owners -> Nat] /\ Alone \in [Owners -> Nat]
        BY HeldByType, AloneType
    <2>2. \A o \in Owners : HeldBy(buffer)[o] = 0 /\ Alone[o] = 0
        BY <1>1, HeldByType, AloneType, BlankBuffer, NoneIsNoOwner
    <2>3. QED
        BY <2>1, <2>2
<1>4. BInv
    <2>1. Alone \in [Owners -> Nat] /\ Held(Alone)
        BY AloneType, InitHeld
    <2>2. QED
        BY <1>2, <1>3, <2>1 DEF BInv
<1>5. HandleCounts(buffer, handle)
    <2>1. handle \in [Handles -> Buffers \cup {None}] /\ \A h \in Handles : handle[h] = None
        BY DEF InitBuffers
    <2>2. ASSUME NEW b \in Buffers
          PROVE  buffer[b].references = Cardinality(HandlesOf(handle, b))
        <3>1. HandlesOf(handle, b) = {}
            BY <2>1, BuffersAssumption DEF HandlesOf
        <3>2. QED
            BY <1>1, <3>1, BlankBuffer, FS_EmptySet
    <2>3. QED
        BY <2>1, <2>2 DEF HandleCounts
<1>6. QED
    BY <1>4, <1>5 DEF CInv

LEMMA NextCInv == CInv /\ [ConversionsNext]_allVars => CInv'
<1> SUFFICES ASSUME CInv, [ConversionsNext]_allVars
             PROVE  CInv'
    OBVIOUS
<1>1. CASE Next /\ UNCHANGED bufferVars
    BY <1>1, SymbolsCounts
<1>2. CASE \E h \in Handles : \E capacity \in 0..MaxLength : BufferMake(h, capacity)
    BY <1>2, MakeCounts
<1>3. CASE \E h \in Handles, v \in NewBytes : BufferNew(h, v)
    BY <1>3, NewCounts
<1>4. CASE \E h \in Handles, v \in NewBytes : \E i \in 0..MaxLength : BufferReplace(h, i, v)
    BY <1>4, ReplaceCounts
<1>5. CASE \E h \in Handles : \E n \in 0..MaxLength : BufferTruncate(h, n)
    BY <1>5, TruncateCounts
<1>6. CASE \E h \in Handles : \E n \in 0..MaxLength : BufferReserve(h, n)
    BY <1>6, ReserveCounts
<1>7. CASE \E h, g \in Handles : BufferRetain(h, g)
    BY <1>7, RetainCounts
<1>8. CASE \E h \in Handles : BufferRelease(h)
    BY <1>8, ReleaseCounts
<1>9. CASE \E h \in Handles, d \in Bindings : BufferToSymbol(h, d)
    BY <1>9, ToSymbolCounts
<1>10. CASE \E h \in Handles, d \in Bindings : BufferIntoSymbol(h, d)
    BY <1>10, IntoSymbolCounts
<1>11. CASE \E s \in Bindings, h \in Handles : SymbolToBuffer(s, h)
    BY <1>11, ToBufferCounts
<1>12. CASE \E s \in Bindings, h \in Handles : SymbolIntoBuffer(s, h)
    BY <1>12, IntoBufferCounts
<1>13. CASE UNCHANGED allVars
    <2>1. UNCHANGED vars /\ UNCHANGED bufferVars
        BY <1>13 DEF allVars, vars, bufferVars
    <2>2. QED
        BY <2>1, SymbolsCounts
<1>14. QED
    BY <1>1, <1>2, <1>3, <1>4, <1>5, <1>6, <1>7, <1>8, <1>9, <1>10, <1>11, <1>12, <1>13
       DEF ConversionsNext

LEMMA CInvInvariant == ConversionsSpec => []CInv
BY InitCInv, NextCInv, PTL DEF ConversionsSpec

-----------------------------------------------------------------------------
\* Buffer objects, handles and Symbols keep their types: no conversion takes a count below zero,
\* lets a Buffer's count pass the size bound or leaves a handle on no Buffer.
THEOREM ConversionsTypesCorrect == ConversionsSpec => []ConversionsTypeOK
<1>1. CInv => ConversionsTypeOK
    <2> SUFFICES ASSUME CInv
                 PROVE  ConversionsTypeOK
        OBVIOUS
    <2>1. TypeOK /\ buffer \in [Buffers -> BufferObject]
        BY BInvFacts DEF CInv, BInv, Held, IInv
    <2>2. handle \in [Handles -> Buffers \cup {None}]
        BY DEF CInv, HandleCounts
    <2>3. QED
        BY <2>1, <2>2 DEF ConversionsTypeOK, BufferObject
<1>2. QED
    BY <1>1, CInvInvariant, PTL

\* The Buffers in use on an owner: one at most, which then holds it alone.
LEMMA OneHolder ==
    ASSUME CInv, NEW o \in Owners, NEW bs, bs = {b \in InUseBuffers : buffer[b].owner = o}
    PROVE  /\ heap[o].references = Cardinality(Holders(o)) + Cardinality(bs)
           /\ bs # {} => heap[o].references = 1
<1>1. PICK extra \in [Owners -> Nat] : extra = HeldBy(buffer) /\ Held(extra) /\ Objects(buffer)
    BY DEF CInv, BInv
<1>2. heap[o].references = Cardinality(Holders(o)) + extra[o] /\ Cardinality(Holders(o)) \in Nat
    BY <1>1, HoldersFinite DEF Held, IInv, Counted
<1>3. bs = {b \in Buffers : buffer[b].owner = o}
    <2>1. ASSUME NEW b \in Buffers, buffer[b].owner = o
          PROVE  buffer[b].references > 0
        <3>1. Kept(buffer[b]) /\ buffer[b].references \in Nat
            BY <1>1, ObjectFacts
        <3>2. buffer[b] # NoBuffer
            BY <2>1, NoneIsNoOwner, BlankBuffer
        <3>3. QED
            BY <3>1, <3>2 DEF Kept
    <2>2. QED
        BY <2>1 DEF InUseBuffers
<1>4. CASE \E b \in Buffers : buffer[b].owner = o
    <2>1. PICK b \in Buffers : buffer[b].owner = o
        BY <1>4
    <2>2. bs = {b}
        BY <1>1, <1>3, <2>1 DEF Objects, Apart
    <2>3. extra[o] = 1
        BY <1>1, <2>1, HeldByType
    <2>4. Cardinality(bs) = 1
        BY <2>2, FS_Singleton
    <2>5. heap[o].references = 1
        BY <1>1, <2>1, HeldOnce
    <2>6. QED
        BY <1>2, <2>3, <2>4, <2>5
<1>5. CASE ~\E b \in Buffers : buffer[b].owner = o
    <2>1. bs = {} /\ extra[o] = 0
        BY <1>1, <1>3, <1>5, HeldByType
    <2>2. Cardinality(bs) = 0
        BY <2>1, FS_EmptySet
    <2>3. QED
        BY <1>2, <2>1, <2>2
<1>6. QED
    BY <1>4, <1>5

\* A byte owner counts the bindings that own it, or the one Buffer object that holds it, never
\* both, and a Buffer its handles: moving an owner between a Symbol and a Buffer, at any last
\* use and whatever shared either before, neither leaks nor frees early, and no binding is left
\* on bytes that a Buffer now writes.
THEOREM CountsCorrect == ConversionsSpec => []CountsMatch
<1>1. CInv => OwnersMatchHolders
    <2> SUFFICES ASSUME CInv, NEW o \in Owners, NEW bs, bs = {b \in InUseBuffers : buffer[b].owner = o}
                 PROVE  /\ heap[o].references = Cardinality(Holders(o)) + Cardinality(bs)
                        /\ bs # {} => heap[o].references = 1
        BY DEF OwnersMatchHolders
    <2>1. QED
        BY OneHolder
<1>2. CInv => BufferReferencesMatchHandles
    BY DEF CInv, HandleCounts, HandlesOf, BufferReferencesMatchHandles
<1>3. CInv => CountsMatch
    BY <1>1, <1>2 DEF CountsMatch
<1>4. QED
    BY <1>3, CInvInvariant, PTL

-----------------------------------------------------------------------------
(* What a Buffer stores. *)

\* The bytes of a Buffer's storage, its unused room included.
Stock(h, x) == IF x.storage = "flat" THEN h[x.owner].bytes ELSE x.inline

\* The storage of a Buffer holds its count, from the first byte, and none of that is uninitialised.
Stored(h, x) ==
    /\ x.storage = "flat" => h[x.owner].start = 0
    /\ x.count <= Len(Stock(h, x))
    /\ \A i \in 1..x.count : Stock(h, x)[i] # Junk

LEMMA StockType ==
    ASSUME NEW h \in Heaps, NEW x \in BufferObject, Kept(x)
    PROVE  /\ Stock(h, x) \in Seq(Cell) /\ Len(Stock(h, x)) \in Nat
           /\ x.storage = "flat" =>
                 x.owner \in Owners /\ Stock(h, x) = h[x.owner].bytes
                 /\ Len(Stock(h, x)) = h[x.owner].capacity
           /\ x.storage = "inline" => Stock(h, x) = x.inline /\ Len(Stock(h, x)) = InlineBytes
           /\ x.count \in Nat
<1>1. x.inline \in Seq(Cell) /\ x.count \in Nat
    BY Sizes DEF BufferObject, Cell
<1>2. CASE x.storage = "flat"
    <2>1. x.owner \in Owners
        BY <1>2 DEF Kept
    <2>2. h[x.owner].bytes \in Seq(Cell) /\ Len(h[x.owner].bytes) = h[x.owner].capacity
        BY <2>1, HeaderFacts DEF Heaps
    <2>3. QED
        BY <1>1, <1>2, <2>1, <2>2 DEF Stock
<1>3. CASE x.storage # "flat"
    BY <1>1, <1>3 DEF Stock, Kept
<1>4. QED
    BY <1>2, <1>3

\* The bytes of a Buffer are the first ones of its storage.
LEMMA BytesAt ==
    ASSUME NEW h \in Heaps, NEW x \in BufferObject, Kept(x), x.count <= Len(Stock(h, x)),
           NEW i \in 1..x.count
    PROVE  BytesOf(h, x)[i] = Stock(h, x)[i]
<1>1. x.inline \in Seq(Cell) /\ x.count \in Nat
    BY Sizes DEF BufferObject, Cell
<1>2. CASE x.storage = "flat"
    <2>1. x.owner \in Owners /\ x.owner \notin Statics
        BY <1>2, OwnersAssumption DEF Kept
    <2>2. 0 + i = i /\ i \in 1..h[x.owner].capacity
        BY <1>1, <1>2, StockType
    <2>3. Read(h, x.owner, 0, x.count)[i] = h[x.owner].bytes[i]
        BY <2>1, <2>2 DEF Read
    <2>4. QED
        BY <1>2, <2>3 DEF BytesOf, Stock
<1>3. CASE x.storage # "flat"
    <2>1. x.count <= Len(x.inline)
        BY <1>3 DEF Stock
    <2>2. SubSeq(x.inline, 1, x.count)[i] = x.inline[i]
        BY <1>1, <2>1
    <2>3. QED
        BY <1>3, <2>2 DEF BytesOf, Stock
<1>4. QED
    BY <1>2, <1>3

LEMMA SameSequence ==
    ASSUME NEW s \in Seq(Cell), NEW t \in Seq(Cell), Len(s) = Len(t),
           \A i \in 1..Len(s) : s[i] = t[i]
    PROVE  s = t
OBVIOUS

\* Two Buffers whose storage begins alike have the same bytes.
LEMMA SameBytes ==
    ASSUME NEW h \in Heaps, NEW x \in BufferObject, Kept(x), x.count <= Len(Stock(h, x)),
           NEW k \in Heaps, NEW y \in BufferObject, Kept(y), y.count <= Len(Stock(k, y)),
           x.count = y.count, \A i \in 1..x.count : Stock(k, y)[i] = Stock(h, x)[i]
    PROVE  BytesOf(k, y) = BytesOf(h, x)
<1>1. /\ BytesOf(h, x) \in Seq(Cell) /\ Len(BytesOf(h, x)) = x.count
      /\ BytesOf(k, y) \in Seq(Cell) /\ Len(BytesOf(k, y)) = x.count
    BY BytesType
<1>2. \A i \in 1..x.count : BytesOf(k, y)[i] = BytesOf(h, x)[i]
    BY BytesAt
<1>3. QED
    BY <1>1, <1>2, SameSequence

\* A Buffer in use on an owner that stays as it was keeps its bytes.
LEMMA UntouchedBuffer ==
    ASSUME NEW h \in Heaps, NEW k \in Heaps, NEW x \in BufferObject, Kept(x), Stored(h, x),
           x.owner \in Owners => Serves(h, k, x.owner)
    PROVE  Stored(k, x) /\ BytesOf(k, x) = BytesOf(h, x)
<1>1. Stock(k, x) = Stock(h, x) /\ (x.storage = "flat" => k[x.owner].start = h[x.owner].start)
    BY DEF Stock, Serves, Kept
<1>2. Stored(k, x)
    BY <1>1 DEF Stored
<1>3. QED
    BY <1>1, <1>2, SameBytes DEF Stored

-----------------------------------------------------------------------------
(* The bindings see no Buffer's step. *)

LEMMA WindowServes ==
    ASSUME NEW h, NEW k, NEW v, v.owner \in Owners => Serves(h, k, v.owner)
    PROVE  Bytes(k, v) = Bytes(h, v)
BY ReadServes DEF Bytes

\* What others hold changes from extra to among while only the owner new is made or given to
\* a binding; stay are the bindings that are left as they are.
LEMMA KeepStep ==
    ASSUME NEW extra \in [Owners -> Nat], WInv(extra), NEW among \in [Owners -> Nat], Held(among)',
           NEW new,
           \A q \in Owners : heap'[q].references >= 1 /\ among[q] = 0 /\ q # new =>
               extra[q] = 0 /\ heap[q].references >= 1 /\ Serves(heap, heap', q),
           new \in Owners => Readable(heap', new),
           NEW stay, stay \subseteq live,
           \A b \in stay : /\ b \in live' /\ view'[b] = view[b]
                           /\ view[b].owner \in Owners => view[b].owner # new,
           \A b \in live' : b \in stay \/ InWindow(heap', view'[b])
    PROVE  WInv(among)' /\ \A b \in stay : Contents(b)' = Contents(b)
<1>1. OwnersReadable(among)'
    <2> SUFFICES ASSUME NEW q \in Owners, heap'[q].references >= 1, among[q] = 0
                 PROVE  Readable(heap', q)
        BY DEF OwnersReadable
    <2>1. CASE q = new
        BY <2>1
    <2>2. CASE q # new
        <3>1. extra[q] = 0 /\ heap[q].references >= 1 /\ Serves(heap, heap', q)
            BY <2>2
        <3>2. Readable(heap, q)
            BY <3>1 DEF WInv, OwnersReadable
        <3>3. QED
            BY <3>1, <3>2, ServesReadable
    <2>3. QED
        BY <2>1, <2>2
<1>2. ViewsAlive'
    BY HeldAfter
<1>3. ASSUME NEW b \in stay
      PROVE  InWindow(heap', view'[b]) /\ Contents(b)' = Contents(b)
    <2>1. b \in live /\ b \in live' /\ view'[b] = view[b]
        BY <1>3
    <2>2. ASSUME view[b].owner \in Owners
          PROVE  Serves(heap, heap', view[b].owner)
        <3>1. heap'[view[b].owner].references >= 1
            BY <1>2, <2>1, <2>2 DEF ViewsAlive
        <3>2. among[view[b].owner] = 0
            BY <2>1, <2>2 DEF Held, Unviewed, Spare
        <3>3. QED
            BY <1>3, <2>2, <3>1, <3>2
    <2>3. InWindow(heap, view[b])
        BY <2>1 DEF WInv, Windows
    <2>4. InWindow(heap', view[b])
        BY <2>2, <2>3 DEF InWindow, Serves
    <2>5. Read(heap', view[b].owner, view[b].data, view[b].length)
            = Read(heap, view[b].owner, view[b].data, view[b].length)
        <3>1. Bytes(heap', view[b]) = Bytes(heap, view[b])
            BY <2>2, WindowServes
        <3>2. QED
            BY <3>1 DEF Bytes
    <2>6. QED
        BY <2>1, <2>4, <2>5 DEF Contents
<1>4. Windows'
    BY <1>3 DEF Windows
<1>5. QED
    BY <1>1, <1>3, <1>4 DEF WInv

-----------------------------------------------------------------------------
(* A step on one Buffer, read. *)

AllStored(h, bs) == \A b \in Buffers : Stored(h, bs[b])

\* The counts agree, every binding is a window onto initialised bytes, and every Buffer's
\* storage holds its count.
DInv ==
    \E extra \in [Owners -> Nat] :
        /\ extra = HeldBy(buffer) /\ WInv(extra) /\ Objects(buffer)
        /\ HandleCounts(buffer, handle) /\ AllStored(heap, buffer)

\* The Buffers other than b have the bytes they had.
OthersSame(b) ==
    \A c \in Buffers : c # b => BytesOf(heap', buffer'[c]) = BytesOf(heap, buffer[c])

Alike(stay) == \A c \in stay : Contents(c)' = Contents(c)

LEMMA DInvCounts ==
    ASSUME DInv
    PROVE  CInv
BY DEF DInv, CInv, BInv, WInv

\* The owners that no Buffer but b is on go on as they were, or end with b's use of them.
Restocks(b, x, new) ==
    /\ new \in {buffer[b].owner, None} \cup Fresh(heap)
    /\ \A q \in Owners : q \notin {buffer[b].owner, x.owner, new} /\ heap'[q].references >= 1
          => heap[q].references >= 1 /\ Serves(heap, heap', q)
    /\ buffer[b].owner \in Owners /\ buffer[b].owner \notin {x.owner, new}
          => ~(heap'[buffer[b].owner].references >= 1)
    /\ new \in Owners => Readable(heap', new)

LEMMA ObjectReads ==
    ASSUME DInv, CInv', NEW b \in Buffers, NEW x, buffer'[b] = x,
           \A c \in Buffers : c # b => buffer'[c] = buffer[c],
           NEW new, Restocks(b, x, new), Stored(heap', x),
           NEW stay, stay \subseteq live, \A c \in stay : c \in live' /\ view'[c] = view[c],
           \A c \in live' : c \in stay \/ InWindow(heap', view'[c])
    PROVE  DInv' /\ Alike(stay) /\ OthersSame(b)
<1>1. PICK extra \in [Owners -> Nat] :
        /\ extra = HeldBy(buffer) /\ WInv(extra) /\ Objects(buffer) /\ AllStored(heap, buffer)
    BY DEF DInv
<1>2. PICK among \in [Owners -> Nat] : among = HeldBy(buffer') /\ Held(among)' /\ Objects(buffer')
    <2>1. BInv'
        BY DEF CInv
    <2>2. QED
        BY <2>1 DEF BInv
<1>3. Held(extra)
    BY <1>1 DEF WInv
<1>4. \A c \in Buffers : c # b /\ buffer[c].owner \in Owners => buffer[c].owner # new
    <2>1. new \in Fresh(heap) => \A c \in Buffers : buffer[c].owner # new
        BY <1>1, <1>3, FreshApart
    <2>2. \A c \in Buffers : c # b /\ buffer[c].owner \in Owners => buffer[c].owner # buffer[b].owner
        BY <1>1 DEF Objects, Apart
    <2>3. QED
        BY <2>1, <2>2, NoneIsNoOwner DEF Restocks
<1>5. \A c \in live : view[c].owner \in Owners => view[c].owner # new
    <2>1. \A c \in live : view[c].owner \in Owners => heap[view[c].owner].references >= 1
        BY <1>1, WInvFacts
    <2>2. new \in Fresh(heap) => heap[new].references = 0
        BY DEF Fresh
    <2>3. buffer[b].owner \in Owners => \A c \in live : view[c].owner # buffer[b].owner
        BY <1>1, <1>3, HeldOnce
    <2>4. QED
        BY <2>1, <2>2, <2>3, NoneIsNoOwner DEF Restocks
<1>6. \A q \in Owners : /\ HeldBy(buffer)[q] = extra[q] /\ HeldBy(buffer')[q] = among[q]
                        /\ extra[q] = IF \E c \in Buffers : buffer[c].owner = q THEN 1 ELSE 0
                        /\ among[q] = IF \E c \in Buffers : buffer'[c].owner = q THEN 1 ELSE 0
    BY <1>1, <1>2, HeldByType
<1>7. ASSUME NEW q \in Owners, heap'[q].references >= 1, among[q] = 0, q # new
      PROVE  extra[q] = 0 /\ heap[q].references >= 1 /\ Serves(heap, heap', q)
    <2>1. \A c \in Buffers : buffer'[c].owner # q
        BY <1>6, <1>7
    <2>2. x.owner # q
        BY <2>1
    <2>3. buffer[b].owner # q
        BY <1>7, <2>2 DEF Restocks
    <2>4. \A c \in Buffers : buffer[c].owner # q
        BY <2>1, <2>3
    <2>5. extra[q] = 0
        BY <1>6, <2>4
    <2>6. QED
        BY <1>7, <2>2, <2>3, <2>5 DEF Restocks
<1>8. WInv(among)' /\ Alike(stay)
    <2>1. new \in Owners => Readable(heap', new)
        BY DEF Restocks
    <2>2. \A c \in stay : /\ c \in live' /\ view'[c] = view[c]
                          /\ view[c].owner \in Owners => view[c].owner # new
        BY <1>5
    <2>3. WInv(among)' /\ \A c \in stay : Contents(c)' = Contents(c)
        BY <1>1, <1>2, <1>7, <2>1, <2>2, KeepStep
    <2>4. QED
        BY <2>3 DEF Alike
<1>9. ASSUME NEW c \in Buffers, c # b
      PROVE  Stored(heap', buffer'[c]) /\ BytesOf(heap', buffer'[c]) = BytesOf(heap, buffer[c])
    <2>1. PICK y : y = buffer[c]
        OBVIOUS
    <2>2. PICK k : k = heap'
        OBVIOUS
    <2>3. y \in BufferObject /\ Kept(y) /\ Stored(heap, y)
        BY <1>1, <2>1 DEF Objects, AllStored
    <2>4. heap \in Heaps /\ k \in Heaps
        <3>1. TypeOK /\ TypeOK'
            BY <1>2, <1>3 DEF Held, IInv
        <3>2. heap \in Heaps /\ heap' \in Heaps
            BY <3>1 DEF TypeOK, Heaps
        <3>3. QED
            BY <2>2, <3>2
    <2>5. ASSUME y.owner \in Owners
          PROVE  Serves(heap, k, y.owner)
        <3>1. buffer'[c] = y /\ buffer'[c].owner = y.owner
            BY <1>9, <2>1
        <3>2. y.owner # buffer[b].owner /\ y.owner # x.owner /\ y.owner # new
            BY <1>1, <1>2, <1>4, <1>9, <2>1, <2>5, <3>1 DEF Objects, Apart
        <3>3. among[y.owner] = 1
            BY <1>6, <2>5, <3>1
        <3>4. heap'[y.owner].references >= 1
            BY <1>2, <2>5, <3>3, HeldAfter
        <3>5. QED
            BY <2>2, <2>5, <3>2, <3>4 DEF Restocks
    <2>6. Stored(k, y) /\ BytesOf(k, y) = BytesOf(heap, y)
        BY <2>3, <2>4, <2>5, UntouchedBuffer
    <2>7. QED
        BY <1>9, <2>1, <2>2, <2>6
<1>10. OthersSame(b)
    BY <1>9 DEF OthersSame
<1>11. AllStored(heap', buffer')
    BY <1>9 DEF AllStored
<1>12. DInv'
    BY <1>2, <1>8, <1>11 DEF DInv, CInv
<1>13. QED
    BY <1>8, <1>10, <1>12

-----------------------------------------------------------------------------
(* What the operations on storage leave in it. *)

LEMMA BytesAre ==
    ASSUME NEW h \in Heaps, NEW x \in BufferObject, Kept(x), x.count <= Len(Stock(h, x)),
           NEW s \in Seq(Cell), Len(s) = x.count, \A i \in 1..x.count : Stock(h, x)[i] = s[i]
    PROVE  BytesOf(h, x) = s
<1>1. BytesOf(h, x) \in Seq(Cell) /\ Len(BytesOf(h, x)) = x.count
    BY BytesType
<1>2. \A i \in 1..x.count : BytesOf(h, x)[i] = s[i]
    BY BytesAt
<1>3. QED
    BY <1>1, <1>2, SameSequence

\* A store changes one cell of the storage.
StoreLeaves(h, x, i, v, k, z) ==
    /\ k \in Heaps /\ z \in BufferObject /\ Kept(z)
    /\ Len(Stock(k, z)) = Len(Stock(h, x))
    /\ \A j \in 1..Len(Stock(h, x)) :
          Stock(k, z)[j] = IF j = i + 1 THEN v ELSE Stock(h, x)[j]
    /\ x.storage = "flat" => z = x /\ k[x.owner].start = h[x.owner].start
    /\ z.storage = x.storage /\ z.owner = x.owner /\ z.count = x.count
    /\ z.references = x.references
    /\ \A q \in Owners : q # x.owner => k[q] = h[q]

LEMMA StoreReads ==
    ASSUME NEW h \in Heaps, NEW x \in BufferObject, Kept(x), x.references # 0, NEW i \in Nat, NEW v \in Cell
    PROVE  StoreLeaves(h, x, i, v, StoredHeap(h, x, i, v), StoredBuffer(x, i, v))
<1>0. PICK k : k = StoredHeap(h, x, i, v)
    OBVIOUS
<1>a. PICK z : z = StoredBuffer(x, i, v)
    OBVIOUS
<1>1. /\ z \in BufferObject /\ Kept(z) /\ z.references = x.references /\ z.owner = x.owner
      /\ z.storage = x.storage /\ z.count = x.count
      /\ IF x.storage = "flat" THEN z = x
         ELSE /\ Len(z.inline) = Len(x.inline)
              /\ \A j \in 1..Len(x.inline) : z.inline[j] = IF j = i + 1 THEN v ELSE x.inline[j]
    BY <1>a, StoredBufferFacts
<1>2. x.storage = "flat" => x.owner \in Owners
    BY DEF Kept
<1>3. /\ k \in Heaps
      /\ \A q \in Owners : /\ k[q].references = h[q].references
                           /\ k[q].length = h[q].length /\ k[q].capacity = h[q].capacity
                           /\ k[q].start = h[q].start
      /\ \A q \in Owners : q # x.owner => k[q] = h[q]
      /\ x.storage = "flat" =>
            \A j \in 1..h[x.owner].capacity :
               k[x.owner].bytes[j] = IF j = i + 1 THEN v ELSE h[x.owner].bytes[j]
    <2>1. h \in Heaps /\ i \in Nat /\ v \in Cell /\ k = StoredHeap(h, x, i, v)
        BY <1>0
    <2>2. k \in Heaps
        BY <1>2, <2>1, StoredHeapFacts
    <2>3. \A q \in Owners : /\ k[q].references = h[q].references
                           /\ k[q].length = h[q].length /\ k[q].capacity = h[q].capacity
                           /\ k[q].start = h[q].start
        BY <1>2, <2>1, StoredHeapFacts
    <2>4. \A q \in Owners : q # x.owner => k[q] = h[q]
        BY <1>2, <2>1, StoredHeapFacts
    <2>5. x.storage = "flat" =>
            \A j \in 1..h[x.owner].capacity :
               k[x.owner].bytes[j] = IF j = i + 1 THEN v ELSE h[x.owner].bytes[j]
        BY <1>2, <2>1, StoredHeapFacts
    <2>6. QED
        BY <2>2, <2>3, <2>4, <2>5
<1>4. ASSUME x.storage = "flat"
      PROVE  StoreLeaves(h, x, i, v, k, z)
    <2>1. z = x /\ x.owner \in Owners
        BY <1>1, <1>2, <1>4
    <2>2. Stock(h, x) = h[x.owner].bytes /\ Len(Stock(h, x)) = h[x.owner].capacity
        BY <1>4, StockType
    <2>3. Stock(k, z) = k[x.owner].bytes /\ Len(Stock(k, z)) = k[x.owner].capacity
        BY <1>3, <1>4, <2>1, StockType
    <2>4. k[x.owner].capacity = h[x.owner].capacity
        BY <1>3, <2>1
    <2>5. \A j \in 1..Len(Stock(h, x)) : Stock(k, z)[j] = IF j = i + 1 THEN v ELSE Stock(h, x)[j]
        BY <1>3, <1>4, <2>2, <2>3
    <2>6. QED
        BY <1>1, <1>3, <2>1, <2>2, <2>3, <2>4, <2>5 DEF StoreLeaves
<1>5. ASSUME x.storage # "flat"
      PROVE  StoreLeaves(h, x, i, v, k, z)
    <2>1. Stock(h, x) = x.inline /\ Stock(k, z) = z.inline
        BY <1>1, <1>5 DEF Stock
    <2>2. QED
        BY <1>1, <1>3, <1>5, <2>1 DEF StoreLeaves
<1>6. QED
    BY <1>0, <1>a, <1>4, <1>5

LEMMA ReplacedBytes ==
    ASSUME NEW h \in Heaps, NEW x \in BufferObject, Kept(x), x.references # 0, Stored(h, x),
           NEW i \in Nat, i < x.count, NEW v \in Cell, v # Junk,
           NEW k, k = StoredHeap(h, x, i, v), NEW z, z = StoredBuffer(x, i, v)
    PROVE  /\ Stored(k, z)
           /\ BytesOf(k, z) = [BytesOf(h, x) EXCEPT ![i + 1] = v]
           /\ i + 1 \in DOMAIN BytesOf(h, x)
<1>1. /\ k \in Heaps /\ z \in BufferObject /\ Kept(z)
      /\ Len(Stock(k, z)) = Len(Stock(h, x))
      /\ \A j \in 1..Len(Stock(h, x)) :
            Stock(k, z)[j] = IF j = i + 1 THEN v ELSE Stock(h, x)[j]
      /\ x.storage = "flat" => z = x /\ k[x.owner].start = h[x.owner].start
      /\ z.storage = x.storage /\ z.count = x.count
    <2>1. StoreLeaves(h, x, i, v, k, z)
        BY StoreReads
    <2>2. QED
        BY <2>1 DEF StoreLeaves
<1>2. Len(Stock(h, x)) \in Nat /\ x.count \in Nat /\ x.count <= Len(Stock(h, x))
    BY StockType DEF Stored
<1>3. \A j \in 1..x.count : Stock(k, z)[j] = IF j = i + 1 THEN v ELSE Stock(h, x)[j]
    BY <1>1, <1>2
<1>4. Stored(k, z)
    BY <1>1, <1>2, <1>3 DEF Stored
<1>5. BytesOf(h, x) \in Seq(Cell) /\ Len(BytesOf(h, x)) = x.count
    BY BytesType
<1>6. \A j \in 1..x.count : BytesOf(h, x)[j] = Stock(h, x)[j]
    BY <1>2, BytesAt
<1> DEFINE s == [BytesOf(h, x) EXCEPT ![i + 1] = v]
<1>7. /\ s \in Seq(Cell) /\ Len(s) = x.count
      /\ \A j \in 1..x.count : s[j] = IF j = i + 1 THEN v ELSE BytesOf(h, x)[j]
    <2>1. PICK t : t = BytesOf(h, x)
        OBVIOUS
    <2>2. t \in [1..x.count -> Cell]
        BY <1>5, <2>1
    <2>3. s = [t EXCEPT ![i + 1] = v]
        BY <2>1
    <2> HIDE DEF s
    <2>4. s \in [1..x.count -> Cell] /\ \A j \in 1..x.count : s[j] = IF j = i + 1 THEN v ELSE t[j]
        BY <2>2, <2>3
    <2>5. QED
        BY <1>2, <2>1, <2>4
<1>8. i + 1 \in DOMAIN BytesOf(h, x)
    BY <1>2, <1>5
<1>9. s = [BytesOf(h, x) EXCEPT ![i + 1] = v]
    OBVIOUS
<1> HIDE DEF s
<1>10. \A j \in 1..x.count : Stock(k, z)[j] = s[j]
    BY <1>3, <1>6, <1>7
<1>11. BytesOf(k, z) = s
    BY <1>1, <1>2, <1>7, <1>10, BytesAre
<1>12. QED
    BY <1>4, <1>8, <1>9, <1>11

\* An append into storage that has room.
LEMMA AppendedBytes ==
    ASSUME NEW h \in Heaps, NEW x \in BufferObject, Kept(x), x.references # 0, Stored(h, x),
           x.count < Len(Stock(h, x)), NEW v \in Cell, v # Junk,
           NEW k, k = StoredHeap(h, x, x.count, v),
           NEW z \in BufferObject, Kept(z), z.count = x.count + 1, z.storage = x.storage,
           z.owner = x.owner, z.inline = StoredBuffer(x, x.count, v).inline
    PROVE  Stored(k, z) /\ BytesOf(k, z) = Append(BytesOf(h, x), v)
<1> DEFINE n == x.count
           w == StoredBuffer(x, n, v)
<1>1. x.count \in Nat /\ Len(Stock(h, x)) \in Nat
    BY StockType
<1>2. n \in Nat /\ n = x.count /\ w = StoredBuffer(x, n, v) /\ k = StoredHeap(h, x, n, v)
      /\ z.inline = w.inline
    BY <1>1
<1> HIDE DEF n, w
<1>3. /\ k \in Heaps /\ Len(Stock(k, w)) = Len(Stock(h, x))
      /\ \A j \in 1..Len(Stock(h, x)) : Stock(k, w)[j] = IF j = n + 1 THEN v ELSE Stock(h, x)[j]
      /\ x.storage = "flat" => k[x.owner].start = h[x.owner].start
      /\ w.storage = x.storage /\ w.owner = x.owner
    <2>1. StoreLeaves(h, x, n, v, k, w)
        BY <1>2, StoreReads
    <2>2. QED
        BY <2>1 DEF StoreLeaves
<1>4. Stock(k, z) = Stock(k, w)
    BY <1>2, <1>3 DEF Stock
<1>5. \A j \in 1..z.count : Stock(k, z)[j] = IF j = n + 1 THEN v ELSE Stock(h, x)[j]
    BY <1>1, <1>2, <1>3, <1>4
<1>6. Stored(k, z)
    BY <1>1, <1>2, <1>3, <1>4, <1>5 DEF Stored
<1>7. BytesOf(h, x) \in Seq(Cell) /\ Len(BytesOf(h, x)) = n
    BY <1>2, BytesType
<1>8. \A j \in 1..n : BytesOf(h, x)[j] = Stock(h, x)[j]
    BY <1>1, <1>2, BytesAt
<1>9. PICK s : s = Append(BytesOf(h, x), v)
    OBVIOUS
<1>10. /\ s \in Seq(Cell) /\ Len(s) = z.count
       /\ \A j \in 1..z.count : s[j] = IF j = n + 1 THEN v ELSE BytesOf(h, x)[j]
    BY <1>2, <1>7, <1>9
<1>11. \A j \in 1..z.count : Stock(k, z)[j] = s[j]
    BY <1>2, <1>5, <1>8, <1>10
<1>12. z.count <= Len(Stock(k, z))
    BY <1>6 DEF Stored
<1>13. BytesOf(k, z) = s
    BY <1>3, <1>10, <1>11, <1>12, BytesAre
<1>14. QED
    BY <1>6, <1>9, <1>13

\* A smaller count shows the first bytes.
LEMMA TruncatedBytes ==
    ASSUME NEW h \in Heaps, NEW x \in BufferObject, Kept(x), Stored(h, x), NEW n \in Nat, n <= x.count,
           NEW z \in BufferObject, Kept(z), z.count = n, z.storage = x.storage, z.owner = x.owner,
           z.inline = x.inline
    PROVE  Stored(h, z) /\ BytesOf(h, z) = SubSeq(BytesOf(h, x), 1, n)
<1>1. x.count \in Nat /\ Len(Stock(h, x)) \in Nat /\ Stock(h, z) = Stock(h, x)
    BY StockType DEF Stock
<1>2. Stored(h, z)
    BY <1>1 DEF Stored
<1>3. BytesOf(h, x) \in Seq(Cell) /\ Len(BytesOf(h, x)) = x.count
    BY BytesType
<1>4. \A j \in 1..x.count : BytesOf(h, x)[j] = Stock(h, x)[j]
    BY BytesAt DEF Stored
<1>5. PICK s : s = SubSeq(BytesOf(h, x), 1, n)
    OBVIOUS
<1>6. s \in Seq(Cell) /\ Len(s) = n /\ \A j \in 1..n : s[j] = BytesOf(h, x)[j]
    BY <1>1, <1>3, <1>5
<1>7. \A j \in 1..n : Stock(h, z)[j] = s[j]
    BY <1>1, <1>4, <1>6
<1>8. z.count <= Len(Stock(h, z))
    BY <1>2 DEF Stored
<1>9. BytesOf(h, z) = s
    BY <1>6, <1>7, <1>8, BytesAre
<1>10. QED
    BY <1>2, <1>5, <1>9

-----------------------------------------------------------------------------
(* mal_buffer_reserve, read. *)

\* The Buffer x of h has become y of k, with the bytes it had and room for `required`.
Stocks(h, x, k, y, required) ==
    /\ Stored(k, y) /\ BytesOf(k, y) = BytesOf(h, x) /\ required <= Len(Stock(k, y))
    /\ \A q \in Owners : q \notin {x.owner, y.owner} => k[q] = h[q]
    /\ x.owner \in Owners /\ x.owner # y.owner => ~(k[x.owner].references >= 1)

LEMMA RoomLeft ==
    ASSUME heap \in Heaps, NEW x \in BufferObject, Kept(x), x.references # 0, Stored(heap, x),
           NEW required \in Nat, required <= CapacityOf(x),
           NEW k \in Heaps, NEW p, k = ReservedHeap(x, required, p)
    PROVE  Stocks(heap, x, k, x, required)
<1>1. required <= Len(Stock(heap, x)) /\ ~(required > CapacityOf(x))
    <2>1. CapacityOf(x) <= Len(Stock(heap, x)) /\ CapacityOf(x) \in Nat /\ Len(Stock(heap, x)) \in Nat
        BY StockType, BuffersAssumption, HeaderFacts DEF CapacityOf, Kept, BufferObject
    <2>2. QED
        BY <2>1
<1>2. CASE x.storage = "flat"
    <2>1. x.owner \in Owners
        BY <1>2 DEF Kept
    <2>2. k = [heap EXCEPT ![x.owner].length = required]
        BY <1>1, <1>2 DEF ReservedHeap
    <2>3. heap \in [Owners -> FlatHeader]
        BY DEF Heaps
    <2>4. /\ k[x.owner].bytes = heap[x.owner].bytes /\ k[x.owner].start = heap[x.owner].start
          /\ \A q \in Owners : q # x.owner => k[q] = heap[q]
        BY <2>1, <2>2, <2>3 DEF FlatHeader
    <2>5. Stock(k, x) = Stock(heap, x)
        BY <1>2, <2>4 DEF Stock
    <2> HIDE <2>2
    <2>6. Stored(k, x)
        BY <2>4, <2>5 DEF Stored
    <2>7. BytesOf(k, x) = BytesOf(heap, x)
        BY <2>5, <2>6, SameBytes DEF Stored
    <2>8. QED
        BY <1>1, <2>4, <2>5, <2>6, <2>7 DEF Stocks
<1>3. CASE x.storage # "flat"
    <2>1. k = heap
        BY <1>1, <1>3 DEF ReservedHeap
    <2>2. QED
        BY <1>1, <2>1 DEF Stocks
<1>4. QED
    BY <1>2, <1>3

\* realloc keeps the bytes of a flat Buffer.
LEMMA RoomGrown ==
    ASSUME heap \in Heaps, NEW x \in BufferObject, Kept(x), x.references # 0, Stored(heap, x),
           x.storage = "flat", heap[x.owner].references = 1,
           NEW required \in 0..SizeMax, required > CapacityOf(x),
           NEW p \in {x.owner} \cup Fresh(heap),
           NEW k \in Heaps, k = ReservedHeap(x, required, p),
           NEW y \in BufferObject, Kept(y), y.storage = "flat", y.owner = p, y.count = x.count
    PROVE  Stocks(heap, x, k, y, required)
<1> DEFINE o == x.owner
           c == Capacity(required)
<1>1. o \in Owners /\ p \in Owners /\ c \in Nat /\ c >= required /\ required \in Nat
    BY Sizes DEF Kept, Fresh
<1>2. /\ Stock(heap, x) = heap[o].bytes /\ Len(Stock(heap, x)) = heap[o].capacity
      /\ heap[o].capacity \in Nat /\ x.count \in Nat
      /\ x.count <= heap[o].capacity /\ heap[o].capacity < required
    BY <1>1, StockType, HeaderFacts DEF Stored, CapacityOf
<1> DEFINE g == Realloc(heap, o, p, c)
<1>3. /\ g[p].start = heap[o].start /\ g[p].capacity = c /\ g[p].references = 1
      /\ \A i \in 1..c : i \in 1..heap[o].capacity => g[p].bytes[i] = heap[o].bytes[i]
      /\ \A q \in Owners \ {o, p} : g[q] = heap[q]
      /\ p # o => g[o].references = 0
    BY <1>1, ReallocReads
<1>4. g \in Heaps
    BY <1>1, ReallocHeap
<1>5. k = [g EXCEPT ![p].length = required]
    BY DEF ReservedHeap
<1> HIDE DEF g, c
<1>6. /\ k[p].bytes = g[p].bytes /\ k[p].start = g[p].start /\ k[p].capacity = g[p].capacity
      /\ \A q \in Owners : q # p => k[q] = g[q]
    <2>1. g \in [Owners -> FlatHeader]
        BY <1>4 DEF Heaps
    <2>2. QED
        BY <1>1, <1>5, <2>1 DEF FlatHeader
<1> HIDE <1>5
<1>7. Stock(k, y) = k[p].bytes /\ Len(Stock(k, y)) = c
    BY <1>3, <1>6, StockType
<1>8. \A i \in 1..x.count : Stock(k, y)[i] = Stock(heap, x)[i]
    BY <1>1, <1>2, <1>3, <1>6, <1>7
<1>9. y.count <= Len(Stock(k, y)) /\ required <= Len(Stock(k, y))
    BY <1>1, <1>2, <1>7
<1>10. Stored(k, y)
    BY <1>3, <1>6, <1>8, <1>9 DEF Stored
<1>11. x.count <= Len(Stock(heap, x))
    BY <1>2
<1>12. BytesOf(k, y) = BytesOf(heap, x)
    BY <1>8, <1>9, <1>11, SameBytes
<1>13. /\ \A q \in Owners : q \notin {o, p} => k[q] = heap[q]
       /\ o # p => ~(k[o].references >= 1)
    BY <1>1, <1>3, <1>6
<1>14. QED
    BY <1>9, <1>10, <1>12, <1>13 DEF Stocks

LEMMA FlatBytesAt ==
    ASSUME NEW content \in Seq(Cell), NEW capacity \in Nat, Len(content) <= capacity, NEW y,
           y = FlatOwner(content, capacity, 0)
    PROVE  /\ y.start = 0 /\ y.capacity = capacity
           /\ \A i \in 1..Len(content) : y.bytes[i] = content[i]
<1>1. y.start = 0 /\ y.capacity = capacity /\ y.bytes = Write(<<>>, capacity, 0, content)
    BY DEF FlatOwner
<1>2. ASSUME NEW i \in 1..Len(content)
      PROVE  y.bytes[i] = content[i]
    <2>1. i \in 1..capacity /\ i \in (0 + 1)..(0 + Len(content)) /\ i - 0 = i
        OBVIOUS
    <2>2. Write(<<>>, capacity, 0, content)[i] = content[i - 0]
        BY <2>1, WriteAt
    <2>3. QED
        BY <1>1, <2>1, <2>2
<1>3. QED
    BY <1>1, <1>2

\* A Buffer that leaves its inline storage takes its bytes along.
LEMMA RoomMoved ==
    ASSUME heap \in Heaps, NEW x \in BufferObject, Kept(x), x.references # 0, Stored(heap, x),
           x.storage # "flat", NEW required \in 0..SizeMax, required > CapacityOf(x),
           NEW p \in Fresh(heap), NEW k \in Heaps, k = ReservedHeap(x, required, p),
           NEW y \in BufferObject, Kept(y), y.storage = "flat", y.owner = p, y.count = x.count
    PROVE  Stocks(heap, x, k, y, required)
<1> DEFINE c == Capacity(required)
           bytes == BytesOf(heap, x)
           w == FlatOwner(bytes, c, 0)
<1>1. p \in Owners /\ c \in Nat /\ c >= required /\ required \in Nat
    BY Sizes DEF Fresh
<1>2. x.count \in Nat /\ x.count <= CapacityOf(x) /\ CapacityOf(x) \in Nat
    BY StockType, BuffersAssumption, Sizes DEF CapacityOf, Kept, BufferObject
<1>3. bytes \in Seq(Cell) /\ Len(bytes) = x.count /\ Len(bytes) <= c
    BY <1>1, <1>2, BytesType
<1>4. \A i \in 1..x.count : bytes[i] = Stock(heap, x)[i]
    BY BytesAt DEF Stored
<1>5. k = [heap EXCEPT ![p] = [w EXCEPT !.length = required]]
    BY DEF ReservedHeap
<1> HIDE DEF bytes
<1>6. w.start = 0 /\ w.capacity = c /\ \A i \in 1..x.count : w.bytes[i] = bytes[i]
    BY <1>1, <1>3, FlatBytesAt
<1>7. w \in FlatHeader
    BY <1>1, <1>3, FlatOwnerType
<1> HIDE DEF w, c
<1>8. /\ k[p].bytes = w.bytes /\ k[p].start = w.start /\ k[p].capacity = w.capacity
      /\ \A q \in Owners : q # p => k[q] = heap[q]
    <2>1. heap \in [Owners -> FlatHeader]
        BY DEF Heaps
    <2>2. QED
        BY <1>1, <1>5, <1>7, <2>1 DEF FlatHeader
<1> HIDE <1>5
<1>9. Stock(k, y) = k[p].bytes /\ Len(Stock(k, y)) = c
    BY <1>6, <1>8, StockType
<1>10. \A i \in 1..x.count : Stock(k, y)[i] = Stock(heap, x)[i]
    BY <1>4, <1>6, <1>8, <1>9
<1>11. y.count <= Len(Stock(k, y)) /\ required <= Len(Stock(k, y))
    BY <1>1, <1>2, <1>9
<1>12. Stored(k, y)
    BY <1>6, <1>8, <1>10, <1>11 DEF Stored
<1>13. BytesOf(k, y) = BytesOf(heap, x)
    BY <1>10, <1>11, SameBytes DEF Stored
<1>14. x.owner \notin Owners
    BY DEF Kept
<1>15. QED
    BY <1>8, <1>11, <1>12, <1>13, <1>14 DEF Stocks

LEMMA ReserveReads ==
    ASSUME heap \in Heaps, NEW x \in BufferObject, Kept(x), x.references # 0, Stored(heap, x),
           x.owner \in Owners => heap[x.owner].references = 1,
           NEW required \in 0..SizeMax, NEW p \in ReservePlaces(x, required),
           NEW k, k = ReservedHeap(x, required, p), NEW y, y = ReservedBuffer(x, required, p)
    PROVE  Reserves(heap, x, k, y) /\ Stocks(heap, x, k, y, required)
<1>1. Reserves(heap, x, k, y)
    BY ReserveTypes
<1>2. k \in Heaps /\ y \in BufferObject /\ Kept(y) /\ y.count = x.count /\ required \in Nat
    BY <1>1, Sizes DEF Reserves
<1>3. CapacityOf(x) \in Nat
    BY BuffersAssumption, HeaderFacts DEF CapacityOf, Kept, BufferObject
<1>4. CASE required <= CapacityOf(x)
    <2>1. y = x
        BY <1>4 DEF ReservedBuffer
    <2>2. Stocks(heap, x, k, x, required)
        BY <1>2, <1>4, RoomLeft
    <2>3. QED
        BY <1>1, <2>1, <2>2
<1>5. CASE ~(required <= CapacityOf(x))
    <2>1. required > CapacityOf(x)
        BY <1>2, <1>3, <1>5
    <2>2. y.storage = "flat" /\ y.owner = p
        <3>1. y = [x EXCEPT !.storage = "flat", !.owner = p, !.inline = <<>>]
            BY <1>5 DEF ReservedBuffer
        <3>2. QED
            BY <3>1 DEF BufferObject
    <2>3. CASE x.storage = "flat"
        <3>1. p \in {x.owner} \cup Fresh(heap) /\ heap[x.owner].references = 1
            BY <1>5, <2>3 DEF ReservePlaces, Kept
        <3>2. QED
            BY <1>1, <1>2, <2>1, <2>2, <2>3, <3>1, RoomGrown
    <2>4. CASE x.storage # "flat"
        <3>1. p \in Fresh(heap)
            BY <1>5, <2>4 DEF ReservePlaces
        <3>2. QED
            BY <1>1, <1>2, <2>1, <2>2, <2>4, <3>1, RoomMoved
    <2>5. QED
        BY <2>3, <2>4
<1>6. QED
    BY <1>4, <1>5

-----------------------------------------------------------------------------
(* The Buffers' own operations, read. *)

LEMMA HandledStored ==
    ASSUME DInv, NEW h \in Handles, handle[h] # None
    PROVE  Stored(heap, buffer[handle[h]])
BY HandledBuffer, DInvCounts DEF DInv, AllStored

\* The owners that the Buffer b is on before or after the step are all that it touches, and
\* one it leaves is freed.
Touches(b, x) ==
    /\ \A q \in Owners : q \notin {buffer[b].owner, x.owner} => heap'[q] = heap[q]
    /\ buffer[b].owner \in Owners /\ buffer[b].owner # x.owner
          => ~(heap'[buffer[b].owner].references >= 1)

LEMMA BufferReads ==
    ASSUME DInv, CInv', NEW b \in Buffers, NEW x, Puts(b, x), UNCHANGED <<live, view>>,
           Touches(b, x), Stored(heap', x)
    PROVE  DInv' /\ Alike(live) /\ OthersSame(b)
<1>1. CInv
    BY DInvCounts
<1>2. buffer'[b] = x /\ \A c \in Buffers : c # b => buffer'[c] = buffer[c]
    BY <1>1, PutFacts DEF CInv
<1>3. \A q \in Owners : heap'[q] = heap[q] /\ heap'[q].references >= 1
                        => heap[q].references >= 1 /\ Serves(heap, heap', q)
    BY DEF Serves
<1>4. Restocks(b, x, None)
    BY <1>3, NoneIsNoOwner DEF Restocks, Touches
<1>5. live \subseteq live /\ \A c \in live : c \in live' /\ view'[c] = view[c]
    OBVIOUS
<1>6. \A c \in live' : c \in live
    OBVIOUS
<1>7. QED
    BY <1>2, <1>4, <1>5, <1>6, ObjectReads

LEMMA NewReads ==
    ASSUME DInv, NEW h \in Handles, NEW v \in NewBytes, BufferNew(h, v), NEW b, b = handle[h]
    PROVE  /\ DInv' /\ Alike(live) /\ OthersSame(b)
           /\ BytesOf(heap', buffer'[b]) = Append(BytesOf(heap, buffer[b]), v)
<1> DEFINE x == buffer[b]
<1>0. CInv /\ CInv'
    BY DInvCounts, NewCounts
<1>1. handle[h] # None /\ x.count < MaxLength /\ UNCHANGED <<live, view>>
    BY DEF BufferNew
<1>2. PICK p \in ReservePlaces(x, x.count + 1) :
         LET y == ReservedBuffer(x, x.count + 1, p)
         IN  /\ heap' = StoredHeap(ReservedHeap(x, x.count + 1, p), y, x.count, v)
             /\ buffer' = [buffer EXCEPT ![b] = [StoredBuffer(y, x.count, v) EXCEPT !.count = @ + 1]]
    BY DEF BufferNew
<1> DEFINE y == ReservedBuffer(x, x.count + 1, p)
           k == ReservedHeap(x, x.count + 1, p)
           z == Appended(x, y, v)
<1>3. /\ b \in Buffers /\ x \in BufferObject /\ Kept(x) /\ x.references # 0 /\ x.count \in Nat
      /\ x.owner \in Owners => heap[x.owner].references = 1
      /\ heap \in Heaps /\ Stored(heap, x)
    BY <1>0, <1>1, HandledBuffer, HandledStored
<1>4. heap' = StoredHeap(k, y, x.count, v) /\ Puts(b, z)
    BY <1>2 DEF Puts, Appended
<1>5. x = buffer[b]
    OBVIOUS
<1> HIDE DEF x
<1>6. v \in Cell /\ v # Junk
    BY NewByteCell
<1>7. /\ z \in BufferObject /\ Kept(z) /\ z.references = x.references
      /\ z.owner = y.owner /\ z.storage = y.storage /\ z.count = x.count + 1
      /\ z.inline = StoredBuffer(y, x.count, v).inline
    BY <1>1, <1>3, <1>6, AppendedTypes
<1>8. Reserves(heap, x, k, y) /\ Stocks(heap, x, k, y, x.count + 1)
    <2>1. x.count + 1 \in 0..SizeMax
        BY <1>1, <1>3, Sizes
    <2>2. QED
        BY <1>3, <2>1, ReserveReads
<1> HIDE DEF y, k, z
<1>9. /\ k \in Heaps /\ y \in BufferObject /\ Kept(y) /\ y.references # 0 /\ y.count = x.count
      /\ Stored(k, y) /\ BytesOf(k, y) = BytesOf(heap, x) /\ x.count + 1 <= Len(Stock(k, y))
    BY <1>3, <1>8 DEF Reserves, Stocks
<1>10. y.count < Len(Stock(k, y))
    <2>1. Len(Stock(k, y)) \in Nat
        BY <1>9, StockType
    <2>2. QED
        BY <1>3, <1>9, <2>1
<1>11. PICK g : g = heap'
    OBVIOUS
<1>12. g = StoredHeap(k, y, y.count, v) /\ z.count = y.count + 1
       /\ z.inline = StoredBuffer(y, y.count, v).inline
    BY <1>4, <1>7, <1>9, <1>11
<1>13. Stored(g, z) /\ BytesOf(g, z) = Append(BytesOf(k, y), v)
    BY <1>6, <1>7, <1>9, <1>10, <1>12, AppendedBytes
<1>14. \A q \in Owners : g[q].references = k[q].references /\ (q # y.owner => g[q] = k[q])
    <2>1. y.storage = "flat" => y.owner \in Owners
        BY <1>9 DEF Kept
    <2>2. y.count \in Nat
        BY <1>3, <1>9
    <2>3. k \in Heaps /\ v \in Cell
        BY <1>6, <1>9
    <2>4. \A q \in Owners : g[q].references = k[q].references
        BY <1>12, <2>1, <2>2, <2>3, StoredHeapFacts
    <2>5. \A q \in Owners : q # y.owner => g[q] = k[q]
        BY <1>12, <2>1, <2>2, <2>3, StoredHeapFacts
    <2>6. QED
        BY <2>4, <2>5
<1>15. Touches(b, z)
    <2>1. \A q \in Owners : q \notin {x.owner, y.owner} => k[q] = heap[q]
        BY <1>8 DEF Stocks
    <2>2. x.owner \in Owners /\ x.owner # y.owner => ~(k[x.owner].references >= 1)
        BY <1>8 DEF Stocks
    <2>3. QED
        BY <1>5, <1>7, <1>11, <1>14, <2>1, <2>2 DEF Touches
<1>16. Stored(heap', z)
    BY <1>11, <1>13
<1>17. DInv' /\ Alike(live) /\ OthersSame(b)
    BY <1>0, <1>1, <1>3, <1>4, <1>15, <1>16, BufferReads
<1>18. buffer'[b] = z
    BY <1>0, <1>3, <1>4, PutFacts DEF CInv
<1>19. QED
    BY <1>5, <1>9, <1>11, <1>13, <1>17, <1>18

LEMMA ReplaceReads ==
    ASSUME DInv, NEW h \in Handles, NEW v \in NewBytes, NEW i \in 0..MaxLength, BufferReplace(h, i, v),
           NEW b, b = handle[h]
    PROVE  /\ DInv' /\ Alike(live) /\ OthersSame(b)
           /\ i + 1 \in DOMAIN BytesOf(heap, buffer[b])
           /\ BytesOf(heap', buffer'[b]) = [BytesOf(heap, buffer[b]) EXCEPT ![i + 1] = v]
<1> DEFINE x == buffer[b]
           z == StoredBuffer(x, i, v)
<1>0. CInv /\ CInv'
    BY DInvCounts, ReplaceCounts
<1>1. handle[h] # None /\ i < x.count /\ UNCHANGED <<live, view>>
    BY DEF BufferReplace
<1>2. /\ b \in Buffers /\ x \in BufferObject /\ Kept(x) /\ x.references # 0 /\ heap \in Heaps
      /\ Stored(heap, x)
    BY <1>0, <1>1, HandledBuffer, HandledStored
<1>3. heap' = StoredHeap(heap, x, i, v) /\ Puts(b, z)
    <2>1. buffer \in [Buffers -> BufferObject]
        BY <1>0, BInvFacts DEF CInv
    <2>2. buffer' = [buffer EXCEPT ![b] = StoredBuffer(buffer[b], i, v)]
        BY <1>2, <2>1 DEF BufferReplace
    <2>3. QED
        BY <2>2 DEF Puts, BufferReplace
<1>4. v \in Cell /\ v # Junk /\ i \in Nat
    BY NewByteCell, Sizes
<1>5. x = buffer[b]
    OBVIOUS
<1> HIDE DEF x
<1>6. z = StoredBuffer(x, i, v)
    OBVIOUS
<1> HIDE DEF z
<1>7. PICK k : k = heap'
    OBVIOUS
<1>8. k = StoredHeap(heap, x, i, v)
    BY <1>3, <1>7
<1>9. /\ Stored(k, z) /\ i + 1 \in DOMAIN BytesOf(heap, x)
      /\ BytesOf(k, z) = [BytesOf(heap, x) EXCEPT ![i + 1] = v]
    BY <1>1, <1>2, <1>4, <1>6, <1>8, ReplacedBytes
<1>10. StoreLeaves(heap, x, i, v, k, z)
    BY <1>2, <1>4, <1>6, <1>8, StoreReads
<1>11. Touches(b, z)
    BY <1>5, <1>7, <1>10 DEF Touches, StoreLeaves
<1>12. DInv' /\ Alike(live) /\ OthersSame(b)
    <2>1. Stored(heap', z)
        BY <1>7, <1>9
    <2>2. QED
        BY <1>0, <1>1, <1>2, <1>3, <1>11, <2>1, BufferReads
<1>13. buffer'[b] = z
    BY <1>0, <1>2, <1>3, PutFacts DEF CInv
<1>14. QED
    BY <1>5, <1>7, <1>9, <1>12, <1>13

LEMMA TruncateReads ==
    ASSUME DInv, NEW h \in Handles, NEW n \in 0..MaxLength, BufferTruncate(h, n), NEW b, b = handle[h]
    PROVE  /\ DInv' /\ Alike(live) /\ OthersSame(b)
           /\ n \in 0..Len(BytesOf(heap, buffer[b]))
           /\ BytesOf(heap', buffer'[b]) = SubSeq(BytesOf(heap, buffer[b]), 1, n)
<1> DEFINE x == buffer[b]
           z == [x EXCEPT !.count = n]
<1>0. CInv /\ CInv'
    BY DInvCounts, TruncateCounts
<1>1. handle[h] # None /\ n < x.count /\ UNCHANGED <<live, view>> /\ heap' = heap
    BY DEF BufferTruncate, vars
<1>2. /\ b \in Buffers /\ x \in BufferObject /\ Kept(x) /\ x.references # 0 /\ heap \in Heaps
      /\ x.count \in Nat /\ Stored(heap, x)
    BY <1>0, <1>1, HandledBuffer, HandledStored
<1>3. Puts(b, z)
    BY DEF BufferTruncate, Puts
<1>4. x = buffer[b]
    OBVIOUS
<1> HIDE DEF x
<1>5. n \in Nat
    BY Sizes
<1>6. /\ x.storage = "inline" => n <= InlineBytes
      /\ x.storage = "none" => n = 0
    <2>1. InlineBytes \in Nat
        BY BuffersAssumption
    <2>2. x.storage = "inline" => x.count <= InlineBytes
        BY <1>2 DEF Kept
    <2>3. x.storage = "none" => x.count = 0
        BY <1>2 DEF Kept
    <2>4. QED
        BY <1>1, <1>2, <1>5, <2>1, <2>2, <2>3
<1>7. /\ z \in BufferObject /\ Kept(z) /\ z.count = n /\ z.storage = x.storage
      /\ z.owner = x.owner /\ z.inline = x.inline
    BY <1>2, <1>6, CountedBuffer
<1> HIDE DEF z
<1>8. Stored(heap, z) /\ BytesOf(heap, z) = SubSeq(BytesOf(heap, x), 1, n)
    BY <1>1, <1>2, <1>5, <1>7, TruncatedBytes
<1>9. n \in 0..Len(BytesOf(heap, x))
    BY <1>1, <1>2, <1>5, BytesType
<1>10. Touches(b, z)
    BY <1>1, <1>4, <1>7 DEF Touches
<1>11. DInv' /\ Alike(live) /\ OthersSame(b)
    BY <1>0, <1>1, <1>2, <1>3, <1>8, <1>10, BufferReads
<1>12. buffer'[b] = z
    BY <1>0, <1>2, <1>3, PutFacts DEF CInv
<1>13. QED
    BY <1>1, <1>4, <1>8, <1>9, <1>11, <1>12

LEMMA BufferReserveReads ==
    ASSUME DInv, NEW h \in Handles, NEW n \in 0..MaxLength, BufferReserve(h, n), NEW b, b = handle[h]
    PROVE  /\ DInv' /\ Alike(live) /\ OthersSame(b)
           /\ BytesOf(heap', buffer'[b]) = BytesOf(heap, buffer[b])
<1> DEFINE x == buffer[b]
<1>0. CInv /\ CInv'
    BY DInvCounts, ReserveCounts
<1>1. handle[h] # None /\ UNCHANGED <<live, view>>
    BY DEF BufferReserve
<1>2. /\ b \in Buffers /\ x \in BufferObject /\ Kept(x) /\ x.references # 0 /\ heap \in Heaps
      /\ (x.owner \in Owners => heap[x.owner].references = 1) /\ Stored(heap, x)
    BY <1>0, <1>1, HandledBuffer, HandledStored
<1>3. PICK p \in ReservePlaces(x, n) :
         /\ heap' = ReservedHeap(x, n, p)
         /\ buffer' = [buffer EXCEPT ![b] = ReservedBuffer(@, n, p)]
    BY DEF BufferReserve
<1> DEFINE y == ReservedBuffer(x, n, p)
<1>4. Puts(b, y)
    <2>1. buffer \in [Buffers -> BufferObject]
        BY <1>0, BInvFacts DEF CInv
    <2>2. QED
        BY <1>2, <1>3, <2>1 DEF Puts
<1>5. x = buffer[b]
    OBVIOUS
<1> HIDE DEF x
<1>6. Stocks(heap, x, heap', y, n)
    <2>1. n \in 0..SizeMax
        BY Sizes
    <2>2. PICK k : k = heap'
        OBVIOUS
    <2>3. k = ReservedHeap(x, n, p)
        BY <1>3, <2>2
    <2>4. Stocks(heap, x, k, y, n)
        BY <1>2, <2>1, <2>3, ReserveReads
    <2>5. QED
        BY <2>2, <2>4
<1> HIDE DEF y
<1>7. Touches(b, y)
    BY <1>5, <1>6 DEF Touches, Stocks
<1>8. Stored(heap', y) /\ BytesOf(heap', y) = BytesOf(heap, x)
    BY <1>6 DEF Stocks
<1>9. DInv' /\ Alike(live) /\ OthersSame(b)
    BY <1>0, <1>1, <1>2, <1>4, <1>7, <1>8, BufferReads
<1>10. buffer'[b] = y
    BY <1>0, <1>2, <1>4, PutFacts DEF CInv
<1>11. QED
    BY <1>5, <1>8, <1>9, <1>10

LEMMA NoCells ==
    ASSUME NEW h \in Heaps, NEW x \in BufferObject, Kept(x), x.count = 0,
           x.storage = "flat" => h[x.owner].start = 0
    PROVE  Stored(h, x) /\ BytesOf(h, x) = <<>>
<1>1. BytesOf(h, x) \in Seq(Cell) /\ Len(BytesOf(h, x)) = 0 /\ Len(Stock(h, x)) \in Nat
    BY BytesType, StockType
<1>2. BytesOf(h, x) = <<>>
    BY <1>1
<1>3. QED
    BY <1>1, <1>2 DEF Stored

LEMMA MakeReads ==
    ASSUME DInv, NEW h \in Handles, NEW capacity \in 0..MaxLength, BufferMake(h, capacity)
    PROVE  \E b \in FreshBuffers : /\ DInv' /\ Alike(live) /\ OthersSame(b) /\ Hands(h, b)
                                   /\ BytesOf(heap', buffer'[b]) = <<>>
<1>0. CInv /\ CInv'
    BY DInvCounts, MakeCounts
<1>1. PICK b \in FreshBuffers, p \in MakePlaces(capacity) :
         /\ heap' = MadeHeap(heap, capacity, p)
         /\ Puts(b, Made(capacity, p)) /\ Hands(h, b)
    BY DEF BufferMake, Puts, Hands
<1> DEFINE x == Made(capacity, p)
<1>2. /\ x \in BufferObject /\ Kept(x) /\ x.owner = p /\ x.count = 0
      /\ p = None \/ p \in Fresh(heap)
    BY MadeTypes
<1>3. b \in Buffers /\ buffer[b].owner = None /\ heap \in Heaps
    BY <1>0, FreshBuffer, BInvFacts DEF CInv
<1>4. UNCHANGED <<live, view>>
    BY DEF BufferMake
<1>5. /\ p \in Owners => heap'[p] = FlatOwner(<<>>, capacity, 0)
      /\ \A q \in Owners : q # p => heap'[q] = heap[q]
    <2>1. heap \in [Owners -> FlatHeader]
        BY <1>3 DEF Heaps
    <2>2. QED
        BY <1>1, <2>1, NoneIsNoOwner DEF MadeHeap
<1>6. x.storage = "flat" => heap'[x.owner].start = 0
    BY <1>2, <1>5 DEF Kept, FlatOwner
<1> HIDE DEF x
<1>7. heap' \in Heaps
    <2>1. BInv'
        BY <1>0 DEF CInv
    <2>2. TypeOK'
        BY <2>1 DEF BInv, Held, IInv
    <2>3. QED
        BY <2>2 DEF TypeOK, Heaps
<1>8. Stored(heap', x) /\ BytesOf(heap', x) = <<>>
    BY <1>2, <1>6, <1>7, NoCells
<1>9. Touches(b, x)
    BY <1>2, <1>3, <1>5, NoneIsNoOwner DEF Touches
<1>10. Puts(b, x)
    BY <1>1 DEF x
<1>11. DInv' /\ Alike(live) /\ OthersSame(b)
    BY <1>0, <1>3, <1>4, <1>8, <1>9, <1>10, BufferReads
<1>12. buffer'[b] = x
    BY <1>0, <1>3, <1>10, PutFacts DEF CInv
<1>13. QED
    BY <1>1, <1>8, <1>11, <1>12

\* A Buffer object with the same storage and count.
LEMMA SameStorage ==
    ASSUME NEW h, NEW x, NEW z, z.owner = x.owner, z.storage = x.storage, z.inline = x.inline,
           z.count = x.count, Stored(h, x)
    PROVE  Stored(h, z) /\ BytesOf(h, z) = BytesOf(h, x)
BY DEF Stored, Stock, BytesOf

LEMMA RetainReads ==
    ASSUME DInv, NEW h \in Handles, NEW g \in Handles, BufferRetain(h, g), NEW b, b = handle[h]
    PROVE  /\ DInv' /\ Alike(live) /\ OthersSame(b) /\ Hands(g, b)
           /\ BytesOf(heap', buffer'[b]) = BytesOf(heap, buffer[b])
<1> DEFINE x == buffer[b]
           y == [x EXCEPT !.references = x.references + 1]
<1>0. CInv /\ CInv'
    BY DInvCounts, RetainCounts
<1>1. handle[h] # None /\ UNCHANGED <<live, view>> /\ heap' = heap
    BY DEF BufferRetain, vars
<1>2. /\ b \in Buffers /\ x \in BufferObject /\ Kept(x) /\ x.references # 0 /\ x.references \in Nat
      /\ Stored(heap, x)
    BY <1>0, <1>1, HandledBuffer, HandledStored
<1>3. Puts(b, y) /\ Hands(g, b)
    <2>1. buffer \in [Buffers -> BufferObject]
        BY <1>0, BInvFacts DEF CInv
    <2>2. QED
        BY <1>2, <2>1 DEF BufferRetain, Puts, Hands
<1>4. x = buffer[b]
    OBVIOUS
<1> HIDE DEF x
<1>5. /\ y.owner = x.owner /\ y.storage = x.storage /\ y.inline = x.inline /\ y.count = x.count
    <2>1. x.references + 1 \in Nat /\ x.references + 1 # 0
        BY <1>2
    <2>2. QED
        BY <1>2, <2>1, RecountedBuffer
<1> HIDE DEF y
<1>6. Stored(heap, y) /\ BytesOf(heap, y) = BytesOf(heap, x)
    BY <1>2, <1>5, SameStorage
<1>7. Touches(b, y)
    BY <1>1, <1>4, <1>5 DEF Touches
<1>8. DInv' /\ Alike(live) /\ OthersSame(b)
    BY <1>0, <1>1, <1>2, <1>3, <1>6, <1>7, BufferReads
<1>9. buffer'[b] = y
    BY <1>0, <1>2, <1>3, PutFacts DEF CInv
<1>10. QED
    BY <1>1, <1>3, <1>4, <1>6, <1>8, <1>9

\* The last handle of a Buffer frees the owner it was on and blanks it, another changes nothing
\* that is read.
LEMMA LeftReads ==
    ASSUME NEW h \in Heaps, NEW bs, NEW b \in Buffers, NEW x, x = bs[b], x \in BufferObject, Kept(x),
           x.references # 0, Stored(h, x), x.owner \in Owners => h[x.owner].references = 1,
           NEW k, k = HeapWithout(h, bs, b)
    PROVE  /\ k \in Heaps /\ Stored(k, Left(x))
           /\ x.references # 1 => BytesOf(k, Left(x)) = BytesOf(h, x) /\ k = h
           /\ \A q \in Owners : q # x.owner => k[q] = h[q]
           /\ x.references = 1 /\ x.owner \in Owners => ~(k[x.owner].references >= 1)
<1>1. CASE x.references = 1
    <2>1. k = Release(h, x.owner) /\ Left(x) = NoBuffer
        BY <1>1 DEF HeapWithout, Left
    <2>2. x.owner \in Owners => h[x.owner].references >= 1
        OBVIOUS
    <2>3. k \in Heaps /\ \A q \in Owners : k[q].references = h[q].references - (IF q = x.owner THEN 1 ELSE 0)
        BY <2>1, <2>2, ReleaseHeap
    <2>4. \A q \in Owners : q # x.owner => k[q] = h[q]
        BY <2>1, ReleaseQuiet
    <2>5. Stored(k, NoBuffer)
        BY <2>3, BlankBuffer, NoCells DEF NoBuffer
    <2>6. x.owner \in Owners => ~(k[x.owner].references >= 1)
        BY <2>3
    <2>7. QED
        BY <1>1, <2>1, <2>3, <2>4, <2>5, <2>6
<1>2. CASE x.references # 1
    <2>1. k = h /\ Left(x) = [x EXCEPT !.references = x.references - 1]
        BY <1>2 DEF HeapWithout, Left
    <2>2. Left(x).owner = x.owner /\ Left(x).storage = x.storage /\ Left(x).inline = x.inline
          /\ Left(x).count = x.count
        BY <2>1 DEF BufferObject
    <2>3. Stored(h, Left(x)) /\ BytesOf(h, Left(x)) = BytesOf(h, x)
        BY <2>2, SameStorage
    <2>4. QED
        BY <1>2, <2>1, <2>3
<1>3. QED
    BY <1>1, <1>2

LEMMA ReleaseReads ==
    ASSUME DInv, NEW h \in Handles, BufferRelease(h), NEW b, b = handle[h]
    PROVE  /\ DInv' /\ Alike(live) /\ OthersSame(b) /\ Hands(h, None)
           /\ buffer[b].references # 1 => BytesOf(heap', buffer'[b]) = BytesOf(heap, buffer[b])
<1>0. CInv /\ CInv'
    BY DInvCounts, ReleaseCounts
<1>1. /\ handle[h] # None /\ UNCHANGED <<live, view>> /\ heap' = HeapWithout(heap, buffer, b)
      /\ buffer' = ReleasedBuffers(buffer, b) /\ Hands(h, None)
    BY DEF BufferRelease, Hands
<1> DEFINE x == buffer[b]
           y == Left(x)
<1>2. /\ b \in Buffers /\ x \in BufferObject /\ Kept(x) /\ x.references # 0
      /\ heap \in Heaps /\ (x.owner \in Owners => heap[x.owner].references = 1)
      /\ x = buffer[b] /\ buffer \in [Buffers -> BufferObject] /\ Stored(heap, x)
    BY <1>0, <1>1, HandledBuffer, HandledStored, BInvFacts DEF CInv
<1> HIDE DEF x
<1>3. Puts(b, y)
    BY <1>0, <1>1, <1>2, ReleasedPuts DEF Puts
<1>4. PICK k : k = heap'
    OBVIOUS
<1>5. /\ k \in Heaps /\ Stored(k, y)
      /\ x.references # 1 => BytesOf(k, y) = BytesOf(heap, x) /\ k = heap
      /\ \A q \in Owners : q # x.owner => k[q] = heap[q]
      /\ x.references = 1 /\ x.owner \in Owners => ~(k[x.owner].references >= 1)
    BY <1>1, <1>2, <1>4, LeftReads
<1>6. y.owner = IF x.references = 1 THEN None ELSE x.owner
    BY <1>2, LeftTypes
<1> HIDE DEF y
<1>7. Touches(b, y)
    BY <1>2, <1>4, <1>5, <1>6 DEF Touches
<1>8. Stored(heap', y)
    BY <1>4, <1>5
<1>9. DInv' /\ Alike(live) /\ OthersSame(b)
    BY <1>0, <1>1, <1>2, <1>3, <1>7, <1>8, BufferReads
<1>10. buffer'[b] = y
    BY <1>0, <1>2, <1>3, PutFacts DEF CInv
<1>11. QED
    BY <1>1, <1>2, <1>4, <1>5, <1>9, <1>10

-----------------------------------------------------------------------------
(* Steps that leave the Buffers alone. *)

BuffersSame == \A c \in Buffers : BytesOf(heap', buffer'[c]) = BytesOf(heap, buffer[c])

LEMMA SteadyReads ==
    ASSUME DInv, NEW extra \in [Owners -> Nat], extra = HeldBy(buffer), WInv(extra)', Steady(extra),
           UNCHANGED bufferVars
    PROVE  DInv' /\ BuffersSame
<1>1. buffer' = buffer /\ handle' = handle
    BY DEF bufferVars
<1>2. WInv(extra) /\ Objects(buffer) /\ HandleCounts(buffer, handle) /\ AllStored(heap, buffer)
    BY DEF DInv
<1>3. heap \in Heaps
    BY <1>2, WInvFacts
<1>4. heap' \in Heaps
    <2>1. TypeOK'
        BY DEF WInv, Held, IInv
    <2>2. QED
        BY <2>1 DEF TypeOK, Heaps
<1>5. ASSUME NEW c \in Buffers
      PROVE  Stored(heap', buffer'[c]) /\ BytesOf(heap', buffer'[c]) = BytesOf(heap, buffer[c])
    <2>1. PICK y : y = buffer[c]
        OBVIOUS
    <2>2. PICK k : k = heap'
        OBVIOUS
    <2>3. y \in BufferObject /\ Kept(y) /\ Stored(heap, y)
        BY <1>2, <2>1 DEF Objects, AllStored
    <2>4. y.owner \in Owners => Serves(heap, k, y.owner)
        <3>1. y.owner \in Owners => extra[y.owner] = 1
            BY <2>1, HeldByType
        <3>2. QED
            BY <2>2, <3>1 DEF Steady
    <2>5. k \in Heaps
        BY <1>4, <2>2
    <2>6. Stored(k, y) /\ BytesOf(k, y) = BytesOf(heap, y)
        BY <1>3, <2>3, <2>4, <2>5, UntouchedBuffer
    <2>7. QED
        BY <1>1, <2>1, <2>2, <2>6
<1>6. AllStored(heap', buffer') /\ BuffersSame
    BY <1>5 DEF AllStored, BuffersSame
<1>7. extra = HeldBy(buffer') /\ Objects(buffer') /\ HandleCounts(buffer', handle')
    BY <1>1, <1>2
<1>8. QED
    BY <1>6, <1>7 DEF DInv

\* A step of the Symbols alone.
LEMMA SymbolsReads ==
    ASSUME ~AliasedOperands, DInv, [Next]_vars, UNCHANGED bufferVars
    PROVE  DInv' /\ BuffersSame
<1>1. PICK extra \in [Owners -> Nat] : extra = HeldBy(buffer) /\ WInv(extra)
    BY DEF DInv
<1>2. WInv(extra)' /\ Steady(extra)
    BY <1>1, NextWInv
<1>3. QED
    BY <1>1, <1>2, SteadyReads

\* The bytes of a Buffer in use are bytes.
LEMMA HandledBytes ==
    ASSUME DInv, NEW h \in Handles, handle[h] # None, NEW bytes, bytes = BytesOf(heap, buffer[handle[h]])
    PROVE  /\ bytes \in Seq(Cell) /\ Len(bytes) = buffer[handle[h]].count /\ Len(bytes) <= MaxLength
           /\ \A i \in 1..Len(bytes) : bytes[i] # Junk
<1> DEFINE x == buffer[handle[h]]
<1>1. /\ x \in BufferObject /\ Kept(x) /\ heap \in Heaps /\ x.count <= MaxLength
    BY DInvCounts, HandledBuffer, Sizes
<1>2. Stored(heap, x)
    BY HandledStored
<1>3. bytes \in Seq(Cell) /\ Len(bytes) = x.count
    BY <1>1, BytesType
<1>4. \A i \in 1..x.count : bytes[i] # Junk
    <2> TAKE i \in 1..x.count
    <2>1. bytes[i] = Stock(heap, x)[i]
        BY <1>1, <1>2, BytesAt DEF Stored
    <2>2. QED
        BY <1>2, <2>1 DEF Stored
<1>5. QED
    BY <1>1, <1>3, <1>4

LEMMA ToSymbolReads ==
    ASSUME DInv, NEW h \in Handles, NEW d \in Bindings, BufferToSymbol(h, d)
    PROVE  /\ DInv' /\ BuffersSame /\ UNCHANGED bufferVars
           /\ handle[h] # None /\ Becomes(d, BytesOf(heap, buffer[handle[h]]), {})
<1>1. /\ handle[h] # None /\ d \notin live /\ UNCHANGED lender /\ UNCHANGED bufferVars
      /\ BindCopy(d, BytesOf(heap, buffer[handle[h]]))
    BY DEF BufferToSymbol, bufferVars
<1>2. PICK bytes : bytes = BytesOf(heap, buffer[handle[h]])
    OBVIOUS
<1>3. /\ bytes \in Seq(Cell) /\ Len(bytes) <= MaxLength
      /\ \A i \in 1..Len(bytes) : bytes[i] # Junk
    BY <1>1, <1>2, HandledBytes
<1>4. PICK extra \in [Owners -> Nat] : extra = HeldBy(buffer) /\ WInv(extra)
    BY DEF DInv
<1>5. BindCopy(d, bytes)
    BY <1>1, <1>2
<1>6. Held(extra)'
    <2>1. IInv(extra)'
        BY <1>1, <1>3, <1>4, <1>5, BindCopyStep DEF WInv, Held
    <2>2. QED
        BY <1>1, <1>4, <1>5, <2>1, BindCopyHeld DEF WInv
<1>7. WInv(extra)' /\ Steady(extra) /\ Becomes(d, bytes, {})
    BY <1>1, <1>3, <1>4, <1>5, <1>6, CopyStep
<1>8. DInv' /\ BuffersSame
    BY <1>1, <1>4, <1>7, SteadyReads
<1>9. QED
    BY <1>1, <1>2, <1>7, <1>8

-----------------------------------------------------------------------------
(* A Buffer becomes a Symbol. *)

LEMMA GivesReads ==
    ASSUME DInv, CInv', NEW b \in Buffers, NEW x, Puts(b, x),
           NEW d \in Bindings, d \notin live, NEW v, Bind(d, v, {}), UNCHANGED lender,
           NEW new, Restocks(b, x, new), Stored(heap', x), InWindow(heap', v),
           NEW content, Read(heap', v.owner, v.data, v.length) = content
    PROVE  DInv' /\ OthersSame(b) /\ Becomes(d, content, {})
<1>1. PICK extra \in [Owners -> Nat] : extra = HeldBy(buffer) /\ Held(extra)
    BY DEF DInv, WInv
<1>2. Ends({}, None)
    BY NothingEnds
<1>3. /\ live' = live \cup {d} /\ view'[d] = v
      /\ \A c \in live : c \in live' /\ view'[c] = view[c]
    <2>1. /\ live' = (live \ {}) \cup {d} /\ view'[d] = v
          /\ \A c \in live \ {} : view'[c] = view[c]
        BY <1>1, <1>2, BindFacts DEF Held
    <2>2. QED
        BY <2>1
<1>4. buffer'[b] = x /\ \A c \in Buffers : c # b => buffer'[c] = buffer[c]
    BY DInvCounts, PutFacts DEF CInv
<1>5. \A c \in live' : c \in live \/ InWindow(heap', view'[c])
    BY <1>3
<1>6. DInv' /\ Alike(live) /\ OthersSame(b)
    BY <1>3, <1>4, <1>5, ObjectReads
<1>7. Contents(d)' = content
    BY <1>3 DEF Contents
<1>8. Becomes(d, content, {})
    <2>1. d \in Bindings \ live /\ {} \subseteq live /\ live' = (live \ {}) \cup {d}
        BY <1>3
    <2>2. \A c \in live \ {} : Contents(c)' = Contents(c)
        BY <1>6 DEF Alike
    <2>3. QED
        BY <1>7, <2>1, <2>2 DEF Becomes
<1>9. QED
    BY <1>6, <1>8

LEMMA IntoSymbolMovedReads ==
    ASSUME DInv, NEW h \in Handles, NEW d \in Bindings, BufferIntoSymbol(h, d),
           Movable(handle[h]), NEW b, b = handle[h]
    PROVE  /\ DInv' /\ OthersSame(b) /\ handle[h] # None /\ Hands(h, None)
           /\ Becomes(d, BytesOf(heap, buffer[b]), {})
           /\ buffer[b].references = 1
<1> DEFINE o == buffer[b].owner
           n == buffer[b].count
           v == [owner |-> o, data |-> 0, length |-> n]
           emptied == [buffer EXCEPT ![b].owner = None, ![b].storage = "none", ![b].count = 0]
<1>0. CInv /\ CInv'
    BY DInvCounts, IntoSymbolCounts
<1>1. /\ handle[h] # None /\ d \notin live /\ UNCHANGED lender /\ Hands(h, None)
      /\ heap' = MovedOut(heap, o, n) /\ Bind(d, v, {})
    BY DEF BufferIntoSymbol, Hands, MovedOut
<1>2. /\ b \in Buffers /\ buffer[b] \in BufferObject /\ Kept(buffer[b]) /\ heap \in Heaps
      /\ n \in Nat /\ n \in 0..MaxLength /\ buffer \in [Buffers -> BufferObject]
      /\ Stored(heap, buffer[b])
    BY <1>0, <1>1, HandledBuffer, HandledStored, BInvFacts DEF CInv
<1>3. /\ buffer[b].references = 1 /\ buffer[b].storage = "flat" /\ o \in Owners /\ o \notin Statics
      /\ heap[o].references = 1
      /\ NoBuffer \in BufferObject /\ Kept(NoBuffer) /\ NoBuffer.references = 0
      /\ NoBuffer.owner = None
    BY <1>2, BlankBuffer, OwnersAssumption DEF Movable, Kept
<1>4. Puts(b, NoBuffer)
    <2>1. emptied[b].references = 1
        BY <1>2, <1>3 DEF BufferObject
    <2>2. buffer' = [emptied EXCEPT ![b] = NoBuffer]
        BY <2>1 DEF BufferIntoSymbol, ReleasedBuffers
    <2>3. [emptied EXCEPT ![b] = NoBuffer] = [buffer EXCEPT ![b] = NoBuffer]
        BY <1>2
    <2>4. QED
        BY <2>2, <2>3 DEF Puts
<1> HIDE DEF emptied
<1>5. PICK k : k = heap'
    OBVIOUS
<1>6. o = buffer[b].owner /\ n = buffer[b].count
    OBVIOUS
<1>7. v.owner = o /\ v.data = 0 /\ v.length = n
    OBVIOUS
<1>8. BytesOf(heap, buffer[b]) = Read(heap, o, 0, n)
    BY <1>3 DEF BytesOf
<1>9. /\ n <= heap[o].capacity
      /\ \A i \in 1..n : heap[o].bytes[i] # Junk
    <2>1. Stock(heap, buffer[b]) = heap[o].bytes /\ Len(Stock(heap, buffer[b])) = heap[o].capacity
        BY <1>2, <1>3, StockType
    <2>2. QED
        BY <1>2, <2>1 DEF Stored
<1> HIDE DEF o, n, v
<1>10. /\ k \in Heaps
       /\ k[o].start = 0 /\ k[o].length = n /\ k[o].bytes = heap[o].bytes
       /\ k[o].capacity = heap[o].capacity
       /\ \A q \in Owners : k[q].references = heap[q].references /\ (q # o => k[q] = heap[q])
    <2>1. heap \in Heaps /\ o \in Owners /\ n \in Nat /\ k = MovedOut(heap, o, n)
        BY <1>1, <1>2, <1>3, <1>5
    <2>2. k \in Heaps
        BY <2>1, MovedOutHeap
    <2>3. k[o].start = 0 /\ k[o].length = n /\ k[o].bytes = heap[o].bytes
          /\ k[o].capacity = heap[o].capacity
        BY <2>1, MovedOutHeap
    <2>4. \A q \in Owners : k[q].references = heap[q].references /\ (q # o => k[q] = heap[q])
        BY <2>1, MovedOutHeap
    <2>5. QED
        BY <2>2, <2>3, <2>4
<1>11. Readable(k, o)
    <2>1. 0 + n = n /\ \A i \in 1..n : 0 + i = i
        BY <1>2
    <2>2. k[o].start + k[o].length <= k[o].capacity
        BY <1>9, <1>10, <2>1
    <2>3. \A i \in 1..k[o].length : k[o].bytes[k[o].start + i] # Junk
        BY <1>9, <1>10, <2>1
    <2>4. QED
        BY <2>2, <2>3 DEF Readable
<1>12. InWindow(k, v)
    <2>1. k[o].references >= 1 /\ k[o].start <= 0 /\ 0 + n <= k[o].start + k[o].length
        BY <1>2, <1>3, <1>10
    <2>2. o # None
        BY <1>3, NoneIsNoOwner
    <2>3. QED
        BY <1>7, <2>1, <2>2 DEF InWindow
<1>13. Read(k, v.owner, v.data, v.length) = Read(heap, o, 0, n)
    BY <1>3, <1>7, <1>10 DEF Read
<1>14. Restocks(b, NoBuffer, o)
    <2>1. \A q \in Owners : q \notin {buffer[b].owner, NoBuffer.owner, o} /\ heap'[q].references >= 1
              => heap[q].references >= 1 /\ Serves(heap, heap', q)
        BY <1>5, <1>6, <1>10 DEF Serves
    <2>2. QED
        BY <1>5, <1>6, <1>11, <2>1 DEF Restocks
<1>15. Stored(k, NoBuffer)
    BY <1>3, <1>10, NoCells DEF NoBuffer
<1>16. DInv' /\ OthersSame(b) /\ Becomes(d, BytesOf(heap, buffer[b]), {})
    <2>1. PICK x : x = NoBuffer
        OBVIOUS
    <2>2. Puts(b, x) /\ Restocks(b, x, o) /\ Stored(heap', x)
        BY <1>4, <1>5, <1>14, <1>15, <2>1
    <2>3. InWindow(heap', v) /\ Read(heap', v.owner, v.data, v.length) = BytesOf(heap, buffer[b])
        BY <1>5, <1>8, <1>12, <1>13
    <2>4. QED
        BY <1>0, <1>1, <1>2, <2>2, <2>3, GivesReads
<1>17. QED
    BY <1>1, <1>3, <1>16

LEMMA IntoSymbolCopiedReads ==
    ASSUME DInv, NEW h \in Handles, NEW d \in Bindings, BufferIntoSymbol(h, d),
           ~Movable(handle[h]), NEW b, b = handle[h]
    PROVE  /\ DInv' /\ OthersSame(b) /\ handle[h] # None /\ Hands(h, None)
           /\ Becomes(d, BytesOf(heap, buffer[b]), {})
           /\ buffer[b].references # 1 => BytesOf(heap', buffer'[b]) = BytesOf(heap, buffer[b])
<1> DEFINE y == buffer[b]
           n == y.count
           x == Left(y)
<1>0. CInv /\ CInv'
    BY DInvCounts, IntoSymbolCounts
<1>1. /\ handle[h] # None /\ d \notin live /\ UNCHANGED lender /\ Hands(h, None)
      /\ buffer' = ReleasedBuffers(buffer, b)
    BY DEF BufferIntoSymbol, Hands
<1>a. PICK bytes : bytes = BytesOf(heap, y)
    OBVIOUS
<1>2. \/ n = 0 /\ heap' = HeapWithout(heap, buffer, b) /\ Bind(d, NoView, {})
      \/ /\ n # 0
         /\ \E p \in Fresh(heap) :
              /\ heap' = HeapWithout([heap EXCEPT ![p] = FlatOwner(bytes, Capacity(n), 0)], buffer, b)
              /\ Bind(d, [owner |-> p, data |-> 0, length |-> n], {})
    BY <1>a DEF BufferIntoSymbol
<1>3. /\ b \in Buffers /\ y \in BufferObject /\ Kept(y) /\ heap \in Heaps
      /\ n \in Nat /\ n \in 0..MaxLength /\ buffer \in [Buffers -> BufferObject]
      /\ y.references # 0 /\ (y.owner \in Owners => heap[y.owner].references = 1)
      /\ Stored(heap, y) /\ y = buffer[b]
    BY <1>0, <1>1, HandledBuffer, HandledStored, BInvFacts DEF CInv
<1>4. bytes \in Seq(Cell) /\ Len(bytes) = n /\ \A i \in 1..Len(bytes) : bytes[i] # Junk
    BY <1>1, <1>a, HandledBytes
<1>5. Puts(b, x) /\ buffer'[b] = x
    <2>1. Puts(b, Left(buffer[b]))
        BY <1>0, <1>1, <1>3, ReleasedPuts DEF Puts
    <2>2. Puts(b, x)
        BY <2>1
    <2>3. QED
        BY <1>0, <1>3, <2>2, PutFacts DEF CInv
<1>6. x.owner = IF y.references = 1 THEN None ELSE y.owner
    BY <1>3, LeftTypes
<1>b. n = y.count /\ x = Left(y)
    OBVIOUS
<1> HIDE DEF n, x, y
<1>7. PICK k : k = heap'
    OBVIOUS
<1>8. CASE n = 0
    <2>1. k = HeapWithout(heap, buffer, b) /\ Bind(d, NoView, {})
        BY <1>2, <1>7, <1>8
    <2>2. /\ k \in Heaps /\ Stored(k, x)
          /\ y.references # 1 => BytesOf(k, x) = BytesOf(heap, y)
          /\ \A q \in Owners : q # y.owner => k[q] = heap[q]
          /\ y.references = 1 /\ y.owner \in Owners => ~(k[y.owner].references >= 1)
        BY <1>3, <1>b, <2>1, LeftReads
    <2>3. Restocks(b, x, None)
        <3>1. \A q \in Owners : q \notin {buffer[b].owner, x.owner, None} /\ heap'[q].references >= 1
                => heap[q].references >= 1 /\ Serves(heap, heap', q)
            BY <1>3, <1>7, <2>2 DEF Serves
        <3>2. None \notin Owners
            BY NoneIsNoOwner
        <3>3. buffer[b].owner \in Owners /\ buffer[b].owner \notin {x.owner, None}
                => ~(heap'[buffer[b].owner].references >= 1)
            BY <1>3, <1>6, <1>7, <2>2
        <3>4. QED
            BY <3>1, <3>2, <3>3 DEF Restocks
    <2>4. PICK v : v = NoView
        OBVIOUS
    <2>5. InWindow(heap', v) /\ Bind(d, v, {})
        BY <2>1, <2>4, NoneIsNoOwner DEF InWindow, NoView
    <2>6. bytes = <<>>
        BY <1>4, <1>8
    <2>7. Read(heap', v.owner, v.data, v.length) = bytes
        BY <2>4, <2>6, NoBytes
    <2>8. Stored(heap', x)
        BY <1>7, <2>2
    <2>9. DInv' /\ OthersSame(b) /\ Becomes(d, bytes, {})
        BY <1>0, <1>1, <1>3, <1>5, <2>3, <2>5, <2>7, <2>8, GivesReads
    <2>10. QED
        BY <1>1, <1>3, <1>5, <1>7, <1>a, <2>2, <2>9
<1>9. CASE n # 0
    <2>1. PICK p \in Fresh(heap) :
              /\ heap' = HeapWithout([heap EXCEPT ![p] = FlatOwner(bytes, Capacity(n), 0)], buffer, b)
              /\ Bind(d, [owner |-> p, data |-> 0, length |-> n], {})
        BY <1>2, <1>9
    <2>2. p \in Owners /\ heap[p].references = 0 /\ p # None /\ p # y.owner
        BY <1>3, NoneIsNoOwner DEF Fresh
    <2>3. PICK v : v = [owner |-> p, data |-> 0, length |-> n]
        OBVIOUS
    <2>4. v.owner = p /\ v.data = 0 /\ v.length = n /\ Bind(d, v, {})
        BY <2>1, <2>3
    <2>5. PICK w : w = FlatOwner(bytes, Capacity(n), 0)
        OBVIOUS
    <2>6. Capacity(n) \in Nat /\ 0 + Len(bytes) <= Capacity(n) /\ 0 \in Nat
        BY <1>3, <1>4, Sizes
    <2>7. w \in FlatHeader /\ Len(w.bytes) = w.capacity
        BY <1>4, <2>5, <2>6, FlatOwnerType
    <2>8. PICK f : f = [heap EXCEPT ![p] = w]
        OBVIOUS
    <2>9. f \in Heaps /\ f[p] = w /\ \A q \in Owners : q # p => f[q] = heap[q]
        <3>1. f \in Heaps
            BY <1>3, <2>2, <2>7, <2>8, HeapUpdate
        <3>2. heap \in [Owners -> FlatHeader]
            BY <1>3 DEF Heaps
        <3>3. QED
            BY <2>2, <2>8, <3>1, <3>2
    <2>10. k = HeapWithout(f, buffer, b)
        BY <1>7, <2>1, <2>5, <2>8
    <2>11. Stored(f, y) /\ BytesOf(f, y) = BytesOf(heap, y)
        <3>1. y.owner \in Owners => f[y.owner] = heap[y.owner] /\ heap[y.owner].references = 1
            BY <1>3, <2>2, <2>9
        <3>2. y.owner \in Owners => Serves(heap, f, y.owner)
            BY <3>1 DEF Serves
        <3>3. QED
            BY <1>3, <2>9, <3>2, UntouchedBuffer
    <2>12. /\ k \in Heaps /\ Stored(k, x)
           /\ y.references # 1 => BytesOf(k, x) = BytesOf(f, y)
           /\ \A q \in Owners : q # y.owner => k[q] = f[q]
           /\ y.references = 1 /\ y.owner \in Owners => ~(k[y.owner].references >= 1)
        <3>1. y.owner \in Owners => f[y.owner].references = 1
            BY <1>3, <2>2, <2>9
        <3>2. QED
            BY <1>3, <1>b, <2>9, <2>10, <2>11, <3>1, LeftReads
    <2>13. k[p] = FlatOwner(bytes, Capacity(n), 0)
        BY <2>2, <2>5, <2>9, <2>12
    <2>14. /\ Readable(k, p)
           /\ k[p].references = 1 /\ k[p].start = 0 /\ k[p].length = Len(bytes)
           /\ Read(k, p, 0, Len(bytes)) = bytes
        BY <1>4, <2>2, <2>6, <2>13, FlatOwnerReads
    <2>15. InWindow(k, v)
        <3>1. k[p].references >= 1 /\ k[p].start <= 0 /\ 0 + n <= k[p].start + k[p].length
            BY <1>3, <1>4, <2>14
        <3>2. QED
            BY <2>2, <2>4, <3>1 DEF InWindow
    <2>16. Restocks(b, x, p)
        <3>1. \A q \in Owners : q \notin {buffer[b].owner, x.owner, p} /\ heap'[q].references >= 1
                => heap[q].references >= 1 /\ Serves(heap, heap', q)
            BY <1>3, <1>7, <2>9, <2>12 DEF Serves
        <3>2. buffer[b].owner \in Owners /\ buffer[b].owner \notin {x.owner, p}
                => ~(heap'[buffer[b].owner].references >= 1)
            BY <1>3, <1>6, <1>7, <2>12
        <3>3. p \in {buffer[b].owner, None} \cup Fresh(heap) /\ Readable(heap', p)
            BY <1>7, <2>14
        <3>4. QED
            BY <3>1, <3>2, <3>3 DEF Restocks
    <2>17. Read(heap', v.owner, v.data, v.length) = bytes /\ InWindow(heap', v) /\ Stored(heap', x)
        BY <1>4, <1>7, <2>4, <2>12, <2>14, <2>15
    <2>18. DInv' /\ OthersSame(b) /\ Becomes(d, bytes, {})
        BY <1>0, <1>1, <1>3, <1>5, <2>4, <2>16, <2>17, GivesReads
    <2>19. QED
        BY <1>1, <1>3, <1>5, <1>7, <1>a, <2>11, <2>12, <2>18
<1>10. QED
    BY <1>8, <1>9

LEMMA IntoSymbolReads ==
    ASSUME DInv, NEW h \in Handles, NEW d \in Bindings, BufferIntoSymbol(h, d), NEW b, b = handle[h]
    PROVE  /\ DInv' /\ OthersSame(b) /\ handle[h] # None /\ Hands(h, None)
           /\ Becomes(d, BytesOf(heap, buffer[b]), {})
           /\ buffer[b].references # 1 => BytesOf(heap', buffer'[b]) = BytesOf(heap, buffer[b])
BY IntoSymbolMovedReads, IntoSymbolCopiedReads

-----------------------------------------------------------------------------
(* A Symbol becomes a Buffer. *)

LEMMA EmptyBytes ==
    ASSUME NEW s \in Seq(Cell), Len(s) = 0
    PROVE  s = <<>>
OBVIOUS

LEMMA CopiedStored ==
    ASSUME NEW bytes \in Seq(Cell), NEW n, n = Len(bytes), n <= MaxLength,
           \A i \in 1..Len(bytes) : bytes[i] # Junk,
           NEW p \in MakePlaces(n), NEW x, x = Copied(bytes, p), NEW k \in Heaps,
           p \in Owners => k[p] = [FlatOwner(bytes, Len(bytes), 0) EXCEPT !.length = 0]
    PROVE  Stored(k, x) /\ BytesOf(k, x) = bytes
<1>1. /\ x \in BufferObject /\ Kept(x) /\ x.references = 1 /\ x.count = n /\ x.owner = p
      /\ p = None \/ p \in Fresh(heap)
      /\ x.storage = "flat" <=> p # None
      /\ x.storage = "inline" => \A i \in 1..n : x.inline[i] = bytes[i]
    <2>1. x \in BufferObject /\ Kept(x)
        BY CopiedTypes
    <2>2. x.references = 1 /\ x.count = n /\ x.owner = p
        BY CopiedTypes
    <2>3. p = None \/ p \in Fresh(heap)
        BY CopiedTypes
    <2>4. x.storage = "flat" <=> p # None
        BY CopiedTypes
    <2>5. x.storage = "inline" => \A i \in 1..n : x.inline[i] = bytes[i]
        BY CopiedTypes
    <2>6. QED
        BY <2>1, <2>2, <2>3, <2>4, <2>5
<1>2. n \in Nat /\ InlineBytes \in Nat
    BY BuffersAssumption
<1>3. CASE x.storage = "flat"
    <2>1. p \in Owners
        BY <1>1, <1>3 DEF Fresh
    <2>2. PICK y : y = FlatOwner(bytes, Len(bytes), 0)
        OBVIOUS
    <2>3. y.start = 0 /\ y.capacity = n /\ \A i \in 1..Len(bytes) : y.bytes[i] = bytes[i]
        <3>1. Len(bytes) \in Nat /\ Len(bytes) <= Len(bytes)
            OBVIOUS
        <3>2. QED
            BY <2>2, <3>1, FlatBytesAt
    <2>4. k[p].start = 0 /\ k[p].capacity = n /\ k[p].bytes = y.bytes
        <3>1. y \in FlatHeader
            <4>1. Len(bytes) \in Nat /\ 0 \in Nat
                OBVIOUS
            <4>2. QED
                BY <2>2, <4>1, FlatOwnerType
        <3>2. k[p] = [y EXCEPT !.length = 0]
            BY <2>1, <2>2
        <3>3. QED
            BY <2>3, <3>1, <3>2 DEF FlatHeader
    <2>5. Stock(k, x) = k[p].bytes /\ Len(Stock(k, x)) = n
        BY <1>1, <1>3, <2>4, StockType
    <2>6. \A i \in 1..n : Stock(k, x)[i] = bytes[i]
        BY <2>3, <2>4, <2>5
    <2>7. n <= n
        BY <1>2
    <2>8. Stored(k, x)
        BY <1>1, <2>4, <2>5, <2>6, <2>7 DEF Stored
    <2>9. QED
        BY <1>1, <2>5, <2>6, <2>7, <2>8, BytesAre
<1>4. CASE x.storage = "inline"
    <2>1. Stock(k, x) = x.inline /\ Len(Stock(k, x)) = InlineBytes /\ n <= InlineBytes
        BY <1>1, <1>4, StockType DEF Kept
    <2>2. \A i \in 1..n : Stock(k, x)[i] = bytes[i]
        BY <1>1, <1>4, <2>1
    <2>3. Stored(k, x)
        BY <1>1, <1>4, <2>1, <2>2 DEF Stored
    <2>4. x \in BufferObject /\ Kept(x) /\ x.count <= Len(Stock(k, x)) /\ Len(bytes) = x.count
          /\ \A i \in 1..x.count : Stock(k, x)[i] = bytes[i]
        BY <1>1, <2>1, <2>2
    <2>5. BytesOf(k, x) = bytes
        BY <2>4, BytesAre
    <2>6. QED
        BY <2>3, <2>5
<1>5. CASE x.storage = "none"
    <2>1. n = 0
        BY <1>1, <1>5 DEF Kept
    <2>2. bytes = <<>>
        BY <2>1, EmptyBytes
    <2>3. x.count = 0 /\ x.storage # "flat"
        BY <1>1, <1>5, <2>1
    <2>4. Stored(k, x) /\ BytesOf(k, x) = <<>>
        BY <1>1, <2>3, NoCells
    <2>5. QED
        BY <2>2, <2>4
<1>6. QED
    BY <1>1, <1>3, <1>4, <1>5 DEF BufferObject

LEMMA CopiedHeapAt ==
    ASSUME heap \in Heaps, NEW bytes, NEW p, p = None \/ p \in Fresh(heap),
           NEW k, k = CopiedHeap(bytes, p)
    PROVE  /\ p \in Owners => k[p] = [FlatOwner(bytes, Len(bytes), 0) EXCEPT !.length = 0]
           /\ \A q \in Owners : q # p => k[q] = heap[q]
<1>1. heap \in [Owners -> FlatHeader]
    BY DEF Heaps
<1>2. QED
    BY <1>1, NoneIsNoOwner DEF CopiedHeap, Fresh

LEMMA SymbolBytes ==
    ASSUME DInv, NEW s \in live, NEW bytes, bytes = Contents(s)
    PROVE  /\ bytes \in Seq(Cell) /\ Len(bytes) = view[s].length /\ Len(bytes) <= MaxLength
           /\ \A i \in 1..Len(bytes) : bytes[i] # Junk
           /\ view[s] \in View
<1>1. PICK extra \in [Owners -> Nat] : WInv(extra)
    BY DEF DInv
<1>2. /\ bytes \in Seq(Cell) /\ Len(bytes) = view[s].length
      /\ \A i \in 1..Len(bytes) : bytes[i] # Junk
    BY <1>1, ContentsFacts
<1>3. view[s] \in View
    BY <1>1, WInvFacts
<1>4. Len(bytes) <= MaxLength
    BY <1>2, <1>3, Sizes DEF View
<1>5. QED
    BY <1>2, <1>3, <1>4

LEMMA ToBufferReads ==
    ASSUME DInv, NEW s \in Bindings, NEW h \in Handles, SymbolToBuffer(s, h)
    PROVE  /\ s \in live /\ handle[h] = None
           /\ \E b \in FreshBuffers : /\ DInv' /\ Alike(live) /\ OthersSame(b) /\ Hands(h, b)
                                      /\ BytesOf(heap', buffer'[b]) = Contents(s)
<1>0. CInv /\ CInv'
    BY DInvCounts, ToBufferCounts
<1>1. s \in live /\ handle[h] = None /\ UNCHANGED <<live, view>>
    BY DEF SymbolToBuffer
<1>2. PICK bytes : bytes = Contents(s)
    OBVIOUS
<1>3. /\ bytes \in Seq(Cell) /\ Len(bytes) = view[s].length /\ Len(bytes) <= MaxLength
      /\ \A i \in 1..Len(bytes) : bytes[i] # Junk
    BY <1>1, <1>2, SymbolBytes
<1>4. PICK b \in FreshBuffers, p \in MakePlaces(view[s].length) :
         /\ heap' = CopiedHeap(bytes, p) /\ Puts(b, Copied(bytes, p)) /\ Hands(h, b)
    BY <1>2 DEF SymbolToBuffer, Puts, Hands
<1>5. PICK x : x = Copied(bytes, p)
    OBVIOUS
<1>6. x.owner = p /\ (p = None \/ p \in Fresh(heap)) /\ p \in MakePlaces(Len(bytes))
    BY <1>3, <1>4, <1>5, CopiedTypes
<1>7. b \in Buffers /\ buffer[b].owner = None /\ heap \in Heaps
    BY <1>0, FreshBuffer, BInvFacts DEF CInv
<1>8. PICK k : k = heap'
    OBVIOUS
<1>9. /\ k \in Heaps
      /\ p \in Owners => k[p] = [FlatOwner(bytes, Len(bytes), 0) EXCEPT !.length = 0]
      /\ \A q \in Owners : q # p => k[q] = heap[q]
    BY <1>3, <1>4, <1>6, <1>7, <1>8, CopiedHeapTypes, CopiedHeapAt
<1>10. Stored(k, x) /\ BytesOf(k, x) = bytes
    BY <1>3, <1>5, <1>6, <1>9, CopiedStored
<1>11. Touches(b, x)
    BY <1>6, <1>7, <1>8, <1>9, NoneIsNoOwner DEF Touches
<1>12. DInv' /\ Alike(live) /\ OthersSame(b)
    <2>1. Stored(heap', x) /\ Puts(b, x)
        BY <1>4, <1>5, <1>8, <1>10
    <2>2. QED
        BY <1>0, <1>1, <1>7, <1>11, <2>1, BufferReads
<1>13. buffer'[b] = x
    BY <1>0, <1>4, <1>5, <1>7, PutFacts DEF CInv
<1>14. QED
    BY <1>1, <1>2, <1>4, <1>8, <1>10, <1>12, <1>13

LEMMA TakesReads ==
    ASSUME DInv, CInv', NEW b \in Buffers, NEW x, Puts(b, x),
           NEW s \in live, live' = live \ {s}, view' = [view EXCEPT ![s] = NoView],
           Restocks(b, x, None), Stored(heap', x)
    PROVE  DInv' /\ OthersSame(b) /\ Alike(live \ {s})
<1>1. buffer'[b] = x /\ \A c \in Buffers : c # b => buffer'[c] = buffer[c]
    BY DInvCounts, PutFacts DEF CInv
<1>2. PICK extra \in [Owners -> Nat] : WInv(extra)
    BY DEF DInv
<1>3. view \in [Bindings -> View] /\ live \subseteq Bindings
    BY <1>2, TypeFacts DEF WInv, Held, IInv
<1>4. PICK stay : stay = live \ {s}
    OBVIOUS
<1>5. /\ stay \subseteq live /\ \A c \in stay : c \in live' /\ view'[c] = view[c]
      /\ \A c \in live' : c \in stay
    BY <1>3, <1>4
<1>6. DInv' /\ Alike(stay) /\ OthersSame(b)
    BY <1>1, <1>5, ObjectReads
<1>7. QED
    BY <1>4, <1>6

LEMMA IntoBufferAdoptedReads ==
    ASSUME DInv, NEW s \in Bindings, NEW h \in Handles, SymbolIntoBuffer(s, h), Adoptable(view[s])
    PROVE  /\ s \in live /\ handle[h] = None /\ live' = live \ {s}
           /\ \E b \in FreshBuffers : /\ DInv' /\ Alike(live \ {s}) /\ OthersSame(b) /\ Hands(h, b)
                                      /\ BytesOf(heap', buffer'[b]) = Contents(s)
<1> DEFINE o == view[s].owner
           n == view[s].length
           x == Adopting(o, n)
<1>0. CInv /\ CInv'
    BY DInvCounts, IntoBufferCounts
<1>1. /\ Owned(s) /\ s \in live /\ Borrowers(s) = {} /\ handle[h] = None
      /\ live' = live \ {s} /\ view' = [view EXCEPT ![s] = NoView] /\ UNCHANGED lender
    BY DEF SymbolIntoBuffer, Owned
<1>2. PICK b \in FreshBuffers :
         heap' = Adopted(heap, o, n) /\ Puts(b, x) /\ Hands(h, b)
    BY DEF SymbolIntoBuffer, Adopted, Adopting, Puts, Hands
<1>3. PICK extra \in [Owners -> Nat] : WInv(extra)
    BY DEF DInv
<1>4. o \in Owners /\ o \notin Statics /\ heap[o].references = 1 /\ heap[o].start = 0 /\ view[s].data = 0
    BY OwnersAssumption DEF Adoptable
<1>5. b \in Buffers /\ buffer[b].owner = None /\ heap \in Heaps
    BY <1>0, FreshBuffer, BInvFacts DEF CInv
<1>6. n \in Nat /\ n \in 0..MaxLength
    <2>1. view[s] \in View
        BY <1>1, SymbolBytes
    <2>2. QED
        BY <2>1, Sizes DEF View
<1>7. /\ x \in BufferObject /\ Kept(x) /\ x.references = 1 /\ x.owner = o
      /\ x.storage = "flat" /\ x.count = n
    BY <1>4, <1>6, AdoptingBuffer
<1>8. Contents(s) = Read(heap, o, 0, n)
    BY <1>4 DEF Contents
<1>9. InWindow(heap, view[s]) /\ Readable(heap, o)
    <2>1. Held(extra)
        BY <1>3 DEF WInv
    <2>2. extra[o] = 0
        BY <1>1, <1>4, <2>1 DEF Held, Unviewed, Spare
    <2>3. QED
        BY <1>1, <1>3, <1>4, <2>2 DEF WInv, Windows, OwnersReadable
<1>10. /\ n <= heap[o].capacity
       /\ \A i \in 1..n : heap[o].bytes[i] # Junk
    <2>1. heap[o].length \in Nat /\ heap[o].capacity \in Nat
        BY <1>4, <1>5, HeaderFacts
    <2>2. 0 + n <= 0 + heap[o].length
        BY <1>4, <1>9 DEF InWindow
    <2>3. n <= heap[o].length /\ 0 + heap[o].length = heap[o].length
        BY <1>6, <2>1, <2>2
    <2>4. heap[o].length <= heap[o].capacity
        BY <1>4, <1>9, <2>3 DEF Readable
    <2>5. \A i \in 1..heap[o].length : heap[o].bytes[i] # Junk
        <3>1. \A i \in 1..heap[o].length : heap[o].bytes[0 + i] # Junk
            BY <1>4, <1>9 DEF Readable
        <3>2. \A i \in 1..heap[o].length : 0 + i = i
            OBVIOUS
        <3>3. QED
            BY <3>1, <3>2
    <2>6. n <= heap[o].capacity
        BY <1>6, <2>1, <2>3, <2>4
    <2>7. \A i \in 1..n : i \in 1..heap[o].length
        BY <1>6, <2>1, <2>3
    <2>8. QED
        BY <2>5, <2>6, <2>7
<1>11. PICK k : k = heap'
    OBVIOUS
<1> HIDE DEF o, n, x
<1>12. k \in Heaps /\ (\A q \in Owners : q # o => k[q] = heap[q])
       /\ k[o].start = 0 /\ k[o].bytes = heap[o].bytes /\ k[o].capacity = heap[o].capacity
    <2>1. heap \in Heaps /\ o \in Owners /\ n \in Nat /\ k = Adopted(heap, o, n)
        BY <1>2, <1>4, <1>5, <1>6, <1>11
    <2>2. k \in Heaps
        BY <2>1, AdoptedHeap
    <2>4. heap \in [Owners -> FlatHeader]
        BY <2>1 DEF Heaps
    <2>3. \A q \in Owners : q # o => k[q] = heap[q]
        BY <2>1, <2>4 DEF Adopted
    <2>5. k[o] = [heap[o] EXCEPT !.length = n] /\ heap[o] \in FlatHeader
        BY <2>1, <2>4 DEF Adopted
    <2>6. k[o].start = 0 /\ k[o].bytes = heap[o].bytes /\ k[o].capacity = heap[o].capacity
        BY <1>4, <2>5 DEF FlatHeader
    <2>7. QED
        BY <2>2, <2>3, <2>6
<1>13. Stored(k, x) /\ BytesOf(k, x) = Contents(s)
    <2>1. Stock(k, x) = heap[o].bytes /\ Len(Stock(k, x)) = heap[o].capacity
        BY <1>7, <1>12, StockType
    <2>2. Stored(k, x)
        BY <1>7, <1>10, <1>12, <2>1 DEF Stored
    <2>3. BytesOf(k, x) = Read(k, o, 0, n)
        BY <1>7 DEF BytesOf
    <2>4. Read(k, o, 0, n) = Read(heap, o, 0, n)
        BY <1>4, <1>12 DEF Read
    <2>5. QED
        BY <1>8, <2>2, <2>3, <2>4
<1>14. Restocks(b, x, None)
    <2>1. \A q \in Owners : q \notin {buffer[b].owner, x.owner, None} /\ heap'[q].references >= 1
            => heap[q].references >= 1 /\ Serves(heap, heap', q)
        BY <1>7, <1>11, <1>12 DEF Serves
    <2>2. QED
        BY <1>5, <2>1, NoneIsNoOwner DEF Restocks
<1>15. DInv' /\ OthersSame(b) /\ Alike(live \ {s})
    <2>1. Stored(heap', x) /\ Puts(b, x)
        BY <1>2, <1>11, <1>13
    <2>2. QED
        BY <1>0, <1>1, <1>5, <1>14, <2>1, TakesReads
<1>16. buffer'[b] = x
    BY <1>0, <1>2, <1>5, PutFacts DEF CInv
<1>17. QED
    BY <1>1, <1>2, <1>11, <1>13, <1>15, <1>16

LEMMA IntoBufferCopiedReads ==
    ASSUME DInv, NEW s \in Bindings, NEW h \in Handles, SymbolIntoBuffer(s, h), ~Adoptable(view[s])
    PROVE  /\ s \in live /\ handle[h] = None /\ live' = live \ {s}
           /\ \E b \in FreshBuffers : /\ DInv' /\ Alike(live \ {s}) /\ OthersSame(b) /\ Hands(h, b)
                                      /\ BytesOf(heap', buffer'[b]) = Contents(s)
<1>0. CInv /\ CInv'
    BY DInvCounts, IntoBufferCounts
<1>1. /\ Owned(s) /\ s \in live /\ Borrowers(s) = {} /\ handle[h] = None
      /\ live' = live \ {s} /\ view' = [view EXCEPT ![s] = NoView] /\ UNCHANGED lender
    BY DEF SymbolIntoBuffer, Owned
<1>2. PICK bytes : bytes = Contents(s)
    OBVIOUS
<1>3. /\ bytes \in Seq(Cell) /\ Len(bytes) = view[s].length /\ Len(bytes) <= MaxLength
      /\ \A i \in 1..Len(bytes) : bytes[i] # Junk
    BY <1>1, <1>2, SymbolBytes
<1>4. PICK b \in FreshBuffers, p \in MakePlaces(view[s].length) :
         /\ heap' = Release(CopiedHeap(bytes, p), view[s].owner)
         /\ Puts(b, Copied(bytes, p)) /\ Hands(h, b)
    BY <1>2 DEF SymbolIntoBuffer, Puts, Hands
<1>5. PICK x : x = Copied(bytes, p)
    OBVIOUS
<1>6. x.owner = p /\ (p = None \/ p \in Fresh(heap)) /\ p \in MakePlaces(Len(bytes))
    BY <1>3, <1>4, <1>5, CopiedTypes
<1>7. b \in Buffers /\ buffer[b].owner = None /\ heap \in Heaps
    BY <1>0, FreshBuffer, BInvFacts DEF CInv
<1>8. PICK f : f = CopiedHeap(bytes, p)
    OBVIOUS
<1>9. /\ f \in Heaps
      /\ p \in Owners => f[p] = [FlatOwner(bytes, Len(bytes), 0) EXCEPT !.length = 0]
      /\ \A q \in Owners : q # p => f[q] = heap[q]
    BY <1>3, <1>6, <1>7, <1>8, CopiedHeapTypes, CopiedHeapAt
<1>10. PICK o : o = view[s].owner
    OBVIOUS
<1>11. o \in Owners => heap[o].references >= 1 /\ o # p
    <2>1. PICK extra \in [Owners -> Nat] : WInv(extra)
        BY DEF DInv
    <2>2. o \in Owners => heap[o].references >= 1
        BY <1>1, <1>10, <2>1, WInvFacts
    <2>3. QED
        BY <1>6, <2>2, NoneIsNoOwner DEF Fresh
<1>12. PICK k : k = heap'
    OBVIOUS
<1>13. /\ k \in Heaps /\ Quiet(f, k) /\ \A q \in Owners : q # o => k[q] = f[q]
    <2>1. k = Release(f, o)
        BY <1>4, <1>8, <1>10, <1>12
    <2>2. o \in Owners => f[o].references >= 1
        BY <1>9, <1>11
    <2>3. k \in Heaps
        BY <1>9, <2>1, <2>2, ReleaseHeap
    <2>4. Quiet(f, k) /\ \A q \in Owners : q # o => k[q] = f[q]
        BY <1>9, <2>1, ReleaseQuiet
    <2>5. QED
        BY <2>3, <2>4
<1>14. p \in Owners => k[p] = [FlatOwner(bytes, Len(bytes), 0) EXCEPT !.length = 0]
    BY <1>9, <1>11, <1>13
<1>15. Stored(k, x) /\ BytesOf(k, x) = bytes
    BY <1>3, <1>5, <1>6, <1>13, <1>14, CopiedStored
<1>16. Restocks(b, x, None)
    <2>1. ASSUME NEW q \in Owners, q \notin {buffer[b].owner, x.owner, None}, heap'[q].references >= 1
          PROVE  heap[q].references >= 1 /\ Serves(heap, heap', q)
        <3>1. f[q] = heap[q] /\ k[q].references >= 1
            BY <1>6, <1>9, <1>12, <2>1
        <3>2. CASE q # o
            BY <1>12, <1>13, <2>1, <3>1, <3>2 DEF Serves
        <3>3. CASE q = o
            <4>1. heap[q].references >= 1 /\ f[q].references >= 1
                BY <1>11, <3>1, <3>3
            <4>2. Serves(f, k, q)
                BY <1>13, <3>1, <4>1 DEF Quiet
            <4>3. QED
                BY <1>12, <3>1, <4>1, <4>2 DEF Serves
        <3>4. QED
            BY <3>2, <3>3
    <2>2. QED
        BY <1>7, <2>1, NoneIsNoOwner DEF Restocks
<1>17. DInv' /\ OthersSame(b) /\ Alike(live \ {s})
    <2>1. Stored(heap', x) /\ Puts(b, x)
        BY <1>4, <1>5, <1>12, <1>15
    <2>2. QED
        BY <1>0, <1>1, <1>7, <1>16, <2>1, TakesReads
<1>18. buffer'[b] = x
    BY <1>0, <1>4, <1>5, <1>7, PutFacts DEF CInv
<1>19. QED
    BY <1>1, <1>2, <1>4, <1>12, <1>15, <1>17, <1>18

LEMMA IntoBufferReads ==
    ASSUME DInv, NEW s \in Bindings, NEW h \in Handles, SymbolIntoBuffer(s, h)
    PROVE  /\ s \in live /\ handle[h] = None /\ live' = live \ {s}
           /\ \E b \in FreshBuffers : /\ DInv' /\ Alike(live \ {s}) /\ OthersSame(b) /\ Hands(h, b)
                                      /\ BytesOf(heap', buffer'[b]) = Contents(s)
BY IntoBufferAdoptedReads, IntoBufferCopiedReads

-----------------------------------------------------------------------------
(* Every Buffer stores its bytes. *)

LEMMA InitDInv == Init /\ InitBuffers => DInv
<1> SUFFICES ASSUME Init, InitBuffers
             PROVE  DInv
    OBVIOUS
<1>1. CInv
    BY InitCInv
<1>2. PICK extra \in [Owners -> Nat] : extra = HeldBy(buffer) /\ Held(extra) /\ Objects(buffer)
    BY <1>1 DEF CInv, BInv
<1>3. \A c \in Buffers : buffer[c] = NoBuffer
    BY DEF InitBuffers
<1>4. \A o \in Owners : extra[o] = 0
    BY <1>2, <1>3, HeldByType, BlankBuffer, NoneIsNoOwner
<1>5. extra = Alone
    BY <1>4, AloneType
<1>6. WInv(extra)
    BY <1>5, InitWInv
<1>7. heap \in Heaps
    BY <1>6, WInvFacts
<1>8. AllStored(heap, buffer)
    BY <1>3, <1>7, BlankBuffer, NoCells DEF AllStored, NoBuffer
<1>9. QED
    BY <1>1, <1>2, <1>6, <1>8 DEF DInv, CInv

LEMMA NextDInv ==
    ASSUME ~AliasedOperands, DInv, [ConversionsNext]_allVars
    PROVE  DInv'
<1>1. CASE Next /\ UNCHANGED bufferVars
    BY <1>1, SymbolsReads
<1>2. CASE \E h \in Handles : \E capacity \in 0..MaxLength : BufferMake(h, capacity)
    BY <1>2, MakeReads
<1>3. CASE \E h \in Handles, v \in NewBytes : BufferNew(h, v)
    BY <1>3, NewReads
<1>4. CASE \E h \in Handles, v \in NewBytes : \E i \in 0..MaxLength : BufferReplace(h, i, v)
    BY <1>4, ReplaceReads
<1>5. CASE \E h \in Handles : \E n \in 0..MaxLength : BufferTruncate(h, n)
    BY <1>5, TruncateReads
<1>6. CASE \E h \in Handles : \E n \in 0..MaxLength : BufferReserve(h, n)
    BY <1>6, BufferReserveReads
<1>7. CASE \E h, g \in Handles : BufferRetain(h, g)
    BY <1>7, RetainReads
<1>8. CASE \E h \in Handles : BufferRelease(h)
    BY <1>8, ReleaseReads
<1>9. CASE \E h \in Handles, d \in Bindings : BufferToSymbol(h, d)
    BY <1>9, ToSymbolReads
<1>10. CASE \E h \in Handles, d \in Bindings : BufferIntoSymbol(h, d)
    BY <1>10, IntoSymbolReads
<1>11. CASE \E s \in Bindings, h \in Handles : SymbolToBuffer(s, h)
    BY <1>11, ToBufferReads
<1>12. CASE \E s \in Bindings, h \in Handles : SymbolIntoBuffer(s, h)
    BY <1>12, IntoBufferReads
<1>13. CASE UNCHANGED allVars
    <2>1. UNCHANGED vars /\ UNCHANGED bufferVars
        BY <1>13 DEF allVars, vars, bufferVars
    <2>2. QED
        BY <2>1, SymbolsReads
<1>14. QED
    BY <1>1, <1>2, <1>3, <1>4, <1>5, <1>6, <1>7, <1>8, <1>9, <1>10, <1>11, <1>12, <1>13
       DEF ConversionsNext

LEMMA DInvInvariant ==
    ASSUME ~AliasedOperands
    PROVE  ConversionsSpec => []DInv
<1>1. DInv /\ [ConversionsNext]_allVars => DInv'
    BY NextDInv
<1>2. QED
    BY <1>1, InitDInv, PTL DEF ConversionsSpec

\* Wherever a consuming concatenation's operands are views of two bindings, every Buffer in use
\* has storage for its count, flat from the owner's first byte, and none of its bytes is one that
\* was never written: a reserve below the count, a truncation, a realloc that moves and an owner
\* taken over from a Symbol with its stale length all leave the storage whole.
THEOREM BuffersStoredCorrect ==
    ASSUME ~AliasedOperands
    PROVE  ConversionsSpec => []BuffersStored
<1>1. DInv => BuffersStored
    <2> SUFFICES ASSUME DInv, NEW b \in InUseBuffers
                 PROVE  /\ buffer[b].count <= CapacityOf(buffer[b])
                        /\ buffer[b].storage = "flat" => heap[buffer[b].owner].start = 0
                        /\ \A i \in 1..buffer[b].count : BytesOf(heap, buffer[b])[i] # Junk
        BY DEF BuffersStored
    <2> DEFINE x == buffer[b]
    <2>1. b \in Buffers
        BY DEF InUseBuffers
    <2>2. x \in BufferObject /\ Kept(x) /\ Stored(heap, x) /\ heap \in Heaps
        BY <2>1, WInvFacts DEF DInv, Objects, AllStored
    <2> HIDE DEF x
    <2>3. x.count <= CapacityOf(x)
        <3>1. x.storage = "flat" => Len(Stock(heap, x)) = heap[x.owner].capacity
            BY <2>2, StockType
        <3>2. x.storage = "inline" => Len(Stock(heap, x)) = InlineBytes
            BY <2>2, StockType
        <3>3. x.storage = "none" => x.count = 0
            BY <2>2 DEF Kept
        <3>4. x.storage \in {"none", "inline", "flat"}
            BY <2>2 DEF BufferObject
        <3>5. QED
            BY <2>2, <3>1, <3>2, <3>3, <3>4 DEF CapacityOf, Stored
    <2>4. \A i \in 1..x.count : BytesOf(heap, x)[i] # Junk
        BY <2>2, BytesAt DEF Stored
    <2>5. QED
        BY <2>2, <2>3, <2>4 DEF Stored, x
<1>2. QED
    BY <1>1, DInvInvariant, PTL

-----------------------------------------------------------------------------
(* The refinement of the immutable Symbols and identity-bearing Buffers. *)

ObjectNow == [h \in {g \in Handles : handle[g] # None} |-> handle[h]]
ContentNow == [b \in BufferObjects |-> BytesOf(heap, buffer[b])]

\* The handles in use, and the Buffers they denote.
LEMMA ObjectAt ==
    /\ DOMAIN ObjectNow = {g \in Handles : handle[g] # None}
    /\ \A g \in DOMAIN ObjectNow : ObjectNow[g] = handle[g]
    /\ BufferObjects = {handle[g] : g \in DOMAIN ObjectNow}
BY DEF ObjectNow, BufferObjects

LEMMA ContentAt ==
    /\ DOMAIN ContentNow = BufferObjects
    /\ \A b \in BufferObjects : ContentNow[b] = BytesOf(heap, buffer[b])
BY DEF ContentNow

LEMMA BufferObjectFacts ==
    ASSUME CInv
    PROVE  /\ BufferObjects \subseteq Buffers
           /\ \A b \in FreshBuffers : b \in Buffers /\ b \notin BufferObjects
           /\ \A h \in Handles : handle[h] # None => handle[h] \in BufferObjects
<1>1. handle \in [Handles -> Buffers \cup {None}]
    BY DEF CInv, HandleCounts
<1>2. ASSUME NEW b \in FreshBuffers, NEW g \in Handles, handle[g] = b
      PROVE  FALSE
    <2>1. b \in Buffers /\ b # None /\ buffer[b].references = 0
        BY BuffersAssumption DEF FreshBuffers
    <2>2. buffer[handle[g]].references # 0
        BY <1>2, <2>1, HandledBuffer
    <2>3. QED
        BY <1>2, <2>1, <2>2
<1>3. QED
    BY <1>1, <1>2 DEF BufferObjects, FreshBuffers

\* What a handle's change makes of the handles in use.
LEMMA HandlesNow ==
    ASSUME CInv, NEW h \in Handles, NEW c \in Buffers \cup {None}, Hands(h, c)
    PROVE  /\ c = None => ObjectNow' = [g \in DOMAIN ObjectNow \ {h} |-> ObjectNow[g]]
           /\ c # None => ObjectNow' = [g \in DOMAIN ObjectNow \cup {h} |->
                                           IF g = h THEN c ELSE ObjectNow[g]]
           /\ c = None => BufferObjects' = {ObjectNow[g] : g \in DOMAIN ObjectNow \ {h}}
           /\ c # None /\ handle[h] = None => BufferObjects' = BufferObjects \cup {c}
<1>1. /\ handle' \in [Handles -> Buffers \cup {None}]
      /\ \A g \in Handles : handle'[g] = IF g = h THEN c ELSE handle[g]
    BY HandlePut
<1>2. ObjectNow' = [g \in {f \in Handles : handle'[f] # None} |-> handle'[g]]
    BY DEF ObjectNow
<1>3. BufferObjects' = {handle'[g] : g \in {f \in Handles : handle'[f] # None}}
    BY DEF BufferObjects
<1>4. CASE c = None
    <2>1. {f \in Handles : handle'[f] # None} = DOMAIN ObjectNow \ {h}
        BY <1>1, <1>4, ObjectAt
    <2>2. \A g \in DOMAIN ObjectNow \ {h} : handle'[g] = ObjectNow[g]
        BY <1>1, ObjectAt
    <2>3. ObjectNow' = [g \in DOMAIN ObjectNow \ {h} |-> ObjectNow[g]]
        BY <1>2, <2>1, <2>2
    <2>4. BufferObjects' = {ObjectNow[g] : g \in DOMAIN ObjectNow \ {h}}
        BY <1>3, <2>1, <2>2
    <2>5. QED
        BY <1>4, <2>3, <2>4
<1>5. CASE c # None
    <2>1. {f \in Handles : handle'[f] # None} = DOMAIN ObjectNow \cup {h}
        BY <1>1, <1>5, ObjectAt
    <2>2. \A g \in DOMAIN ObjectNow \cup {h} : handle'[g] = IF g = h THEN c ELSE ObjectNow[g]
        BY <1>1, ObjectAt
    <2>3. ObjectNow' = [g \in DOMAIN ObjectNow \cup {h} |-> IF g = h THEN c ELSE ObjectNow[g]]
        BY <1>2, <2>1, <2>2
    <2>4. handle[h] = None => BufferObjects' = BufferObjects \cup {c}
        <3>1. handle[h] = None => h \notin DOMAIN ObjectNow
            BY ObjectAt
        <3>2. BufferObjects' = {IF g = h THEN c ELSE ObjectNow[g] : g \in DOMAIN ObjectNow \cup {h}}
            BY <1>3, <2>1, <2>2
        <3>3. BufferObjects = {ObjectNow[g] : g \in DOMAIN ObjectNow}
            BY ObjectAt
        <3>4. QED
            BY <3>1, <3>2, <3>3
    <2>5. QED
        BY <1>5, <2>3, <2>4
<1>6. QED
    BY <1>4, <1>5

\* A handle begins on a Buffer of its own.
LEMMA NewBufferValue ==
    ASSUME CInv, NEW h \in Handles, handle[h] = None, NEW b \in FreshBuffers, Hands(h, b),
           OthersSame(b), NEW bytes, BytesOf(heap', buffer'[b]) = bytes
    PROVE  ByteContents!NewBuffer(h, bytes)
<1>1. b \in Buffers /\ b # None /\ b \notin BufferObjects /\ BufferObjects \subseteq Buffers
    BY BufferObjectFacts, BuffersAssumption
<1>2. h \in Handles \ DOMAIN ObjectNow /\ b \in Buffers \ DOMAIN ContentNow
    BY <1>1, ObjectAt, ContentAt
<1>3. ObjectNow' = [g \in DOMAIN ObjectNow \cup {h} |-> IF g = h THEN b ELSE ObjectNow[g]]
    BY <1>1, HandlesNow
<1>4. BufferObjects' = BufferObjects \cup {b}
    BY <1>1, HandlesNow
<1>5. ContentNow' = [c \in DOMAIN ContentNow \cup {b} |-> IF c = b THEN bytes ELSE ContentNow[c]]
    <2>1. ContentNow' = [c \in BufferObjects' |-> BytesOf(heap', buffer'[c])]
        BY DEF ContentNow
    <2>2. \A c \in BufferObjects \cup {b} :
            BytesOf(heap', buffer'[c]) = IF c = b THEN bytes ELSE ContentNow[c]
        BY <1>1, ContentAt DEF OthersSame
    <2>3. QED
        BY <1>4, <2>1, <2>2, ContentAt
<1>6. QED
    BY <1>2, <1>3, <1>5 DEF ByteContents!NewBuffer, ByteContents!Held, ObjectNow, ContentNow

\* A handle ends; a Buffer that other handles denote keeps its bytes.
LEMMA EndHandleValue ==
    ASSUME CInv, NEW h \in Handles, handle[h] # None, NEW b, b = handle[h], Hands(h, None),
           OthersSame(b),
           buffer[b].references # 1 => BytesOf(heap', buffer'[b]) = BytesOf(heap, buffer[b])
    PROVE  ByteContents!EndHandle(h)
<1>1. h \in DOMAIN ObjectNow
    BY ObjectAt
<1>2. /\ ObjectNow' = [g \in DOMAIN ObjectNow \ {h} |-> ObjectNow[g]]
      /\ BufferObjects' = {ObjectNow[g] : g \in DOMAIN ObjectNow \ {h}}
    BY HandlesNow
<1>3. ASSUME NEW g \in DOMAIN ObjectNow \ {h}
      PROVE  LET c == ObjectNow[g]
             IN  c \in Buffers /\ c \in BufferObjects
                 /\ BytesOf(heap', buffer'[c]) = BytesOf(heap, buffer[c])
    <2> DEFINE c == ObjectNow[g]
    <2>1. g \in Handles /\ c = handle[g] /\ c \in BufferObjects /\ c \in Buffers
        BY ObjectAt, BufferObjectFacts
    <2>2. CASE c # b
        BY <2>1, <2>2 DEF OthersSame
    <2>3. CASE c = b
        <3>1. {g, h} \subseteq HandlesOf(handle, b) /\ g # h
            BY <2>1, <2>3 DEF HandlesOf
        <3>2. IsFiniteSet(HandlesOf(handle, b)) /\ Cardinality(HandlesOf(handle, b)) \in Nat
            BY HandlesFinite
        <3>3. Cardinality(HandlesOf(handle, b)) # 1
            <4>1. Cardinality(HandlesOf(handle, b) \ {h}) = Cardinality(HandlesOf(handle, b)) - 1
                BY <3>1, <3>2, FS_RemoveElement
            <4>2. IsFiniteSet(HandlesOf(handle, b) \ {h}) /\ HandlesOf(handle, b) \ {h} # {}
                BY <3>1, <3>2, FS_RemoveElement
            <4>3. Cardinality(HandlesOf(handle, b) \ {h}) # 0
                BY <4>2, FS_EmptySet
            <4>4. QED
                BY <3>2, <4>1, <4>3
        <3>4. buffer[b].references = Cardinality(HandlesOf(handle, b))
            BY <2>1, <2>3 DEF CInv, HandleCounts
        <3>5. QED
            BY <2>1, <2>3, <3>3, <3>4
    <2>4. QED
        BY <2>2, <2>3
<1>4. ContentNow' = [c \in {ObjectNow[g] : g \in DOMAIN ObjectNow \ {h}} |-> ContentNow[c]]
    <2>1. ContentNow' = [c \in BufferObjects' |-> BytesOf(heap', buffer'[c])]
        BY DEF ContentNow
    <2>2. \A c \in {ObjectNow[g] : g \in DOMAIN ObjectNow \ {h}} :
            BytesOf(heap', buffer'[c]) = ContentNow[c]
        BY <1>3, ContentAt
    <2>3. QED
        BY <1>2, <2>1, <2>2
<1>5. QED
    BY <1>1, <1>2, <1>4 DEF ByteContents!EndHandle, ByteContents!Held, ObjectNow, ContentNow

\* The bytes of the Buffer of h become others, for every handle that denotes it.
LEMMA SetBytesValue ==
    ASSUME CInv, NEW h \in Handles, handle[h] # None, NEW b, b = handle[h], UNCHANGED handle,
           OthersSame(b), NEW bytes, BytesOf(heap', buffer'[b]) = bytes
    PROVE  ByteContents!SetBytes(h, bytes)
<1>1. h \in DOMAIN ObjectNow /\ ObjectNow[h] = b /\ b \in BufferObjects /\ BufferObjects \subseteq Buffers
    BY ObjectAt, BufferObjectFacts
<1>2. ObjectNow' = ObjectNow /\ BufferObjects' = BufferObjects
    BY DEF ObjectNow, BufferObjects
<1>3. ContentNow' = [ContentNow EXCEPT ![ObjectNow[h]] = bytes]
    <2>1. ContentNow' = [c \in BufferObjects |-> BytesOf(heap', buffer'[c])]
        BY <1>2 DEF ContentNow
    <2>2. \A c \in BufferObjects : BytesOf(heap', buffer'[c]) = IF c = b THEN bytes ELSE ContentNow[c]
        BY <1>1, ContentAt DEF OthersSame
    <2>3. ContentNow = [c \in BufferObjects |-> ContentNow[c]]
        BY ContentAt DEF ContentNow
    <2>4. QED
        BY <1>1, <2>1, <2>2, <2>3
<1>4. QED
    BY <1>1, <1>2, <1>3 DEF ByteContents!SetBytes, ByteContents!Held, ObjectNow, ContentNow

LEMMA ShareHandleValue ==
    ASSUME CInv, NEW h \in Handles, handle[h] # None, NEW b, b = handle[h],
           NEW g \in Handles, handle[g] = None, Hands(g, b), OthersSame(b),
           BytesOf(heap', buffer'[b]) = BytesOf(heap, buffer[b])
    PROVE  ByteContents!ShareHandle(h, g)
<1>1. /\ h \in DOMAIN ObjectNow /\ ObjectNow[h] = b /\ g \in Handles \ DOMAIN ObjectNow
      /\ b \in BufferObjects /\ BufferObjects \subseteq Buffers /\ b # None
    BY ObjectAt, BufferObjectFacts
<1>2. ObjectNow' = [k \in DOMAIN ObjectNow \cup {g} |-> IF k = g THEN ObjectNow[h] ELSE ObjectNow[k]]
    <2>1. b \in Buffers \cup {None} /\ b # None
        BY <1>1
    <2>2. ObjectNow' = [k \in DOMAIN ObjectNow \cup {g} |-> IF k = g THEN b ELSE ObjectNow[k]]
        BY <2>1, HandlesNow
    <2>3. QED
        BY <1>1, <2>2
<1>3. BufferObjects' = BufferObjects
    <2>1. b \in Buffers \cup {None} /\ b # None
        BY <1>1
    <2>2. BufferObjects' = BufferObjects \cup {b}
        BY <2>1, HandlesNow
    <2>3. QED
        BY <1>1, <2>2
<1>4. ContentNow' = ContentNow
    <2>1. ContentNow' = [c \in BufferObjects |-> BytesOf(heap', buffer'[c])]
        BY <1>3 DEF ContentNow
    <2>2. \A c \in BufferObjects : BytesOf(heap', buffer'[c]) = BytesOf(heap, buffer[c])
        BY <1>1 DEF OthersSame
    <2>3. QED
        BY <2>1, <2>2 DEF ContentNow
<1>5. QED
    BY <1>1, <1>2, <1>4 DEF ByteContents!ShareHandle, ByteContents!Held, ObjectNow, ContentNow

LEMMA BuffersUnchanged ==
    ASSUME CInv, UNCHANGED bufferVars, BuffersSame
    PROVE  ObjectNow' = ObjectNow /\ ContentNow' = ContentNow
<1>1. handle' = handle /\ buffer' = buffer
    BY DEF bufferVars
<1>2. BufferObjects' = BufferObjects /\ BufferObjects \subseteq Buffers
    BY <1>1, BufferObjectFacts DEF BufferObjects
<1>3. ContentNow' = [c \in BufferObjects |-> BytesOf(heap', buffer'[c])]
    BY <1>2 DEF ContentNow
<1>4. QED
    BY <1>1, <1>2, <1>3 DEF ObjectNow, ContentNow, BuffersSame

LEMMA BecomesByteValue ==
    ASSUME NEW d, NEW content, NEW ended, Becomes(d, content, ended)
    PROVE  ByteContents!Become(d, content, ended)
<1>1. Values!Become(d, content, ended)
    BY BecomesValue
<1>2. QED
    BY <1>1 DEF Values!Become, Values!InUse, ByteContents!Become, ByteContents!InUse

LEMMA ValuesUnchanged ==
    ASSUME UNCHANGED <<live, view>>, Alike(live)
    PROVE  ValueNow' = ValueNow
BY DEF ValueNow, Alike

\* The Symbols' own steps mean the same in both.
LEMMA SameNext == Values!Next => ByteContents!Next
BY DEF Values!Next, Values!Introduce, Values!Slice, Values!Concatenate, Values!End, Values!Become,
       Values!InUse, ByteContents!Next, ByteContents!Introduce, ByteContents!Slice,
       ByteContents!Concatenate, ByteContents!End, ByteContents!Become, ByteContents!InUse

LEMMA BytesAtValue ==
    ASSUME CInv, NEW h \in Handles, handle[h] # None
    PROVE  /\ ByteContents!BufferBytes(h) = BytesOf(heap, buffer[handle[h]])
           /\ h \in ByteContents!Held
<1>1. h \in DOMAIN ObjectNow /\ ObjectNow[h] = handle[h] /\ handle[h] \in BufferObjects
    BY ObjectAt, BufferObjectFacts
<1>2. ContentNow[handle[h]] = BytesOf(heap, buffer[handle[h]])
    BY <1>1, ContentAt
<1>3. QED
    BY <1>1, <1>2 DEF ByteContents!BufferBytes, ByteContents!Held, ObjectNow, ContentNow

LEMMA MutateValue ==
    ASSUME DInv, NEW h \in Handles, handle[h] # None, NEW b, b = handle[h],
           UNCHANGED <<live, view, handle>>, Alike(live), OthersSame(b),
           LET old == BytesOf(heap, buffer[b])
               new == BytesOf(heap', buffer'[b])
           IN  \/ \E v \in NewBytes : new = Append(old, v)
               \/ \E v \in NewBytes : \E i \in DOMAIN old : new = [old EXCEPT ![i] = v]
               \/ \E n \in 0..Len(old) : new = SubSeq(old, 1, n)
    PROVE  (\E g \in Handles : ByteContents!Mutate(g)) /\ ValueNow' = ValueNow
<1>1. CInv
    BY DInvCounts
<1>2. PICK old : old = BytesOf(heap, buffer[b])
    OBVIOUS
<1>3. PICK new : new = BytesOf(heap', buffer'[b])
    OBVIOUS
<1>4. ByteContents!BufferBytes(h) = old /\ h \in ByteContents!Held
    BY <1>1, <1>2, BytesAtValue
<1>5. ByteContents!SetBytes(h, new)
    BY <1>1, <1>3, SetBytesValue
<1>6. \/ \E v \in NewBytes : new = Append(old, v)
      \/ \E v \in NewBytes : \E i \in DOMAIN old : new = [old EXCEPT ![i] = v]
      \/ \E n \in 0..Len(old) : new = SubSeq(old, 1, n)
    BY <1>2, <1>3
<1>7. ByteContents!Mutate(h)
    BY <1>4, <1>5, <1>6 DEF ByteContents!Mutate
<1>8. QED
    BY <1>7, ValuesUnchanged

LEMMA ToSymbolValue ==
    ASSUME CInv, NEW h \in Handles, handle[h] # None, NEW d,
           Becomes(d, BytesOf(heap, buffer[handle[h]]), {}),
           ByteContents!EndHandle(h) \/ (ObjectNow' = ObjectNow /\ ContentNow' = ContentNow)
    PROVE  ByteContents!ToSymbol(h, d)
<1>1. PICK bytes : bytes = BytesOf(heap, buffer[handle[h]])
    OBVIOUS
<1>2. ByteContents!BufferBytes(h) = bytes /\ h \in ByteContents!Held
    BY <1>1, BytesAtValue
<1>3. ByteContents!Become(d, bytes, {})
    BY <1>1, BecomesByteValue
<1>4. QED
    BY <1>2, <1>3 DEF ByteContents!ToSymbol, ObjectNow, ContentNow

LEMMA ToBufferValue ==
    ASSUME NEW s \in live, NEW h, NEW bytes, bytes = Contents(s), ByteContents!NewBuffer(h, bytes),
           \/ ValueNow' = ValueNow
           \/ live' = live \ {s} /\ Alike(live \ {s})
    PROVE  ByteContents!ToBuffer(s, h)
<1>1. s \in DOMAIN ValueNow /\ ValueNow[s] = bytes
    BY ValueAt
<1>2. ValueNow' = ValueNow \/ ValueNow' = [c \in DOMAIN ValueNow \ {s} |-> ValueNow[c]]
    <2>1. DOMAIN ValueNow = live /\ \A c \in live : ValueNow[c] = Contents(c)
        BY DEF ValueNow
    <2>2. ASSUME live' = live \ {s}, Alike(live \ {s})
          PROVE  ValueNow' = [c \in DOMAIN ValueNow \ {s} |-> ValueNow[c]]
        BY <2>1, <2>2 DEF ValueNow, Alike
    <2>3. QED
        BY <2>2
<1>3. s \in ByteContents!InUse
    BY <1>1 DEF ByteContents!InUse, ValueNow
<1>4. PICK found : found = ValueNow[s]
    OBVIOUS
<1>5. ByteContents!NewBuffer(h, found)
    BY <1>1, <1>4 DEF ByteContents!NewBuffer
<1>6. ByteContents!NewBuffer(h, ValueNow[s])
    BY <1>4, <1>5 DEF ByteContents!NewBuffer
<1>7. QED
    BY <1>2, <1>3, <1>6 DEF ByteContents!ToBuffer, ByteContents!InUse, ValueNow

ByteStep ==
    \/ ByteContents!ByteNext
    \/ ValueNow' = ValueNow /\ ObjectNow' = ObjectNow /\ ContentNow' = ContentNow

LEMMA SymbolsByteStep ==
    ASSUME ~AliasedOperands, DInv, [Next]_vars, UNCHANGED bufferVars
    PROVE  ByteStep
<1>1. PICK extra \in [Owners -> Nat] : WInv(extra)
    BY DEF DInv
<1>2. ObjectNow' = ObjectNow /\ ContentNow' = ContentNow
    BY DInvCounts, SymbolsReads, BuffersUnchanged
<1>3. Values!Next \/ ValueNow' = ValueNow
    BY <1>1, NextValue
<1>4. CASE ValueNow' = ValueNow
    BY <1>2, <1>4 DEF ByteStep
<1>5. CASE Values!Next
    <2>1. ByteContents!Next
        BY <1>5, SameNext
    <2>2. ByteContents!ByteNext
        BY <1>2, <2>1 DEF ByteContents!ByteNext, ObjectNow, ContentNow
    <2>3. QED
        BY <2>2 DEF ByteStep
<1>6. QED
    BY <1>3, <1>4, <1>5

\* Every conversion step is one of the abstract machine, or stutters.
LEMMA NextByteValue ==
    ASSUME ~AliasedOperands, DInv, [ConversionsNext]_allVars
    PROVE  ByteStep
<1>0. CInv
    BY DInvCounts
<1>1. CASE Next /\ UNCHANGED bufferVars
    BY <1>1, SymbolsByteStep
<1>2. CASE \E h \in Handles : \E capacity \in 0..MaxLength : BufferMake(h, capacity)
    <2>1. PICK h \in Handles, capacity \in 0..MaxLength : BufferMake(h, capacity)
        BY <1>2
    <2>2. PICK b \in FreshBuffers : /\ Alike(live) /\ OthersSame(b) /\ Hands(h, b)
                                    /\ BytesOf(heap', buffer'[b]) = <<>>
        BY <2>1, MakeReads
    <2>3. handle[h] = None /\ UNCHANGED <<live, view>>
        BY <2>1 DEF BufferMake
    <2>4. ByteContents!NewBuffer(h, <<>>)
        BY <1>0, <2>2, <2>3, NewBufferValue
    <2>5. ValueNow' = ValueNow
        BY <2>2, <2>3, ValuesUnchanged
    <2>6. ByteContents!ByteNext
        BY <2>4, <2>5 DEF ByteContents!ByteNext, ValueNow
    <2>7. QED
        BY <2>6 DEF ByteStep
<1>3. CASE \E h \in Handles, v \in NewBytes : BufferNew(h, v)
    <2>1. PICK h \in Handles, v \in NewBytes : BufferNew(h, v)
        BY <1>3
    <2>2. handle[h] # None /\ UNCHANGED <<live, view, handle>>
        BY <2>1 DEF BufferNew
    <2>3. PICK b : b = handle[h]
        OBVIOUS
    <2>4. /\ Alike(live) /\ OthersSame(b)
          /\ BytesOf(heap', buffer'[b]) = Append(BytesOf(heap, buffer[b]), v)
        BY <2>1, <2>3, NewReads
    <2>5. (\E g \in Handles : ByteContents!Mutate(g)) /\ ValueNow' = ValueNow
        BY <2>2, <2>3, <2>4, MutateValue
    <2>6. ByteContents!ByteNext
        BY <2>5 DEF ByteContents!ByteNext, ValueNow
    <2>7. QED
        BY <2>6 DEF ByteStep
<1>4. CASE \E h \in Handles, v \in NewBytes : \E i \in 0..MaxLength : BufferReplace(h, i, v)
    <2>1. PICK h \in Handles, v \in NewBytes, i \in 0..MaxLength : BufferReplace(h, i, v)
        BY <1>4
    <2>2. handle[h] # None /\ UNCHANGED <<live, view, handle>>
        BY <2>1 DEF BufferReplace
    <2>3. PICK b : b = handle[h]
        OBVIOUS
    <2>4. /\ Alike(live) /\ OthersSame(b) /\ i + 1 \in DOMAIN BytesOf(heap, buffer[b])
          /\ BytesOf(heap', buffer'[b]) = [BytesOf(heap, buffer[b]) EXCEPT ![i + 1] = v]
        BY <2>1, <2>3, ReplaceReads
    <2>5. (\E g \in Handles : ByteContents!Mutate(g)) /\ ValueNow' = ValueNow
        BY <2>2, <2>3, <2>4, MutateValue
    <2>6. ByteContents!ByteNext
        BY <2>5 DEF ByteContents!ByteNext, ValueNow
    <2>7. QED
        BY <2>6 DEF ByteStep
<1>5. CASE \E h \in Handles : \E n \in 0..MaxLength : BufferTruncate(h, n)
    <2>1. PICK h \in Handles, n \in 0..MaxLength : BufferTruncate(h, n)
        BY <1>5
    <2>2. handle[h] # None /\ UNCHANGED <<live, view, handle>>
        BY <2>1 DEF BufferTruncate, vars
    <2>3. PICK b : b = handle[h]
        OBVIOUS
    <2>4. /\ Alike(live) /\ OthersSame(b) /\ n \in 0..Len(BytesOf(heap, buffer[b]))
          /\ BytesOf(heap', buffer'[b]) = SubSeq(BytesOf(heap, buffer[b]), 1, n)
        BY <2>1, <2>3, TruncateReads
    <2>5. (\E g \in Handles : ByteContents!Mutate(g)) /\ ValueNow' = ValueNow
        BY <2>2, <2>3, <2>4, MutateValue
    <2>6. ByteContents!ByteNext
        BY <2>5 DEF ByteContents!ByteNext, ValueNow
    <2>7. QED
        BY <2>6 DEF ByteStep
<1>6. CASE \E h \in Handles : \E n \in 0..MaxLength : BufferReserve(h, n)
    <2>1. PICK h \in Handles, n \in 0..MaxLength : BufferReserve(h, n)
        BY <1>6
    <2>2. handle[h] # None /\ UNCHANGED <<live, view, handle>>
        BY <2>1 DEF BufferReserve
    <2>3. PICK b : b = handle[h]
        OBVIOUS
    <2>4. /\ Alike(live) /\ OthersSame(b) /\ BytesOf(heap', buffer'[b]) = BytesOf(heap, buffer[b])
        BY <2>1, <2>3, BufferReserveReads
    <2>5. ObjectNow' = ObjectNow /\ BufferObjects' = BufferObjects /\ BufferObjects \subseteq Buffers
        BY <1>0, <2>2, BufferObjectFacts DEF ObjectNow, BufferObjects
    <2>6. ContentNow' = ContentNow
        <3>1. ContentNow' = [c \in BufferObjects |-> BytesOf(heap', buffer'[c])]
            BY <2>5 DEF ContentNow
        <3>2. \A c \in BufferObjects : BytesOf(heap', buffer'[c]) = BytesOf(heap, buffer[c])
            BY <2>4, <2>5 DEF OthersSame
        <3>3. QED
            BY <3>1, <3>2 DEF ContentNow
    <2>7. ValueNow' = ValueNow
        BY <2>2, <2>4, ValuesUnchanged
    <2>8. QED
        BY <2>5, <2>6, <2>7 DEF ByteStep
<1>7. CASE \E h, g \in Handles : BufferRetain(h, g)
    <2>1. PICK h \in Handles, g \in Handles : BufferRetain(h, g)
        BY <1>7
    <2>2. handle[h] # None /\ handle[g] = None /\ UNCHANGED <<live, view>>
        BY <2>1 DEF BufferRetain, vars
    <2>3. PICK b : b = handle[h]
        OBVIOUS
    <2>4. /\ Alike(live) /\ OthersSame(b) /\ Hands(g, b)
          /\ BytesOf(heap', buffer'[b]) = BytesOf(heap, buffer[b])
        BY <2>1, <2>3, RetainReads
    <2>5. ByteContents!ShareHandle(h, g)
        BY <1>0, <2>2, <2>3, <2>4, ShareHandleValue
    <2>6. ValueNow' = ValueNow
        BY <2>2, <2>4, ValuesUnchanged
    <2>7. ByteContents!ByteNext
        BY <2>5, <2>6 DEF ByteContents!ByteNext, ValueNow
    <2>8. QED
        BY <2>7 DEF ByteStep
<1>8. CASE \E h \in Handles : BufferRelease(h)
    <2>1. PICK h \in Handles : BufferRelease(h)
        BY <1>8
    <2>2. handle[h] # None /\ UNCHANGED <<live, view>>
        BY <2>1 DEF BufferRelease
    <2>3. PICK b : b = handle[h]
        OBVIOUS
    <2>4. /\ Alike(live) /\ OthersSame(b) /\ Hands(h, None)
          /\ buffer[b].references # 1 => BytesOf(heap', buffer'[b]) = BytesOf(heap, buffer[b])
        BY <2>1, <2>3, ReleaseReads
    <2>5. ByteContents!EndHandle(h)
        BY <1>0, <2>2, <2>3, <2>4, EndHandleValue
    <2>6. ValueNow' = ValueNow
        BY <2>2, <2>4, ValuesUnchanged
    <2>7. ByteContents!ByteNext
        BY <2>5, <2>6 DEF ByteContents!ByteNext, ValueNow
    <2>8. QED
        BY <2>7 DEF ByteStep
<1>9. CASE \E h \in Handles, d \in Bindings : BufferToSymbol(h, d)
    <2>1. PICK h \in Handles, d \in Bindings : BufferToSymbol(h, d)
        BY <1>9
    <2>2. /\ BuffersSame /\ UNCHANGED bufferVars
          /\ handle[h] # None /\ Becomes(d, BytesOf(heap, buffer[handle[h]]), {})
        BY <2>1, ToSymbolReads
    <2>3. ObjectNow' = ObjectNow /\ ContentNow' = ContentNow
        BY <1>0, <2>2, BuffersUnchanged
    <2>4. ByteContents!ToSymbol(h, d)
        BY <1>0, <2>2, <2>3, ToSymbolValue
    <2>5. ByteContents!ByteNext
        BY <2>4 DEF ByteContents!ByteNext
    <2>6. QED
        BY <2>5 DEF ByteStep
<1>10. CASE \E h \in Handles, d \in Bindings : BufferIntoSymbol(h, d)
    <2>1. PICK h \in Handles, d \in Bindings : BufferIntoSymbol(h, d)
        BY <1>10
    <2>2. PICK b : b = handle[h]
        OBVIOUS
    <2>3. /\ OthersSame(b) /\ handle[h] # None /\ Hands(h, None)
          /\ Becomes(d, BytesOf(heap, buffer[b]), {})
          /\ buffer[b].references # 1 => BytesOf(heap', buffer'[b]) = BytesOf(heap, buffer[b])
        BY <2>1, <2>2, IntoSymbolReads
    <2>4. ByteContents!EndHandle(h)
        BY <1>0, <2>2, <2>3, EndHandleValue
    <2>5. ByteContents!ToSymbol(h, d)
        BY <1>0, <2>2, <2>3, <2>4, ToSymbolValue
    <2>6. ByteContents!ByteNext
        BY <2>5 DEF ByteContents!ByteNext
    <2>7. QED
        BY <2>6 DEF ByteStep
<1>11. CASE \E s \in Bindings, h \in Handles : SymbolToBuffer(s, h)
    <2>1. PICK s \in Bindings, h \in Handles : SymbolToBuffer(s, h)
        BY <1>11
    <2>2. s \in live /\ handle[h] = None /\ UNCHANGED <<live, view>>
        BY <2>1 DEF SymbolToBuffer
    <2>0. PICK bytes : bytes = Contents(s)
        OBVIOUS
    <2>3. PICK b \in FreshBuffers : /\ Alike(live) /\ OthersSame(b) /\ Hands(h, b)
                                    /\ BytesOf(heap', buffer'[b]) = bytes
        BY <2>0, <2>1, ToBufferReads
    <2>4. ByteContents!NewBuffer(h, bytes)
        BY <1>0, <2>2, <2>3, NewBufferValue
    <2>5. ValueNow' = ValueNow
        BY <2>2, <2>3, ValuesUnchanged
    <2>6. ByteContents!ToBuffer(s, h)
        BY <2>0, <2>2, <2>4, <2>5, ToBufferValue
    <2>7. ByteContents!ByteNext
        BY <2>6 DEF ByteContents!ByteNext
    <2>8. QED
        BY <2>7 DEF ByteStep
<1>12. CASE \E s \in Bindings, h \in Handles : SymbolIntoBuffer(s, h)
    <2>1. PICK s \in Bindings, h \in Handles : SymbolIntoBuffer(s, h)
        BY <1>12
    <2>2. s \in live /\ handle[h] = None /\ live' = live \ {s}
        BY <2>1, IntoBufferReads
    <2>0. PICK bytes : bytes = Contents(s)
        OBVIOUS
    <2>3. PICK b \in FreshBuffers : /\ Alike(live \ {s}) /\ OthersSame(b) /\ Hands(h, b)
                                    /\ BytesOf(heap', buffer'[b]) = bytes
        BY <2>0, <2>1, IntoBufferReads
    <2>4. ByteContents!NewBuffer(h, bytes)
        BY <1>0, <2>2, <2>3, NewBufferValue
    <2>5. ByteContents!ToBuffer(s, h)
        BY <2>0, <2>2, <2>3, <2>4, ToBufferValue
    <2>6. ByteContents!ByteNext
        BY <2>5 DEF ByteContents!ByteNext
    <2>7. QED
        BY <2>6 DEF ByteStep
<1>13. CASE UNCHANGED allVars
    <2>1. UNCHANGED vars /\ UNCHANGED bufferVars
        BY <1>13 DEF allVars, vars, bufferVars
    <2>2. QED
        BY <2>1, SymbolsByteStep
<1>14. QED
    BY <1>1, <1>2, <1>3, <1>4, <1>5, <1>6, <1>7, <1>8, <1>9, <1>10, <1>11, <1>12, <1>13
       DEF ConversionsNext

LEMMA InitByteValue == Init /\ InitBuffers => ByteContents!ByteInit
<1> SUFFICES ASSUME Init, InitBuffers
             PROVE  ValueNow = <<>> /\ ObjectNow = <<>> /\ ContentNow = <<>>
    BY DEF ByteContents!ByteInit, ByteContents!Init, ValueNow, ObjectNow, ContentNow
<1>1. ValueNow = <<>>
    BY InitValue DEF Values!Init, ValueNow
<1>2. \A h \in Handles : handle[h] = None
    BY DEF InitBuffers
<1>3. {g \in Handles : handle[g] # None} = {}
    BY <1>2
<1>4. ObjectNow = <<>>
    <2>1. ObjectNow = [h \in {} |-> handle[h]]
        BY <1>3 DEF ObjectNow
    <2>2. QED
        BY <2>1
<1>5. ContentNow = <<>>
    <2>1. BufferObjects = {}
        BY <1>3 DEF BufferObjects
    <2>2. ContentNow = [b \in {} |-> BytesOf(heap, buffer[b])]
        BY <2>1 DEF ContentNow
    <2>3. QED
        BY <2>2
<1>6. QED
    BY <1>1, <1>4, <1>5

\* Every run of the conversions is one of immutable Symbols and identity-bearing Buffers, at any
\* sizes and for any number of bindings, handles and objects: a Buffer's bytes change only for
\* the handles that denote it, and a byte owner moved or adopted at a last use cannot be told
\* from the snapshot that buffer_symbol.c promises.
THEOREM ImplementsByteValuesCorrect ==
    ASSUME ~AliasedOperands
    PROVE  ConversionsSpec => ImplementsByteValues
<1>1. DInv /\ [ConversionsNext]_allVars
        => [ByteContents!ByteNext]_<<ValueNow, ObjectNow, ContentNow>>
    BY NextByteValue DEF ByteStep
<1>2. QED
    BY <1>1, DInvInvariant, InitByteValue, PTL
       DEF ConversionsSpec, ImplementsByteValues, ByteContents!ByteSpec, ValueNow, ObjectNow, ContentNow

=============================================================================

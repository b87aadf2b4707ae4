--------------------------- MODULE Symbols_proofs ---------------------------
(***************************************************************************)
(* Proofs about Symbols, for every number of bindings and owners, every    *)
(* program's literals and host inputs, every capacity policy and every     *)
(* size bound: first the counts of owners, then, while no concatenation    *)
(* consumes a binding whose alias is its other operand (AliasedOperands is *)
(* FALSE), what Symbols read and that they are immutable values.           *)
(***************************************************************************)
EXTENDS Symbols, FiniteSetTheorems, TLAPS

Cell == Byte \cup {Junk}

\* The heaps whose owners are well formed.
Heaps == {h \in [Owners -> FlatHeader] : \A o \in Owners : Len(h[o].bytes) = h[o].capacity}

\* An access stays inside a static owner's bytes.
InStatic(o, d, n) == o \in Statics => d + n <= Len(StaticBytes[o])

-----------------------------------------------------------------------------
(* The operators on bytes and headers. *)

LEMMA StaticCell ==
    ASSUME NEW o \in Statics, NEW i \in 1..Len(StaticBytes[o])
    PROVE  StaticBytes[o][i] \in Byte
<1>1. StaticBytes[o] \in Seq(Byte)
    BY BytesAssumption
<1>2. QED
    BY <1>1

LEMMA ReadType ==
    ASSUME NEW h \in Heaps, NEW o, NEW d \in Nat, NEW n \in Nat, InStatic(o, d, n)
    PROVE  /\ Read(h, o, d, n) \in Seq(Cell)
           /\ Len(Read(h, o, d, n)) = n
           /\ DOMAIN Read(h, o, d, n) = 1..n
<1>1. ASSUME NEW i \in 1..n
      PROVE  (CASE o \in Statics -> StaticBytes[o][d + i]
                [] o \in Owners /\ d + i \in 1..h[o].capacity -> h[o].bytes[d + i]
                [] OTHER -> Junk) \in Cell
    <2>1. CASE o \in Statics
        <3>1. d + i \in 1..Len(StaticBytes[o])
            <4>1. Len(StaticBytes[o]) \in Nat
                BY <2>1, BytesAssumption
            <4>2. QED
                BY <2>1, <4>1 DEF InStatic
        <3>2. o \notin Owners
            BY <2>1, OwnersAssumption
        <3>3. StaticBytes[o][d + i] \in Byte
            BY <2>1, <3>1, StaticCell
        <3>4. QED
            BY <2>1, <3>2, <3>3 DEF Cell
    <2>2. CASE o \notin Statics /\ o \in Owners /\ d + i \in 1..h[o].capacity
        <3>1. h[o].bytes \in Seq(Cell) /\ Len(h[o].bytes) = h[o].capacity
            BY <2>2 DEF Heaps, FlatHeader, Cell
        <3>2. h[o].bytes[d + i] \in Cell
            BY <2>2, <3>1
        <3>3. QED
            BY <2>2, <3>2
    <2>3. CASE o \notin Statics /\ ~(o \in Owners /\ d + i \in 1..h[o].capacity)
        BY <2>3 DEF Cell
    <2>4. QED
        BY <2>1, <2>2, <2>3
<1>2. Read(h, o, d, n) \in [1..n -> Cell]
    BY <1>1 DEF Read
<1>3. QED
    BY <1>2

LEMMA WriteType ==
    ASSUME NEW bytes \in Seq(Cell), NEW capacity \in Nat, NEW d \in Int, NEW new \in Seq(Cell)
    PROVE  /\ Write(bytes, capacity, d, new) \in Seq(Cell)
           /\ Len(Write(bytes, capacity, d, new)) = capacity
<1>1. ASSUME NEW i \in 1..capacity
      PROVE  (IF i \in (d + 1)..(d + Len(new)) THEN new[i - d]
              ELSE IF i \in DOMAIN bytes THEN bytes[i] ELSE Junk) \in Cell
    <2>1. CASE i \in (d + 1)..(d + Len(new))
        <3>1. i - d \in 1..Len(new)
            BY <2>1
        <3>2. QED
            BY <2>1, <3>1
    <2>2. CASE i \notin (d + 1)..(d + Len(new))
        BY <2>2 DEF Cell
    <2>3. QED
        BY <2>1, <2>2
<1>2. Write(bytes, capacity, d, new) \in [1..capacity -> Cell]
    BY <1>1 DEF Write
<1>3. QED
    BY <1>2

LEMMA EmptyCells == <<>> \in Seq(Cell)
OBVIOUS

LEMMA FlatOwnerType ==
    ASSUME NEW content \in Seq(Cell), NEW capacity \in Nat, NEW start \in Nat
    PROVE  /\ FlatOwner(content, capacity, start) \in FlatHeader
           /\ Len(FlatOwner(content, capacity, start).bytes)
                = FlatOwner(content, capacity, start).capacity
           /\ FlatOwner(content, capacity, start).references = 1
<1>1. /\ Write(<<>>, capacity, start, content) \in Seq(Cell)
      /\ Len(Write(<<>>, capacity, start, content)) = capacity
    <2>1. start \in Int
        OBVIOUS
    <2>2. QED
        BY <2>1, WriteType, EmptyCells, Zenon
<1>2. Len(content) \in Nat
    OBVIOUS
<1>3. QED
    BY <1>1, <1>2 DEF FlatOwner, FlatHeader, Cell

LEMMA FreedType == Freed \in FlatHeader /\ Len(Freed.bytes) = Freed.capacity
BY DEF Freed, FlatHeader

LEMMA HeapUpdate ==
    ASSUME NEW h \in Heaps, NEW o \in Owners, NEW x \in FlatHeader, Len(x.bytes) = x.capacity
    PROVE  [h EXCEPT ![o] = x] \in Heaps
BY DEF Heaps

\* A header with another count is as well formed.
LEMMA CountedHeader ==
    ASSUME NEW x \in FlatHeader, NEW n \in Nat, Len(x.bytes) = x.capacity
    PROVE  LET y == [x EXCEPT !.references = n]
           IN  y \in FlatHeader /\ y.references = n /\ Len(y.bytes) = y.capacity
BY DEF FlatHeader

\* Retain and Release keep a heap well formed and count by one.
LEMMA RetainHeap ==
    ASSUME NEW h \in Heaps, NEW o
    PROVE  /\ Retain(h, o) \in Heaps
           /\ \A q \in Owners : Retain(h, o)[q].references
                                  = h[q].references + (IF q = o THEN 1 ELSE 0)
<1>0. /\ h \in [Owners -> FlatHeader]
      /\ \A q \in Owners : Len(h[q].bytes) = h[q].capacity /\ h[q].references \in Nat
    BY DEF Heaps, FlatHeader
<1>1. CASE o \notin Owners
    BY <1>0, <1>1 DEF Retain
<1>2. CASE o \in Owners
    <2> DEFINE y == [h[o] EXCEPT !.references = h[o].references + 1]
    <2>0. h[o] \in FlatHeader /\ h[o].references + 1 \in Nat /\ Len(h[o].bytes) = h[o].capacity
        BY <1>0, <1>2
    <2>1. y \in FlatHeader /\ y.references = h[o].references + 1 /\ Len(y.bytes) = y.capacity
        BY <2>0, CountedHeader
    <2>2. Retain(h, o) = [h EXCEPT ![o] = y]
        BY <1>2 DEF Retain
    <2>3. Retain(h, o) \in Heaps
        BY <1>2, <2>1, <2>2, HeapUpdate
    <2>4. QED
        BY <1>0, <1>2, <2>1, <2>2, <2>3
<1>3. QED
    BY <1>1, <1>2

LEMMA ReleaseHeap ==
    ASSUME NEW h \in Heaps, NEW o, o \in Owners => h[o].references >= 1
    PROVE  /\ Release(h, o) \in Heaps
           /\ \A q \in Owners : Release(h, o)[q].references
                                  = h[q].references - (IF q = o THEN 1 ELSE 0)
<1>0. /\ h \in [Owners -> FlatHeader]
      /\ \A q \in Owners : Len(h[q].bytes) = h[q].capacity /\ h[q].references \in Nat
    BY DEF Heaps, FlatHeader
<1>1. CASE o \notin Owners
    BY <1>0, <1>1 DEF Release
<1>2. CASE o \in Owners /\ h[o].references = 1
    <2>1. Release(h, o) = [h EXCEPT ![o] = Freed]
        BY <1>2 DEF Release
    <2>2. Freed.references = 0
        BY DEF Freed
    <2>3. Release(h, o) \in Heaps
        BY <1>2, <2>1, FreedType, HeapUpdate
    <2>4. QED
        BY <1>0, <1>2, <2>1, <2>2, <2>3
<1>3. CASE o \in Owners /\ h[o].references # 1
    <2> DEFINE y == [h[o] EXCEPT !.references = h[o].references - 1]
    <2>1. y \in FlatHeader /\ y.references = h[o].references - 1 /\ Len(y.bytes) = y.capacity
        BY <1>0, <1>3, CountedHeader
    <2>2. Release(h, o) = [h EXCEPT ![o] = y]
        BY <1>3 DEF Release
    <2>3. Release(h, o) \in Heaps
        BY <1>3, <2>1, <2>2, HeapUpdate
    <2>4. QED
        BY <1>0, <1>3, <2>1, <2>2, <2>3
<1>4. QED
    BY <1>1, <1>2, <1>3

-----------------------------------------------------------------------------
(* The heap after an extension: every owner counts what it did, except that  *)
(* the consumed reference has gone from its owner to the result's.           *)

Moved(h, k, from, to) ==
    \A q \in Owners : k[q].references =
        h[q].references - (IF q = from THEN 1 ELSE 0) + (IF q = to THEN 1 ELSE 0)

\* What the callers of an extension guarantee.
Extends(h, v, w) ==
    /\ h \in Heaps /\ v \in View /\ w \in View
    /\ InStatic(v.owner, v.data, v.length) /\ InStatic(w.owner, w.data, w.length)
    /\ v.owner \in Owners => h[v.owner].references >= 1
    /\ v.length + w.length <= MaxLength

LEMMA Sizes ==
    /\ SizeMax \in Nat /\ MaxLength \in Nat /\ MaxLength <= SizeMax
    /\ \A n \in 0..SizeMax : Capacity(n) \in Nat /\ Capacity(n) >= n
BY SizeAssumption

LEMMA ViewFields ==
    ASSUME NEW v \in View
    PROVE  v.data \in Nat /\ v.length \in Nat /\ v.length <= MaxLength
BY Sizes DEF View

LEMMA ConcatSeq ==
    ASSUME NEW s \in Seq(Cell), NEW t \in Seq(Cell)
    PROVE  s \o t \in Seq(Cell) /\ Len(s \o t) = Len(s) + Len(t)
OBVIOUS

LEMMA OperandBytes ==
    ASSUME NEW h \in Heaps, NEW v \in View, InStatic(v.owner, v.data, v.length)
    PROVE  /\ Read(h, v.owner, v.data, v.length) \in Seq(Cell)
           /\ Len(Read(h, v.owner, v.data, v.length)) = v.length
BY ViewFields, ReadType

\* A copying extension: a fresh owner for the content, and the consumed one released.
LEMMA CopyHeap ==
    ASSUME NEW h \in Heaps, NEW from, from \in Owners => h[from].references >= 1,
           NEW p \in Fresh(h), NEW content \in Seq(Cell), NEW capacity \in Nat,
           NEW start \in Nat
    PROVE  LET k == Release([h EXCEPT ![p] = FlatOwner(content, capacity, start)], from)
           IN  k \in Heaps /\ Moved(h, k, from, p)
<1> DEFINE x == FlatOwner(content, capacity, start)
           g == [h EXCEPT ![p] = x]
<1>1. p \in Owners /\ h[p].references = 0
    BY DEF Fresh
<1>2. g \in Heaps
    BY <1>1, FlatOwnerType, HeapUpdate
<1>3. h \in [Owners -> FlatHeader] /\ \A q \in Owners : h[q].references \in Nat
    BY DEF Heaps, FlatHeader
<1>4. \A q \in Owners : g[q].references = h[q].references + (IF q = p THEN 1 ELSE 0)
    BY <1>1, <1>3, FlatOwnerType
<1>5. from \in Owners => g[from].references >= 1
    BY <1>1, <1>3, <1>4
<1> HIDE DEF x, g
<1>6. /\ Release(g, from) \in Heaps
      /\ \A q \in Owners : Release(g, from)[q].references
                             = g[q].references - (IF q = from THEN 1 ELSE 0)
    BY <1>2, <1>5, ReleaseHeap
<1>7. ASSUME NEW q \in Owners
      PROVE  Release(g, from)[q].references
               = h[q].references - (IF q = from THEN 1 ELSE 0) + (IF q = p THEN 1 ELSE 0)
    <2>1. h[q].references \in Nat
        BY <1>3
    <2>2. g[q].references = h[q].references + (IF q = p THEN 1 ELSE 0)
        BY <1>4
    <2>3. Release(g, from)[q].references = g[q].references - (IF q = from THEN 1 ELSE 0)
        BY <1>6
    <2>4. QED
        BY <2>1, <2>2, <2>3
<1>8. QED
    BY <1>6, <1>7 DEF g, x, Moved

\* realloc of an exclusively held owner.
LEMMA ReallocHeap ==
    ASSUME NEW h \in Heaps, NEW o \in Owners, h[o].references = 1,
           NEW p \in {o} \cup Fresh(h), NEW capacity \in Nat
    PROVE  /\ Realloc(h, o, p, capacity) \in Heaps
           /\ Moved(h, Realloc(h, o, p, capacity), o, p)
           /\ Realloc(h, o, p, capacity)[p].references = 1
           /\ Realloc(h, o, p, capacity)[p].capacity = capacity
           /\ Realloc(h, o, p, capacity)[p].start = h[o].start
<1> DEFINE bytes == Write(h[o].bytes, capacity, 0, <<>>)
           x == [h[o] EXCEPT !.capacity = capacity, !.bytes = bytes]
           g == [h EXCEPT ![o] = Freed]
           k == [g EXCEPT ![p] = x]
<1>1. /\ h \in [Owners -> FlatHeader]
      /\ \A q \in Owners : h[q].references \in Nat
      /\ p \in Owners /\ (p # o => h[p].references = 0)
    BY DEF Heaps, FlatHeader, Fresh
<1>2. h[o] \in FlatHeader /\ h[o].bytes \in Seq(Cell)
    BY <1>1 DEF FlatHeader, Cell
<1>3. bytes \in Seq(Cell) /\ Len(bytes) = capacity
    <2>1. 0 \in Int
        OBVIOUS
    <2>2. QED
        BY <1>2, <2>1, WriteType, EmptyCells, Zenon
<1>4. /\ x \in FlatHeader /\ Len(x.bytes) = x.capacity
      /\ x.references = h[o].references /\ x.capacity = capacity /\ x.start = h[o].start
    BY <1>2, <1>3 DEF FlatHeader, Cell
<1>5. g \in Heaps
    BY FreedType, HeapUpdate
<1>6. k \in Heaps
    BY <1>1, <1>4, <1>5, HeapUpdate
<1>7. Realloc(h, o, p, capacity) = k
    BY DEF Realloc
<1>8. \A q \in Owners : k[q] = IF q = p THEN x ELSE IF q = o THEN Freed ELSE h[q]
    BY <1>1
<1>9. Freed.references = 0
    BY DEF Freed
<1>10. Moved(h, k, o, p)
    BY <1>1, <1>4, <1>8, <1>9 DEF Moved
<1>11. QED
    BY <1>1, <1>4, <1>6, <1>7, <1>8, <1>10

\* The owner x with another length and start and the bytes new stored at d.
Rewritten(x, length, start, d, new) ==
    [x EXCEPT !.length = length, !.start = start, !.bytes = Write(x.bytes, x.capacity, d, new)]

LEMMA RewriteHeap ==
    ASSUME NEW h \in Heaps, NEW p \in Owners, NEW length \in Nat, NEW start \in Nat,
           NEW d \in Int, NEW new \in Seq(Cell)
    PROVE  /\ [h EXCEPT ![p] = Rewritten(h[p], length, start, d, new)] \in Heaps
           /\ Rewritten(h[p], length, start, d, new).references = h[p].references
           /\ Rewritten(h[p], length, start, d, new).capacity = h[p].capacity
           /\ Rewritten(h[p], length, start, d, new).start = start
           /\ Rewritten(h[p], length, start, d, new).length = length
<1> DEFINE bytes == Write(h[p].bytes, h[p].capacity, d, new)
           x == [h[p] EXCEPT !.length = length, !.start = start, !.bytes = bytes]
<1>1. h[p] \in FlatHeader /\ h[p].bytes \in Seq(Cell) /\ h[p].capacity \in Nat
    BY DEF Heaps, FlatHeader, Cell
<1>2. bytes \in Seq(Cell) /\ Len(bytes) = h[p].capacity
    BY <1>1, WriteType
<1>3. /\ x \in FlatHeader /\ Len(x.bytes) = x.capacity
      /\ x.references = h[p].references /\ x.capacity = h[p].capacity
      /\ x.start = start /\ x.length = length
    BY <1>1, <1>2 DEF FlatHeader, Cell
<1>4. [h EXCEPT ![p] = x] \in Heaps
    BY <1>3, HeapUpdate
<1>5. QED
    BY <1>3, <1>4 DEF Rewritten

LEMMA AppendCopyHeap ==
    ASSUME NEW h, NEW v, NEW w, Extends(h, v, w), NEW p \in Fresh(h)
    PROVE  /\ AppendCopy(h, v, w, p) \in Heaps
           /\ Moved(h, AppendCopy(h, v, w, p), v.owner, p)
<1> DEFINE content == Read(h, v.owner, v.data, v.length) \o Read(h, w.owner, w.data, w.length)
<1>1. content \in Seq(Cell) /\ Len(content) = v.length + w.length
    BY OperandBytes, ConcatSeq DEF Extends
<1>2. Len(content) \in 0..SizeMax
    BY <1>1, ViewFields, Sizes DEF Extends
<1>3. Capacity(Len(content)) \in Nat
    BY <1>2, Sizes
<1>4. 0 \in Nat
    OBVIOUS
<1> HIDE DEF content
<1>5. LET k == Release([h EXCEPT ![p] = FlatOwner(content, Capacity(Len(content)), 0)], v.owner)
      IN  k \in Heaps /\ Moved(h, k, v.owner, p)
    BY <1>1, <1>3, <1>4, CopyHeap DEF Extends
<1>6. QED
    BY <1>5 DEF AppendCopy, content

LEMMA PrependCopyHeap ==
    ASSUME NEW h, NEW v, NEW w, Extends(h, v, w), NEW p \in Fresh(h)
    PROVE  /\ PrependCopy(h, v, w, p) \in Heaps
           /\ Moved(h, PrependCopy(h, v, w, p), v.owner, p)
<1> DEFINE content == Read(h, w.owner, w.data, w.length) \o Read(h, v.owner, v.data, v.length)
           capacity == Capacity(Len(content))
<1>1. content \in Seq(Cell) /\ Len(content) = v.length + w.length
    <2>1. v.length \in Nat /\ w.length \in Nat
        BY ViewFields DEF Extends
    <2>2. QED
        BY <2>1, OperandBytes, ConcatSeq DEF Extends
<1>2. Len(content) \in 0..SizeMax
    BY <1>1, ViewFields, Sizes DEF Extends
<1>3. capacity \in Nat /\ capacity - Len(content) \in Nat
    BY <1>2, Sizes
<1> HIDE DEF content, capacity
<1>4. LET k == Release([h EXCEPT ![p] = FlatOwner(content, capacity, capacity - Len(content))],
                       v.owner)
      IN  k \in Heaps /\ Moved(h, k, v.owner, p)
    BY <1>1, <1>3, CopyHeap DEF Extends
<1>5. QED
    BY <1>4 DEF PrependCopy, content, capacity

LEMMA AppendInPlaceHeap ==
    ASSUME NEW h, NEW v, NEW w, Extends(h, v, w), Extensible(h, v),
           NEW p \in AppendPlaces(h, v, w)
    PROVE  /\ AppendInPlace(h, v, w, p) \in Heaps
           /\ Moved(h, AppendInPlace(h, v, w, p), v.owner, p)
<1> DEFINE size == v.length + w.length
           required == h[v.owner].start + size
           grown == IF required > h[v.owner].capacity
                    THEN Realloc(h, v.owner, p, Capacity(required)) ELSE h
           new == Read(grown, w.owner, w.data, w.length)
           d == grown[p].start + v.length
           x == Rewritten(grown[p], size, grown[p].start, d, new)
<1>1. /\ h \in Heaps /\ v.owner \in Owners /\ h[v.owner].references = 1
      /\ h[v.owner].start \in Nat /\ h[v.owner].capacity \in Nat
      /\ size \in Nat
      /\ required = h[v.owner].start + v.length + w.length
    <2>1. v.length \in Nat /\ w.length \in Nat
        BY ViewFields DEF Extends
    <2>2. QED
        BY <2>1 DEF Extends, Extensible, Heaps, FlatHeader
<1>2. p \in Owners /\ grown \in Heaps /\ Moved(h, grown, v.owner, p)
    <2>1. CASE required > h[v.owner].capacity
        <3>0. ~(required > SizeMax) /\ p \in {v.owner} \cup Fresh(h)
            <4> HIDE DEF required
            <4>1. QED
                BY <1>1, <2>1 DEF AppendPlaces
        <3>1. required \in 0..SizeMax /\ p \in {v.owner} \cup Fresh(h)
            BY <1>1, <3>0, Sizes
        <3>2. Capacity(required) \in Nat
            BY <3>1, Sizes
        <3>3. p \in Owners
            BY <1>1, <3>1 DEF Fresh
        <3>4. /\ Realloc(h, v.owner, p, Capacity(required)) \in Heaps
              /\ Moved(h, Realloc(h, v.owner, p, Capacity(required)), v.owner, p)
            BY <1>1, <3>1, <3>2, ReallocHeap
        <3>5. QED
            BY <2>1, <3>3, <3>4
    <2>2. CASE ~(required > h[v.owner].capacity)
        <3>1. p = v.owner
            <4> HIDE DEF required
            <4>1. QED
                BY <1>1, <2>2 DEF AppendPlaces
        <3>2. \A q \in Owners : h[q].references \in Nat
            BY <1>1 DEF Heaps, FlatHeader
        <3>3. Moved(h, h, v.owner, v.owner)
            BY <3>2 DEF Moved
        <3>4. QED
            BY <1>1, <2>2, <3>1, <3>3
    <2>3. QED
        BY <2>1, <2>2
<1> HIDE DEF grown, size
<1>3. grown \in [Owners -> FlatHeader] /\ grown[p] \in FlatHeader
      /\ grown[p].start \in Nat /\ d \in Int
    <2>1. grown \in [Owners -> FlatHeader] /\ grown[p] \in FlatHeader
        BY <1>2 DEF Heaps
    <2>2. grown[p].start \in Nat
        BY <2>1 DEF FlatHeader
    <2>3. v.length \in Nat
        BY ViewFields DEF Extends
    <2>4. QED
        BY <2>1, <2>2, <2>3
<1>4. new \in Seq(Cell)
    BY <1>2, OperandBytes DEF Extends
<1> HIDE DEF new, d
<1>5. [grown EXCEPT ![p] = x] \in Heaps /\ x.references = grown[p].references
    <2>1. size \in Nat
        BY <1>1 DEF size
    <2>2. /\ grown \in Heaps /\ p \in Owners /\ grown[p].start \in Nat /\ d \in Int
          /\ new \in Seq(Cell)
        BY <1>2, <1>3, <1>4
    <2>3. QED
        BY <2>1, <2>2, RewriteHeap, SMTT(60)
<1>6. AppendInPlace(h, v, w, p) = [grown EXCEPT ![p] = x]
    <2>1. AppendInPlace(h, v, w, p)
            = [grown EXCEPT ![p].length = size,
                            ![p].bytes = Write(@, grown[p].capacity, d, new)]
        BY DEF AppendInPlace, grown, size, new, d
    <2>2. x = [grown[p] EXCEPT !.length = size,
                               !.bytes = Write(grown[p].bytes, grown[p].capacity, d, new)]
        BY <1>3 DEF FlatHeader, Rewritten
    <2>3. QED
        BY <1>2, <1>3, <2>1, <2>2
<1> HIDE DEF x
<1>7. \A q \in Owners : [grown EXCEPT ![p] = x][q].references = grown[q].references
    BY <1>2, <1>3, <1>5
<1>8. QED
    BY <1>2, <1>5, <1>6, <1>7 DEF Moved

LEMMA PrependInPlaceHeap ==
    ASSUME NEW h, NEW v, NEW w, Extends(h, v, w), Extensible(h, v),
           NEW p \in PrependPlaces(h, v, w)
    PROVE  /\ PrependInPlace(h, v, w, p) \in Heaps
           /\ Moved(h, PrependInPlace(h, v, w, p), v.owner, p)
           /\ PrependInPlace(h, v, w, p)[p].start \in Nat
<1> DEFINE size == v.length + w.length
           capacity == Capacity(size)
           moved == Realloc(h, v.owner, p, capacity)
           kept == Read(moved, p, h[v.owner].start, v.length)
           shifted == [moved EXCEPT ![p].bytes = Write(@, capacity, capacity - v.length, kept),
                                    ![p].start = capacity - v.length]
           grown == IF w.length > h[v.owner].start THEN shifted ELSE h
           start == grown[p].start - w.length
           new == Read(grown, w.owner, w.data, w.length)
           x == Rewritten(grown[p], size, start, start, new)
<1>1. /\ h \in Heaps /\ v.owner \in Owners /\ h[v.owner].references = 1
      /\ h[v.owner].start \in Nat
      /\ v.length \in Nat /\ w.length \in Nat
      /\ size \in Nat /\ capacity \in Nat /\ capacity >= size
    <2>1. v.length \in Nat /\ w.length \in Nat /\ size <= MaxLength
        BY ViewFields DEF Extends
    <2>2. size \in 0..SizeMax
        BY <2>1, Sizes
    <2>3. capacity \in Nat /\ capacity >= size
        BY <2>2, Sizes
    <2>4. QED
        BY <2>1, <2>3 DEF Extends, Extensible, Heaps, FlatHeader
<1>2. /\ p \in Owners /\ grown \in Heaps /\ Moved(h, grown, v.owner, p)
      /\ grown[p].start >= w.length
    <2>1. CASE w.length > h[v.owner].start
        <3>1. p \in {v.owner} \cup Fresh(h)
            BY <1>1, <2>1 DEF PrependPlaces
        <3>2. p \in Owners
            BY <1>1, <3>1 DEF Fresh
        <3> HIDE DEF capacity
        <3>3. /\ moved \in Heaps /\ Moved(h, moved, v.owner, p)
              /\ moved[p].capacity = capacity
            BY <1>1, <3>1, ReallocHeap
        <3> HIDE DEF moved
        <3>4. kept \in Seq(Cell)
            <4>1. InStatic(p, h[v.owner].start, v.length)
                BY <3>2, OwnersAssumption DEF InStatic
            <4>2. QED
                BY <1>1, <3>3, <4>1, ReadType
        <3> HIDE DEF kept
        <3> DEFINE y == Rewritten(moved[p], moved[p].length, capacity - v.length,
                                  capacity - v.length, kept)
        <3>5. /\ moved \in [Owners -> FlatHeader] /\ moved[p] \in FlatHeader
              /\ moved[p].length \in Nat
            BY <3>2, <3>3 DEF Heaps, FlatHeader
        <3>6. capacity - v.length \in Nat /\ capacity - v.length >= w.length
            BY <1>1
        <3>7. /\ [moved EXCEPT ![p] = y] \in Heaps
              /\ y.references = moved[p].references /\ y.start = capacity - v.length
            <4> DEFINE gap == capacity - v.length
            <4>1. /\ moved \in Heaps /\ p \in Owners /\ moved[p].length \in Nat
                  /\ gap \in Nat /\ gap \in Int /\ kept \in Seq(Cell)
                BY <3>2, <3>3, <3>4, <3>5, <3>6
            <4> DEFINE z == Rewritten(moved[p], moved[p].length, gap, gap, kept)
            <4> HIDE DEF gap
            <4>2. /\ [moved EXCEPT ![p] = z] \in Heaps
                  /\ z.references = moved[p].references /\ z.start = gap
                BY <4>1, RewriteHeap, SMTT(60)
            <4>3. y = z
                BY DEF gap
            <4> HIDE DEF z, y
            <4>4. QED
                BY <4>2, <4>3 DEF gap
        <3>8. shifted = [moved EXCEPT ![p] = y]
            <4>1. y = [moved[p] EXCEPT
                         !.bytes = Write(moved[p].bytes, capacity, capacity - v.length, kept),
                         !.start = capacity - v.length]
                BY <3>3, <3>5 DEF FlatHeader, Rewritten
            <4>2. QED
                BY <3>2, <3>5, <4>1
        <3> HIDE DEF y
        <3>9. \A q \in Owners : [moved EXCEPT ![p] = y][q].references = moved[q].references
            BY <3>2, <3>5, <3>7
        <3>10. Moved(h, shifted, v.owner, p)
            BY <3>3, <3>8, <3>9 DEF Moved
        <3>11. shifted[p].start = capacity - v.length
            BY <3>2, <3>5, <3>7, <3>8
        <3> HIDE DEF shifted
        <3>12. QED
            BY <2>1, <3>2, <3>6, <3>7, <3>8, <3>10, <3>11
    <2>2. CASE ~(w.length > h[v.owner].start)
        <3>1. p = v.owner
            BY <1>1, <2>2 DEF PrependPlaces
        <3>2. \A q \in Owners : h[q].references \in Nat
            BY <1>1 DEF Heaps, FlatHeader
        <3>3. Moved(h, h, v.owner, v.owner)
            BY <3>2 DEF Moved
        <3>4. QED
            BY <1>1, <2>2, <3>1, <3>3
    <2>3. QED
        BY <2>1, <2>2
<1> HIDE DEF grown
<1>3. grown \in [Owners -> FlatHeader] /\ grown[p] \in FlatHeader
      /\ start \in Nat
    <2>1. grown \in [Owners -> FlatHeader] /\ grown[p] \in FlatHeader
        BY <1>2 DEF Heaps
    <2>2. grown[p].start \in Nat
        BY <2>1 DEF FlatHeader
    <2>3. QED
        BY <1>1, <1>2, <2>1, <2>2
<1>4. new \in Seq(Cell)
    BY <1>2, OperandBytes DEF Extends
<1> HIDE DEF new, start, size
<1>5. /\ [grown EXCEPT ![p] = x] \in Heaps /\ x.references = grown[p].references
      /\ x.start = start
    <2>1. /\ grown \in Heaps /\ p \in Owners /\ size \in Nat
          /\ start \in Nat /\ start \in Int /\ new \in Seq(Cell)
        BY <1>1, <1>2, <1>3, <1>4 DEF size
    <2>2. QED
        BY <2>1, RewriteHeap, SMTT(60)
<1>6. PrependInPlace(h, v, w, p) = [grown EXCEPT ![p] = x]
    <2>1. PrependInPlace(h, v, w, p)
            = [grown EXCEPT ![p].length = size, ![p].start = start,
                            ![p].bytes = Write(@, grown[p].capacity, start, new)]
        BY DEF PrependInPlace, grown, size, new, start
    <2>2. x = [grown[p] EXCEPT !.length = size, !.start = start,
                               !.bytes = Write(grown[p].bytes, grown[p].capacity, start, new)]
        BY <1>3 DEF FlatHeader, Rewritten
    <2>3. QED
        BY <1>2, <1>3, <2>1, <2>2
<1> HIDE DEF x
<1>7. /\ \A q \in Owners : [grown EXCEPT ![p] = x][q].references = grown[q].references
      /\ [grown EXCEPT ![p] = x][p].start = start
    BY <1>2, <1>3, <1>5
<1>8. QED
    BY <1>2, <1>3, <1>5, <1>6, <1>7 DEF Moved

-----------------------------------------------------------------------------
(* The inductive invariant: types and counts, and what they rest on.  A      *)
(* vacant binding borrows nothing, so a value bound to it is owned; and a     *)
(* view of a literal stays inside it, so that reading it yields bytes.  It is *)
(* stated for owners that others hold too (extra references of each), as the  *)
(* Buffers of ByteConversions do: no operation on Symbols counts those.       *)

VacantBorrowNothing == \A b \in Bindings : b \notin live => lender[b] = None

StaticWindows == \A b \in live : InStatic(view[b].owner, view[b].data, view[b].length)

Counted(extra) == \A o \in Owners : heap[o].references = Cardinality(Holders(o)) + extra[o]

IInv(extra) ==
    /\ TypeOK
    /\ Counted(extra)
    /\ VacantBorrowNothing
    /\ StaticWindows

LEMMA TypeFacts ==
    ASSUME TypeOK
    PROVE  /\ heap \in Heaps /\ heap \in [Owners -> FlatHeader]
           /\ \A o \in Owners : heap[o].references \in Nat
           /\ live \subseteq Bindings
           /\ view \in [Bindings -> View] /\ \A b \in Bindings : view[b] \in View
           /\ lender \in [Bindings -> Bindings \cup {None}]
BY DEF TypeOK, Heaps, FlatHeader

LEMMA HoldersFinite ==
    ASSUME TypeOK, NEW o
    PROVE  IsFiniteSet(Holders(o)) /\ Cardinality(Holders(o)) \in Nat
<1>1. Holders(o) \in SUBSET Bindings
    BY DEF TypeOK, Holders
<1>2. IsFiniteSet(Bindings)
    BY OwnersAssumption
<1>3. IsFiniteSet(Holders(o))
    BY <1>1, <1>2, FS_Subset
<1>4. QED
    BY <1>3, FS_CardinalityType

\* An owned binding keeps its owner alive.
LEMMA OwnerCounted ==
    ASSUME NEW extra \in [Owners -> Nat], IInv(extra), NEW b, Owned(b), view[b].owner \in Owners
    PROVE  heap[view[b].owner].references >= 1
<1>1. b \in Holders(view[b].owner)
    BY DEF Owned, Holders
<1>2. IsFiniteSet(Holders(view[b].owner)) /\ Cardinality(Holders(view[b].owner)) \in Nat
    BY HoldersFinite DEF IInv
<1>3. Cardinality(Holders(view[b].owner)) # 0
    BY <1>1, <1>2, FS_EmptySet
<1>4. heap[view[b].owner].references = Cardinality(Holders(view[b].owner)) + extra[view[b].owner]
    BY DEF IInv, Counted
<1>5. QED
    BY <1>2, <1>3, <1>4

\* The values a step takes over: none, or those of an owned binding that ends.
Taken(taken, ended, from) ==
    \/ ended = {} /\ from = None
    \/ Owned(taken) /\ ended = Ended(taken) /\ from = view[taken].owner

\* A vacant binding takes a value over; the heap counts it for its new owner, and what others
\* hold goes from extra to among.
LEMMA RebindAmong ==
    ASSUME NEW extra \in [Owners -> Nat], IInv(extra), NEW among \in [Owners -> Nat],
           NEW d \in Bindings, d \notin live, NEW v \in View, InStatic(v.owner, v.data, v.length),
           NEW taken, NEW ended, NEW from, Taken(taken, ended, from), Bind(d, v, ended),
           lender' \in [Bindings -> Bindings \cup {None}],
           \A b \in Bindings : lender'[b] = IF b \in ended THEN None ELSE lender[b],
           heap' \in Heaps,
           \A q \in Owners : heap'[q].references + extra[q]
                = heap[q].references - (IF q = from THEN 1 ELSE 0)
                  + (IF q = v.owner THEN 1 ELSE 0) + among[q]
    PROVE  IInv(among)'
<1>1. /\ live' = (live \ ended) \cup {d}
      /\ view' = [b \in Bindings |-> IF b = d THEN v ELSE IF b \in ended THEN NoView ELSE view[b]]
    BY DEF Bind
<1>2. NoView \in View
    <2>1. 0 \in 0..MaxLength
        BY Sizes
    <2>2. QED
        BY <2>1 DEF NoView, View
<1>3. /\ heap \in Heaps /\ live \subseteq Bindings /\ view \in [Bindings -> View]
      /\ \A b \in Bindings : view[b] \in View
    BY TypeFacts DEF IInv
<1>4. TypeOK'
    <2>1. live' \subseteq Bindings
        BY <1>1, <1>3
    <2>2. view' \in [Bindings -> View]
        BY <1>1, <1>2, <1>3
    <2>3. heap' \in [Owners -> FlatHeader] /\ \A o \in Owners : Len(heap'[o].bytes) = heap'[o].capacity
        BY DEF Heaps
    <2>4. QED
        BY <2>1, <2>2, <2>3 DEF TypeOK, View, FlatHeader
<1>5. VacantBorrowNothing'
    BY <1>1 DEF IInv, VacantBorrowNothing
<1>6. StaticWindows'
    BY <1>1, <1>3 DEF IInv, StaticWindows, InStatic
<1>7. lender[d] = None
    BY DEF IInv, VacantBorrowNothing
<1>8. ASSUME NEW o \in Owners
      PROVE  heap'[o].references = Cardinality(Holders(o)') + among[o]
    <2> DEFINE kept == {b \in Holders(o) : b \notin ended}
               gained == IF v.owner = o THEN 1 ELSE 0
    <2>1. IsFiniteSet(Holders(o)) /\ Cardinality(Holders(o)) \in Nat
        BY HoldersFinite DEF IInv
    <2>2. heap[o].references = Cardinality(Holders(o)) + extra[o] /\ extra[o] \in Nat
        BY DEF IInv, Counted
    <2>3. d \notin ended /\ d \notin Holders(o)
        BY DEF Taken, Ended, Owned, Borrowers, Holders
    <2>4. /\ IsFiniteSet(kept)
          /\ Cardinality(kept) = Cardinality(Holders(o)) - (IF o = from THEN 1 ELSE 0)
        <3>1. CASE ended = {} /\ from = None
            <4>1. kept = Holders(o)
                BY <3>1
            <4>2. o # from
                BY <3>1, OwnersAssumption
            <4> HIDE DEF kept
            <4>3. QED
                BY <2>1, <4>1, <4>2
        <3>2. CASE Owned(taken) /\ ended = Ended(taken) /\ from = view[taken].owner
            <4>1. \A b \in Holders(o) : b \in ended <=> b = taken
                <5>1. taken # None
                    BY <1>3, <3>2, OwnersAssumption DEF Owned
                <5>2. QED
                    BY <3>2, <5>1 DEF Ended, Borrowers, Holders
            <4>2. kept = Holders(o) \ {taken}
                BY <4>1
            <4>3. taken \in Holders(o) <=> o = from
                BY <3>2 DEF Owned, Holders
            <4> HIDE DEF kept
            <4>4. /\ IsFiniteSet(Holders(o) \ {taken})
                  /\ Cardinality(Holders(o) \ {taken})
                       = IF taken \in Holders(o) THEN Cardinality(Holders(o)) - 1
                         ELSE Cardinality(Holders(o))
                BY <2>1, FS_RemoveElement
            <4>5. QED
                BY <2>1, <4>2, <4>3, <4>4
        <3>3. QED
            BY <3>1, <3>2 DEF Taken
    <2>5. Holders(o)' = IF v.owner = o THEN kept \cup {d} ELSE kept
        <3>1. \A b \in live' : b # d => b \in live /\ b \notin ended /\ view'[b] = view[b]
                                      /\ lender'[b] = lender[b]
            BY <1>1, <1>3
        <3>2. view'[d] = v /\ lender'[d] = None /\ d \in live'
            BY <1>1, <1>7, <2>3
        <3>3. \A b : b \in live /\ b \notin ended => b \in live' /\ b # d
            BY <1>1
        <3>4. QED
            BY <3>1, <3>2, <3>3 DEF Holders
    <2>6. d \notin kept
        BY <2>3
    <2> HIDE DEF kept
    <2>7. Cardinality(Holders(o)') = Cardinality(kept) + gained
        <3>1. CASE v.owner = o
            BY <2>4, <2>5, <2>6, <3>1, FS_AddElement
        <3>2. CASE v.owner # o
            <4>1. Cardinality(kept) \in Nat
                BY <2>4, FS_CardinalityType
            <4>2. QED
                BY <2>5, <3>2, <4>1
        <3>3. QED
            BY <3>1, <3>2
    <2>8. /\ heap'[o].references + extra[o]
                = heap[o].references - (IF o = from THEN 1 ELSE 0) + gained + among[o]
          /\ heap'[o].references \in Nat /\ among[o] \in Nat
        BY DEF Heaps, FlatHeader
    <2>9. QED
        BY <2>1, <2>2, <2>4, <2>7, <2>8
<1>9. Counted(among)'
    BY <1>8 DEF Counted
<1>10. QED
    BY <1>4, <1>5, <1>6, <1>9 DEF IInv

\* The same while what others hold stays as it is.
LEMMA Rebind ==
    ASSUME NEW extra \in [Owners -> Nat], IInv(extra),
           NEW d \in Bindings, d \notin live, NEW v \in View, InStatic(v.owner, v.data, v.length),
           NEW taken, NEW ended, NEW from, Taken(taken, ended, from), Bind(d, v, ended),
           lender' \in [Bindings -> Bindings \cup {None}],
           \A b \in Bindings : lender'[b] = IF b \in ended THEN None ELSE lender[b],
           heap' \in Heaps, Moved(heap, heap', from, v.owner)
    PROVE  IInv(extra)'
<1>1. \A q \in Owners : heap'[q].references + extra[q]
            = heap[q].references - (IF q = from THEN 1 ELSE 0)
              + (IF q = v.owner THEN 1 ELSE 0) + extra[q]
    BY DEF Moved
<1>2. QED
    BY <1>1, RebindAmong

-----------------------------------------------------------------------------
(* Every operation preserves the invariant. *)

LEMMA NoneIsNoOwner == None \notin Owners /\ None \notin Statics /\ None \notin Bindings
BY OwnersAssumption

LEMMA NoViewFacts == NoView \in View /\ InStatic(NoView.owner, NoView.data, NoView.length)
BY Sizes, NoneIsNoOwner DEF NoView, View, InStatic

LEMMA UnchangedLender ==
    ASSUME NEW extra \in [Owners -> Nat], IInv(extra), UNCHANGED lender
    PROVE  /\ lender' \in [Bindings -> Bindings \cup {None}]
           /\ \A b \in Bindings : lender'[b] = IF b \in {} THEN None ELSE lender[b]
BY TypeFacts DEF IInv

\* A value bound without ending any other, counted once for the owner it is a view of.
LEMMA BindShared ==
    ASSUME NEW extra \in [Owners -> Nat], IInv(extra), NEW d \in Bindings, d \notin live,
           NEW v \in View, InStatic(v.owner, v.data, v.length),
           Bind(d, v, {}), heap' = Retain(heap, v.owner), UNCHANGED lender
    PROVE  IInv(extra)'
<1>1. heap \in Heaps /\ \A o \in Owners : heap[o].references \in Nat
    BY TypeFacts DEF IInv
<1>2. heap' \in Heaps
    BY <1>1, RetainHeap
<1>3. Moved(heap, heap', None, v.owner)
    BY <1>1, RetainHeap, NoneIsNoOwner DEF Moved
<1>4. Taken(None, {}, None)
    BY DEF Taken
<1>5. QED
    BY <1>2, <1>3, <1>4, UnchangedLender, Rebind

LEMMA BindNothing ==
    ASSUME NEW extra \in [Owners -> Nat], IInv(extra), NEW d \in Bindings, d \notin live, Bind(d, NoView, {}), UNCHANGED <<heap, lender>>
    PROVE  IInv(extra)'
<1>1. Retain(heap, NoView.owner) = heap
    BY NoneIsNoOwner DEF Retain, NoView
<1>2. QED
    BY <1>1, NoViewFacts, BindShared

LEMMA BindCopyStep ==
    ASSUME NEW extra \in [Owners -> Nat], IInv(extra), NEW d \in Bindings, d \notin live, NEW content \in Seq(Cell),
           Len(content) <= MaxLength, BindCopy(d, content), UNCHANGED lender
    PROVE  IInv(extra)'
<1>1. CASE Len(content) = 0
    BY <1>1, BindNothing DEF BindCopy
<1>2. CASE Len(content) # 0
    <2> DEFINE n == Len(content)
    <2>1. n \in Nat /\ n \in 0..SizeMax /\ Capacity(n) \in Nat
        BY Sizes
    <2>2. PICK p \in Fresh(heap) :
            /\ heap' = [heap EXCEPT ![p] = FlatOwner(content, Capacity(n), 0)]
            /\ Bind(d, [owner |-> p, data |-> 0, length |-> n], {})
        BY <1>2 DEF BindCopy
    <2> DEFINE v == [owner |-> p, data |-> 0, length |-> n]
    <2>3. p \in Owners /\ heap[p].references = 0 /\ p \notin Statics
        BY OwnersAssumption DEF Fresh
    <2>4. v \in View /\ InStatic(v.owner, v.data, v.length) /\ v.owner = p
        BY <2>1, <2>3, Sizes DEF View, InStatic
    <2>5. None \notin Owners
        BY NoneIsNoOwner
    <2>6. heap \in Heaps
        BY TypeFacts DEF IInv
    <2>7. 0 \in Nat
        OBVIOUS
    <2>8. Release([heap EXCEPT ![p] = FlatOwner(content, Capacity(n), 0)], None) = heap'
        BY <2>2, <2>5 DEF Release
    <2>9. LET k == Release([heap EXCEPT ![p] = FlatOwner(content, Capacity(n), 0)], None)
          IN  k \in Heaps /\ Moved(heap, k, None, p)
        BY <2>1, <2>5, <2>6, <2>7, CopyHeap
    <2>10. heap' \in Heaps /\ Moved(heap, heap', None, v.owner)
        BY <2>4, <2>8, <2>9
    <2>11. Taken(None, {}, None)
        BY DEF Taken
    <2> HIDE DEF v
    <2>12. Bind(d, v, {})
        BY <2>2 DEF v
    <2>13. QED
        BY <2>4, <2>10, <2>11, <2>12, UnchangedLender, Rebind
<1>3. QED
    BY <1>1, <1>2

LEMMA InputCells ==
    ASSUME NEW s \in Inputs
    PROVE  s \in Seq(Cell) /\ Len(s) <= MaxLength
<1>1. s \in Seq(Byte) /\ Len(s) <= MaxLength
    BY BytesAssumption
<1>2. QED
    BY <1>1 DEF Cell

LEMMA SymbolFromStep ==
    ASSUME NEW extra \in [Owners -> Nat], IInv(extra), NEW d \in Bindings, NEW content \in Inputs, SymbolFrom(d, content)
    PROVE  IInv(extra)'
BY InputCells, BindCopyStep DEF SymbolFrom

LEMMA SymbolLiteralStep ==
    ASSUME NEW extra \in [Owners -> Nat], IInv(extra), NEW d \in Bindings, NEW o \in Statics, SymbolLiteral(d, o)
    PROVE  IInv(extra)'
<1> DEFINE v == [owner |-> o, data |-> 0, length |-> Len(StaticBytes[o])]
<1>1. Len(StaticBytes[o]) \in Nat /\ Len(StaticBytes[o]) <= MaxLength
    BY BytesAssumption
<1>2. v \in View /\ InStatic(v.owner, v.data, v.length)
    BY <1>1, Sizes DEF View, InStatic
<1>3. Retain(heap, v.owner) = heap
    BY OwnersAssumption DEF Retain
<1> HIDE DEF v
<1>4. Bind(d, v, {}) /\ heap' = Retain(heap, v.owner) /\ UNCHANGED lender /\ d \notin live
    BY <1>3 DEF SymbolLiteral, v
<1>5. QED
    BY <1>2, <1>4, BindShared

LEMMA LiveView ==
    ASSUME NEW extra \in [Owners -> Nat], IInv(extra), NEW b \in live
    PROVE  /\ b \in Bindings /\ view[b] \in View
           /\ InStatic(view[b].owner, view[b].data, view[b].length)
BY TypeFacts DEF IInv, StaticWindows

LEMMA ShareStep ==
    ASSUME NEW extra \in [Owners -> Nat], IInv(extra), NEW s \in Bindings, NEW d \in Bindings, Share(s, d)
    PROVE  IInv(extra)'
BY LiveView, BindShared DEF Share

LEMMA SlicedView ==
    ASSUME NEW v \in View, NEW offset \in Nat, NEW length \in 0..MaxLength
    PROVE  LET w == [v EXCEPT !.data = @ + offset, !.length = length]
           IN  w \in View /\ w.owner = v.owner /\ w.data = v.data + offset /\ w.length = length
<1> DEFINE data == v.data + offset
<1>1. data \in Nat
    BY ViewFields
<1> HIDE DEF data
<1>2. LET w == [v EXCEPT !.data = data, !.length = length]
      IN  w \in View /\ w.owner = v.owner /\ w.data = data /\ w.length = length
    BY <1>1 DEF View
<1>3. QED
    BY <1>2 DEF data

\* A part of a part of n.
LEMMA PartFits ==
    ASSUME NEW data \in Nat, NEW all \in Nat, NEW n \in Nat, data + all <= n,
           NEW offset \in Nat, NEW length \in Nat, offset + length <= all
    PROVE  (data + offset) + length <= n
OBVIOUS

LEMMA SliceStep ==
    ASSUME NEW extra \in [Owners -> Nat], IInv(extra), NEW s \in Bindings, NEW d \in Bindings,
           NEW offset \in 0..MaxLength, NEW length \in 0..MaxLength, Slice(s, d, offset, length)
    PROVE  IInv(extra)'
<1>1. CASE length = 0
    BY <1>1, BindNothing DEF Slice
<1>2. CASE length # 0
    <2> DEFINE v == [view[s] EXCEPT !.data = @ + offset, !.length = length]
    <2>1. view[s] \in View /\ InStatic(view[s].owner, view[s].data, view[s].length)
        BY LiveView DEF Slice
    <2>2. offset \in Nat /\ length \in Nat /\ MaxLength \in Nat
        BY Sizes
    <2>3. v \in View /\ v.owner = view[s].owner
          /\ v.data = view[s].data + offset /\ v.length = length
        BY <2>1, <2>2, SlicedView
    <2>4. InStatic(v.owner, v.data, v.length)
        <3>1. offset + length <= view[s].length
            BY DEF Slice
        <3>2. view[s].data \in Nat /\ view[s].length \in Nat
            BY <2>1, ViewFields
        <3>3. ASSUME v.owner \in Statics
              PROVE  v.data + v.length <= Len(StaticBytes[v.owner])
            <4>1. Len(StaticBytes[v.owner]) \in Nat
                BY <3>3, BytesAssumption
            <4>2. view[s].data + view[s].length <= Len(StaticBytes[v.owner])
                BY <2>1, <2>3, <3>3 DEF InStatic
            <4> HIDE DEF v
            <4>3. v.data = view[s].data + offset /\ v.length = length
                BY <2>3
            <4>4. (view[s].data + offset) + length <= Len(StaticBytes[v.owner])
                BY <2>2, <3>1, <3>2, <4>1, <4>2, PartFits
            <4>5. QED
                BY <4>3, <4>4
        <3>4. QED
            BY <3>3 DEF InStatic
    <2>5. Bind(d, v, {}) /\ heap' = Retain(heap, view[s].owner) /\ UNCHANGED lender /\ d \notin live
        BY <1>2 DEF Slice
    <2> HIDE DEF v
    <2>6. QED
        BY <2>3, <2>4, <2>5, BindShared
<1>3. QED
    BY <1>1, <1>2

\* An alias holds no reference: nothing is counted and no owner gains a holder.
LEMMA AliasStep ==
    ASSUME NEW extra \in [Owners -> Nat], IInv(extra), NEW s \in Bindings, NEW d \in Bindings, Alias(s, d)
    PROVE  IInv(extra)'
<1>1. /\ s \in live /\ d \notin live
      /\ live' = live \cup {d}
      /\ view' = [b \in Bindings |-> IF b = d THEN view[s] ELSE view[b]]
      /\ lender' = [lender EXCEPT ![d] = IF Owned(s) THEN s ELSE lender[s]]
      /\ heap' = heap
    BY DEF Alias, Bind
<1>2. /\ heap \in Heaps /\ live \subseteq Bindings /\ view \in [Bindings -> View]
      /\ view[s] \in View /\ lender \in [Bindings -> Bindings \cup {None}]
    BY TypeFacts DEF IInv
<1>3. /\ lender' \in [Bindings -> Bindings \cup {None}]
      /\ lender'[d] # None
      /\ \A b \in Bindings : b # d => lender'[b] = lender[b]
    BY <1>1, <1>2, NoneIsNoOwner DEF Owned
<1>4. TypeOK'
    BY <1>1, <1>2, <1>3 DEF IInv, TypeOK, View, FlatHeader
<1>5. VacantBorrowNothing'
    BY <1>1, <1>3 DEF IInv, VacantBorrowNothing
<1>6. StaticWindows'
    BY <1>1, <1>2 DEF IInv, StaticWindows, InStatic
<1>7. \A o \in Owners : Holders(o)' = Holders(o)
    <2>1. \A b \in live : b \in Bindings /\ b # d /\ view'[b] = view[b] /\ lender'[b] = lender[b]
        BY <1>1, <1>2, <1>3
    <2>2. QED
        BY <1>1, <1>3, <2>1 DEF Holders
<1>8. Counted(extra)'
    BY <1>1, <1>7 DEF IInv, Counted
<1>9. QED
    BY <1>4, <1>5, <1>6, <1>8 DEF IInv

LEMMA DropStep ==
    ASSUME NEW extra \in [Owners -> Nat], IInv(extra), NEW b \in Bindings, Drop(b)
    PROVE  IInv(extra)'
<1>1. /\ b \in live
      /\ heap' = IF Owned(b) THEN Release(heap, view[b].owner) ELSE heap
      /\ live' = live \ {b}
      /\ view' = [view EXCEPT ![b] = NoView]
      /\ lender' = [lender EXCEPT ![b] = None]
    BY DEF Drop
<1>2. /\ heap \in Heaps /\ live \subseteq Bindings /\ view \in [Bindings -> View]
      /\ lender \in [Bindings -> Bindings \cup {None}]
      /\ \A o \in Owners : heap[o].references \in Nat
    BY TypeFacts DEF IInv
<1>3. Owned(b) /\ view[b].owner \in Owners => heap[view[b].owner].references >= 1
    BY OwnerCounted
<1>4. /\ heap' \in Heaps
      /\ \A o \in Owners : heap'[o].references
            = heap[o].references - (IF Owned(b) /\ view[b].owner = o THEN 1 ELSE 0)
    <2>1. CASE Owned(b)
        BY <1>1, <1>2, <1>3, <2>1, ReleaseHeap
    <2>2. CASE ~Owned(b)
        BY <1>1, <1>2, <2>2
    <2>3. QED
        BY <2>1, <2>2
<1>5. TypeOK'
    <2>1. live' \subseteq Bindings /\ view' \in [Bindings -> View]
          /\ lender' \in [Bindings -> Bindings \cup {None}]
        BY <1>1, <1>2, NoViewFacts
    <2>2. heap' \in [Owners -> FlatHeader]
          /\ \A o \in Owners : Len(heap'[o].bytes) = heap'[o].capacity
        BY <1>4 DEF Heaps
    <2>3. QED
        BY <2>1, <2>2 DEF TypeOK, View, FlatHeader
<1>6. VacantBorrowNothing'
    BY <1>1, <1>2 DEF IInv, VacantBorrowNothing
<1>7. StaticWindows'
    BY <1>1, <1>2 DEF IInv, StaticWindows, InStatic
<1>8. ASSUME NEW o \in Owners
      PROVE  heap'[o].references = Cardinality(Holders(o)') + extra[o]
    <2>1. IsFiniteSet(Holders(o)) /\ Cardinality(Holders(o)) \in Nat
        BY HoldersFinite DEF IInv
    <2>2. Holders(o)' = Holders(o) \ {b}
        <3>1. \A c \in live : c # b => view'[c] = view[c] /\ lender'[c] = lender[c]
            BY <1>1, <1>2
        <3>2. QED
            BY <1>1, <3>1 DEF Holders
    <2>3. b \in Holders(o) <=> Owned(b) /\ view[b].owner = o
        BY <1>1 DEF Holders, Owned
    <2>4. Cardinality(Holders(o) \ {b})
            = IF b \in Holders(o) THEN Cardinality(Holders(o)) - 1 ELSE Cardinality(Holders(o))
        BY <2>1, FS_RemoveElement
    <2>5. heap[o].references = Cardinality(Holders(o)) + extra[o] /\ extra[o] \in Nat
        BY DEF IInv, Counted
    <2>6. QED
        BY <1>4, <2>1, <2>2, <2>3, <2>4, <2>5
<1>9. Counted(extra)'
    BY <1>8 DEF Counted
<1>10. QED
    BY <1>5, <1>6, <1>7, <1>9 DEF IInv

LEMMA ConcatenateStep ==
    ASSUME NEW extra \in [Owners -> Nat], IInv(extra), NEW l \in Bindings, NEW r \in Bindings, NEW d \in Bindings, Concatenate(l, r, d)
    PROVE  IInv(extra)'
<1>1. /\ l \in live /\ r \in live /\ d \notin live /\ UNCHANGED lender
      /\ view[l].length + view[r].length <= MaxLength
    BY DEF Concatenate
<1>2. /\ view[l] \in View /\ InStatic(view[l].owner, view[l].data, view[l].length)
      /\ view[r] \in View /\ InStatic(view[r].owner, view[r].data, view[r].length)
    BY <1>1, LiveView
<1>3. CASE view[l].length = 0
    BY <1>1, <1>2, <1>3, BindShared DEF Concatenate
<1>4. CASE view[l].length # 0 /\ view[r].length = 0
    BY <1>1, <1>2, <1>4, BindShared DEF Concatenate
<1>5. CASE view[l].length # 0 /\ view[r].length # 0
    <2> DEFINE content == Read(heap, view[l].owner, view[l].data, view[l].length)
                          \o Read(heap, view[r].owner, view[r].data, view[r].length)
    <2>1. heap \in Heaps /\ view[l].length \in Nat /\ view[r].length \in Nat
        BY <1>2, TypeFacts, ViewFields DEF IInv
    <2>2. content \in Seq(Cell) /\ Len(content) = view[l].length + view[r].length
        BY <1>2, <2>1, OperandBytes, ConcatSeq
    <2>3. BindCopy(d, content)
        BY <1>5 DEF Concatenate
    <2> HIDE DEF content
    <2>4. QED
        BY <1>1, <2>2, <2>3, BindCopyStep
<1>6. QED
    BY <1>3, <1>4, <1>5

LEMMA TakesFacts ==
    ASSUME NEW extra \in [Owners -> Nat], IInv(extra), NEW taken \in Bindings, NEW other \in Bindings, NEW d \in Bindings,
           Takes(taken, other, d), EndLenders(taken)
    PROVE  /\ d \notin live
           /\ Taken(taken, Ended(taken), view[taken].owner)
           /\ Extends(heap, view[taken], view[other])
           /\ lender' \in [Bindings -> Bindings \cup {None}]
           /\ \A b \in Bindings : lender'[b] = IF b \in Ended(taken) THEN None ELSE lender[b]
<1>1. Owned(taken) /\ taken \in live /\ other \in live /\ d \notin live
      /\ view[taken].length + view[other].length <= MaxLength
    BY DEF Takes, Owned
<1>2. Taken(taken, Ended(taken), view[taken].owner)
    BY <1>1 DEF Taken
<1>3. heap \in Heaps /\ lender \in [Bindings -> Bindings \cup {None}]
    BY TypeFacts DEF IInv
<1>4. Extends(heap, view[taken], view[other])
    BY <1>1, <1>3, LiveView, OwnerCounted DEF Extends
<1>5. QED
    BY <1>1, <1>2, <1>3, <1>4 DEF EndLenders

LEMMA MoveTakenStep ==
    ASSUME NEW extra \in [Owners -> Nat], IInv(extra), NEW taken \in Bindings, NEW other \in Bindings, NEW d \in Bindings,
           Takes(taken, other, d), EndLenders(taken), MoveTaken(taken, d)
    PROVE  IInv(extra)'
<1>1. Moved(heap, heap', view[taken].owner, view[taken].owner)
    <2>1. \A o \in Owners : heap[o].references \in Nat
        BY TypeFacts DEF IInv
    <2>2. QED
        BY <2>1 DEF Moved, MoveTaken
<1>2. heap' \in Heaps /\ view[taken] \in View
      /\ InStatic(view[taken].owner, view[taken].data, view[taken].length)
    BY TakesFacts DEF MoveTaken, Extends
<1>3. Bind(d, view[taken], Ended(taken))
    BY DEF MoveTaken
<1>4. QED
    BY <1>1, <1>2, <1>3, TakesFacts, Rebind

LEMMA ShareOtherStep ==
    ASSUME NEW extra \in [Owners -> Nat], IInv(extra), NEW taken \in Bindings, NEW other \in Bindings, NEW d \in Bindings,
           Takes(taken, other, d), EndLenders(taken), ShareOther(taken, other, d)
    PROVE  IInv(extra)'
<1> DEFINE from == view[taken].owner
           to == view[other].owner
           g == Release(heap, from)
<1>1. Extends(heap, view[taken], view[other])
    BY TakesFacts
<1>2. g \in Heaps
      /\ \A q \in Owners : g[q].references = heap[q].references - (IF q = from THEN 1 ELSE 0)
    BY <1>1, ReleaseHeap DEF Extends
<1>3. \A q \in Owners : heap[q].references \in Nat
    BY TypeFacts DEF IInv
<1> HIDE DEF g
<1>4. Retain(g, to) \in Heaps
      /\ \A q \in Owners : Retain(g, to)[q].references
                            = g[q].references + (IF q = to THEN 1 ELSE 0)
    BY <1>2, RetainHeap
<1>5. heap' = Retain(g, to) /\ Bind(d, view[other], Ended(taken))
    BY DEF ShareOther, g
<1> HIDE DEF from, to
<1>6. heap' \in Heaps /\ Moved(heap, heap', from, to)
    BY <1>2, <1>3, <1>4, <1>5 DEF Moved
<1>7. view[other] \in View /\ InStatic(view[other].owner, view[other].data, view[other].length)
    BY <1>1 DEF Extends
<1>8. QED
    BY <1>5, <1>6, <1>7, TakesFacts, Rebind DEF from, to

\* A result that covers the whole of the owner an extension left it on.
LEMMA BindWholeStep ==
    ASSUME NEW extra \in [Owners -> Nat], IInv(extra), NEW taken \in Bindings, NEW other \in Bindings, NEW d \in Bindings,
           Takes(taken, other, d), EndLenders(taken), NEW p \in Owners,
           heap' \in Heaps, Moved(heap, heap', view[taken].owner, p),
           NEW length, length = view[taken].length + view[other].length,
           BindWhole(d, p, length, Ended(taken))
    PROVE  IInv(extra)'
<1> DEFINE v == [owner |-> p, data |-> heap'[p].start, length |-> length]
<1>1. length \in 0..MaxLength
    BY TakesFacts, ViewFields, Sizes DEF Extends
<1>2. heap'[p].start \in Nat
    BY DEF Heaps, FlatHeader
<1>3. v \in View /\ v.owner = p /\ InStatic(v.owner, v.data, v.length)
    BY <1>1, <1>2, OwnersAssumption DEF View, InStatic
<1>4. Bind(d, v, Ended(taken))
    BY DEF BindWhole
<1> HIDE DEF v
<1>5. QED
    BY <1>3, <1>4, TakesFacts, Rebind

LEMMA PlacesAreOwners ==
    ASSUME NEW h, NEW v, NEW w
    PROVE  /\ AppendPlaces(h, v, w) \subseteq Owners
           /\ PrependPlaces(h, v, w) \subseteq Owners
BY DEF AppendPlaces, PrependPlaces, Extensible, Fresh

LEMMA ConsumingLeftStep ==
    ASSUME NEW extra \in [Owners -> Nat], IInv(extra), NEW l \in Bindings, NEW r \in Bindings, NEW d \in Bindings,
           ConsumingLeft(l, r, d)
    PROVE  IInv(extra)'
<1>1. Takes(l, r, d) /\ EndLenders(l)
    BY DEF ConsumingLeft
<1>2. CASE view[l].length = 0
    BY <1>1, <1>2, ShareOtherStep DEF ConsumingLeft
<1>3. CASE view[l].length # 0 /\ view[r].length = 0
    BY <1>1, <1>3, MoveTakenStep DEF ConsumingLeft
<1>4. CASE view[l].length # 0 /\ view[r].length # 0
    <2>1. PICK p \in AppendPlaces(heap, view[l], view[r]) :
            /\ heap' = IF Extensible(heap, view[l])
                       THEN AppendInPlace(heap, view[l], view[r], p)
                       ELSE AppendCopy(heap, view[l], view[r], p)
            /\ BindWhole(d, p, view[l].length + view[r].length, Ended(l))
        BY <1>4 DEF ConsumingLeft
    <2>2. Extends(heap, view[l], view[r])
        BY <1>1, TakesFacts
    <2>3. heap' \in Heaps /\ Moved(heap, heap', view[l].owner, p)
        <3>1. CASE Extensible(heap, view[l])
            BY <2>1, <2>2, <3>1, AppendInPlaceHeap
        <3>2. CASE ~Extensible(heap, view[l])
            BY <2>1, <2>2, <3>2, AppendCopyHeap DEF AppendPlaces
        <3>3. QED
            BY <3>1, <3>2
    <2>4. QED
        BY <1>1, <2>1, <2>3, PlacesAreOwners, BindWholeStep
<1>5. QED
    BY <1>2, <1>3, <1>4

LEMMA ConsumingRightStep ==
    ASSUME NEW extra \in [Owners -> Nat], IInv(extra), NEW l \in Bindings, NEW r \in Bindings, NEW d \in Bindings,
           ConsumingRight(l, r, d)
    PROVE  IInv(extra)'
<1>1. Takes(r, l, d) /\ EndLenders(r)
    BY DEF ConsumingRight
<1>2. CASE view[l].length = 0
    BY <1>1, <1>2, MoveTakenStep DEF ConsumingRight
<1>3. CASE view[l].length # 0 /\ view[r].length = 0
    BY <1>1, <1>3, ShareOtherStep DEF ConsumingRight
<1>4. CASE view[l].length # 0 /\ view[r].length # 0
    <2>1. PICK p \in PrependPlaces(heap, view[r], view[l]) :
            /\ heap' = IF Extensible(heap, view[r])
                       THEN PrependInPlace(heap, view[r], view[l], p)
                       ELSE PrependCopy(heap, view[r], view[l], p)
            /\ BindWhole(d, p, view[l].length + view[r].length, Ended(r))
        BY <1>4 DEF ConsumingRight
    <2>2. Extends(heap, view[r], view[l])
        BY <1>1, TakesFacts
    <2>3. heap' \in Heaps /\ Moved(heap, heap', view[r].owner, p)
        <3>1. CASE Extensible(heap, view[r])
            BY <2>1, <2>2, <3>1, PrependInPlaceHeap
        <3>2. CASE ~Extensible(heap, view[r])
            BY <2>1, <2>2, <3>2, PrependCopyHeap DEF PrependPlaces
        <3>3. QED
            BY <3>1, <3>2
    <2>4. view[l].length + view[r].length = view[r].length + view[l].length
        BY <2>2, ViewFields DEF Extends
    <2>5. QED
        BY <1>1, <2>1, <2>3, <2>4, PlacesAreOwners, BindWholeStep
<1>5. QED
    BY <1>2, <1>3, <1>4

-----------------------------------------------------------------------------
(* The theorems. *)

\* No one but the bindings holds an owner.
Alone == [o \in Owners |-> 0]

LEMMA AloneType == Alone \in [Owners -> Nat] /\ \A o \in Owners : Alone[o] = 0
BY DEF Alone

LEMMA InitIInv == Init => IInv(Alone)
<1> SUFFICES ASSUME Init PROVE IInv(Alone)
    OBVIOUS
<1>1. /\ heap = [o \in Owners |-> Freed] /\ live = {}
      /\ view = [b \in Bindings |-> NoView] /\ lender = [b \in Bindings |-> None]
    BY DEF Init
<1>2. TypeOK
    BY <1>1, FreedType, NoViewFacts DEF TypeOK
<1>3. Counted(Alone)
    <2>1. \A o \in Owners : heap[o].references = 0 /\ Holders(o) = {}
        BY <1>1 DEF Freed, Holders
    <2>2. Cardinality({}) = 0
        BY FS_EmptySet
    <2>3. QED
        BY <2>1, <2>2, AloneType DEF Counted
<1>4. VacantBorrowNothing /\ StaticWindows
    BY <1>1 DEF VacantBorrowNothing, StaticWindows
<1>5. QED
    BY <1>2, <1>3, <1>4 DEF IInv

LEMMA NextIInv ==
    ASSUME NEW extra \in [Owners -> Nat], IInv(extra), [Next]_vars
    PROVE  IInv(extra)'
<1>1. CASE UNCHANGED vars
    BY <1>1 DEF vars, IInv, TypeOK, View, FlatHeader, Counted, Holders,
                VacantBorrowNothing, StaticWindows, InStatic
<1>2. CASE \E d \in Bindings, content \in Inputs : SymbolFrom(d, content)
    BY <1>2, SymbolFromStep
<1>3. CASE \E d \in Bindings, o \in Statics : SymbolLiteral(d, o)
    BY <1>3, SymbolLiteralStep
<1>4. CASE \E s, d \in Bindings : Alias(s, d)
    BY <1>4, AliasStep
<1>5. CASE \E s, d \in Bindings : Share(s, d)
    BY <1>5, ShareStep
<1>6. CASE \E s, d \in Bindings : \E offset, length \in 0..MaxLength : Slice(s, d, offset, length)
    BY <1>6, SliceStep
<1>7. CASE \E b \in Bindings : Drop(b)
    BY <1>7, DropStep
<1>8. CASE \E l, r, d \in Bindings : Concatenate(l, r, d)
    BY <1>8, ConcatenateStep
<1>9. CASE \E l, r, d \in Bindings : ConsumingLeft(l, r, d)
    BY <1>9, ConsumingLeftStep
<1>10. CASE \E l, r, d \in Bindings : ConsumingRight(l, r, d)
    BY <1>10, ConsumingRightStep
<1>11. QED
    BY <1>1, <1>2, <1>3, <1>4, <1>5, <1>6, <1>7, <1>8, <1>9, <1>10 DEF Next

LEMMA IInvInvariant == Spec => []IInv(Alone)
<1>1. IInv(Alone) /\ [Next]_vars => IInv(Alone)'
    BY NextIInv, AloneType
<1>2. QED
    BY <1>1, InitIInv, PTL DEF Spec

-----------------------------------------------------------------------------
(* Who views an owner.  What borrows has the view of an owned binding, which  *)
(* keeps the owner alive for it; and no binding views an owner that others    *)
(* hold, whatever a step shares, slices or extends.                           *)

Lent == \A b \in live : lender[b] # None => Owned(lender[b]) /\ view[b] = view[lender[b]]

Spare(extra, v) == v.owner \in Owners => extra[v.owner] = 0
Unviewed(extra) == \A b \in live : Spare(extra, view[b])

Held(extra) == IInv(extra) /\ Lent /\ Unviewed(extra)

ViewsAlive ==
    \A b \in live : view[b].owner \in Owners => heap[view[b].owner].references >= 1

\* Whatever views an owner keeps it alive.
LEMMA ViewedAlive ==
    ASSUME NEW extra \in [Owners -> Nat], IInv(extra), Lent
    PROVE  ViewsAlive
<1> SUFFICES ASSUME NEW b \in live, view[b].owner \in Owners
             PROVE  heap[view[b].owner].references >= 1
    BY DEF ViewsAlive
<1>1. CASE lender[b] = None
    <2>1. Owned(b)
        BY <1>1 DEF Owned
    <2>2. QED
        BY <2>1, OwnerCounted
<1>2. CASE lender[b] # None
    <2>1. Owned(lender[b]) /\ view[b] = view[lender[b]]
        BY <1>2 DEF Lent
    <2>2. QED
        BY <2>1, OwnerCounted
<1>3. QED
    BY <1>1, <1>2

\* An owner that is viewed or held is alive.
HeldAlive ==
    \A extra \in [Owners -> Nat] :
        Held(extra) => ViewsAlive /\ \A o \in Owners : heap[o].references >= extra[o]

LEMMA HeldAliveAlways == HeldAlive
<1> SUFFICES ASSUME NEW extra \in [Owners -> Nat], Held(extra)
             PROVE  ViewsAlive /\ \A o \in Owners : heap[o].references >= extra[o]
    BY DEF HeldAlive
<1>1. ViewsAlive
    BY ViewedAlive DEF Held
<1>2. ASSUME NEW o \in Owners
      PROVE  heap[o].references >= extra[o]
    <2>1. Cardinality(Holders(o)) \in Nat
        BY HoldersFinite DEF Held, IInv
    <2>2. heap[o].references = Cardinality(Holders(o)) + extra[o]
        BY DEF Held, IInv, Counted
    <2>3. QED
        BY <2>1, <2>2
<1>3. QED
    BY <1>1, <1>2

LEMMA HeldAfter ==
    ASSUME NEW extra \in [Owners -> Nat], Held(extra)'
    PROVE  ViewsAlive' /\ \A o \in Owners : heap'[o].references >= extra[o]
<1>1. HeldAlive'
    BY HeldAliveAlways, PTL
<1>2. QED
    BY <1>1 DEF HeldAlive

\* A free owner is held by no one.
LEMMA FreshSpare ==
    ASSUME NEW extra \in [Owners -> Nat], IInv(extra), NEW o \in Fresh(heap)
    PROVE  o \in Owners /\ extra[o] = 0
<1>1. o \in Owners /\ heap[o].references = 0
    BY DEF Fresh
<1>2. Cardinality(Holders(o)) \in Nat
    BY HoldersFinite DEF IInv
<1>3. heap[o].references = Cardinality(Holders(o)) + extra[o] /\ extra[o] \in Nat
    BY <1>1 DEF IInv, Counted
<1>4. QED
    BY <1>1, <1>2, <1>3

\* The owners that end with ended are not lent out, and what is bound borrows nothing.
Ends(ended, taken) ==
    /\ ended = {} \/ (Owned(taken) /\ ended = Ended(taken))
    /\ \A b \in Bindings : lender'[b] = IF b \in ended THEN None ELSE lender[b]

LEMMA BindFacts ==
    ASSUME NEW extra \in [Owners -> Nat], IInv(extra), NEW d \in Bindings, d \notin live,
           NEW v, NEW ended, NEW taken, Bind(d, v, ended), Ends(ended, taken)
    PROVE  /\ live' = (live \ ended) \cup {d} /\ ended \subseteq live /\ live \subseteq Bindings
           /\ view'[d] = v
           /\ \A b \in live \ ended : view'[b] = view[b]
           /\ \A b \in live \ ended : b \in live'
<1>1. live \subseteq Bindings
    BY TypeFacts DEF IInv
<1>2. ended \subseteq live
    BY DEF Ends, Ended, Borrowers, Owned
<1>3. QED
    BY <1>1, <1>2 DEF Bind

LEMMA BindLends ==
    ASSUME NEW extra \in [Owners -> Nat], IInv(extra), Lent, NEW d \in Bindings, d \notin live,
           NEW v, NEW ended, NEW taken, Bind(d, v, ended), Ends(ended, taken)
    PROVE  Lent'
<1> SUFFICES ASSUME NEW b \in live', lender'[b] # None
             PROVE  Owned(lender[b])' /\ view'[b] = view'[lender'[b]]
    BY DEF Lent
<1>1. /\ live' = (live \ ended) \cup {d} /\ live \subseteq Bindings /\ ended \subseteq live
      /\ \A c \in live \ ended : view'[c] = view[c]
    BY BindFacts
<1>2. lender[d] = None
    BY DEF IInv, VacantBorrowNothing
<1>3. b # d /\ b \in live \ ended /\ lender'[b] = lender[b]
    BY <1>1, <1>2 DEF Ends
<1>4. Owned(lender[b]) /\ view[b] = view[lender[b]]
    BY <1>3 DEF Lent
<1> DEFINE c == lender[b]
<1>5. c \in live /\ lender[c] = None
    BY <1>4 DEF Owned
<1>6. c \notin ended
    <2> SUFFICES ASSUME c \in ended PROVE FALSE
        OBVIOUS
    <2>1. Owned(taken) /\ ended = Ended(taken)
        BY DEF Ends
    <2>2. taken # None
        BY <1>1, <2>1, OwnersAssumption DEF Owned
    <2>3. c = taken
        BY <1>5, <2>1, <2>2 DEF Ended, Borrowers
    <2>4. b \in ended
        BY <1>3, <2>1, <2>3 DEF Ended, Borrowers
    <2>5. QED
        BY <1>3, <2>4
<1>7. c \in live' /\ lender'[c] = None /\ view'[c] = view[c]
    BY <1>1, <1>5, <1>6 DEF Ends
<1>8. QED
    BY <1>1, <1>3, <1>4, <1>7 DEF Owned

\* A binding that takes over a spare value disturbs no one else's owners.
LEMMA BindHeld ==
    ASSUME NEW extra \in [Owners -> Nat], Held(extra), IInv(extra)', NEW d \in Bindings,
           d \notin live, NEW v, NEW ended, NEW taken, Bind(d, v, ended), Ends(ended, taken),
           Spare(extra, v)
    PROVE  Held(extra)'
<1>1. Lent'
    BY BindLends DEF Held
<1>2. /\ live' = (live \ ended) \cup {d} /\ view'[d] = v
      /\ \A b \in live \ ended : view'[b] = view[b]
    BY BindFacts DEF Held
<1>3. \A b \in live : Spare(extra, view[b])
    BY DEF Held, Unviewed
<1>4. \A b \in live' : Spare(extra, view'[b])
    BY <1>2, <1>3
<1>5. Unviewed(extra)'
    BY <1>4 DEF Unviewed, Spare
<1>6. QED
    BY <1>1, <1>5 DEF Held

LEMMA NothingEnds ==
    ASSUME UNCHANGED lender
    PROVE  Ends({}, None)
BY DEF Ends

LEMMA SpareNoView ==
    ASSUME NEW extra
    PROVE  Spare(extra, NoView)
BY NoneIsNoOwner DEF Spare, NoView

LEMMA BindCopyHeld ==
    ASSUME NEW extra \in [Owners -> Nat], Held(extra), IInv(extra)', NEW d \in Bindings,
           d \notin live, NEW content, BindCopy(d, content), UNCHANGED lender
    PROVE  Held(extra)'
<1>1. CASE Len(content) = 0
    BY <1>1, SpareNoView, NothingEnds, BindHeld DEF BindCopy
<1>2. CASE Len(content) # 0
    <2>1. PICK p \in Fresh(heap) :
            Bind(d, [owner |-> p, data |-> 0, length |-> Len(content)], {})
        BY <1>2 DEF BindCopy
    <2> DEFINE v == [owner |-> p, data |-> 0, length |-> Len(content)]
    <2>2. Spare(extra, v)
        BY FreshSpare DEF Spare, Held
    <2>3. Bind(d, v, {})
        BY <2>1
    <2> HIDE DEF v
    <2>4. QED
        BY <2>2, <2>3, NothingEnds, BindHeld
<1>3. QED
    BY <1>1, <1>2

LEMMA SliceHeld ==
    ASSUME NEW extra \in [Owners -> Nat], Held(extra), IInv(extra)', NEW s \in Bindings,
           NEW d \in Bindings, NEW offset, NEW length, Slice(s, d, offset, length)
    PROVE  Held(extra)'
<1>1. s \in live /\ d \notin live /\ UNCHANGED lender
    BY DEF Slice
<1>2. CASE length = 0
    BY <1>1, <1>2, SpareNoView, NothingEnds, BindHeld DEF Slice
<1>3. CASE length # 0
    <2> DEFINE v == [view[s] EXCEPT !.data = @ + offset, !.length = length]
    <2>1. Bind(d, v, {})
        BY <1>3 DEF Slice
    <2>2. view[s] \in View
        BY <1>1, TypeFacts DEF Held, IInv
    <2>3. v.owner = view[s].owner
        BY <2>2 DEF View
    <2> HIDE DEF v
    <2>4. Spare(extra, v)
        BY <1>1, <2>3 DEF Held, Unviewed, Spare
    <2>5. QED
        BY <1>1, <2>1, <2>4, NothingEnds, BindHeld
<1>4. QED
    BY <1>2, <1>3

LEMMA AliasHeld ==
    ASSUME NEW extra \in [Owners -> Nat], Held(extra), IInv(extra)', NEW s \in Bindings,
           NEW d \in Bindings, Alias(s, d)
    PROVE  Held(extra)'
<1>1. /\ s \in live /\ d \notin live
      /\ live' = live \cup {d} /\ live \subseteq Bindings
      /\ lender' = [lender EXCEPT ![d] = IF Owned(s) THEN s ELSE lender[s]]
      /\ view'[d] = view[s] /\ \A b \in live : b # d /\ view'[b] = view[b]
    BY TypeFacts DEF Alias, Bind, Held, IInv
<1>2. lender \in [Bindings -> Bindings \cup {None}]
    BY TypeFacts DEF Held, IInv
<1>3. \A b \in live : lender'[b] = lender[b]
    BY <1>1, <1>2
<1>4. Lent'
    <2> SUFFICES ASSUME NEW b \in live', lender'[b] # None
                 PROVE  Owned(lender[b])' /\ view'[b] = view'[lender'[b]]
        BY DEF Lent
    <2>1. PICK c \in live : lender'[b] = c /\ lender[c] = None /\ view'[b] = view[c]
        <3>1. CASE b # d
            <4>1. Owned(lender[b]) /\ view[b] = view[lender[b]] /\ b \in live
                BY <1>1, <1>3, <3>1 DEF Held, Lent
            <4>2. QED
                BY <1>1, <1>3, <4>1 DEF Owned
        <3>2. CASE b = d /\ Owned(s)
            BY <1>1, <1>2, <3>2 DEF Owned
        <3>3. CASE b = d /\ ~Owned(s)
            <4>1. lender[s] # None
                BY <1>1, <3>3 DEF Owned
            <4>2. Owned(lender[s]) /\ view[s] = view[lender[s]]
                BY <1>1, <4>1 DEF Held, Lent
            <4>3. QED
                BY <1>1, <1>2, <3>3, <4>2 DEF Owned
        <3>4. QED
            BY <3>1, <3>2, <3>3
    <2>2. QED
        BY <1>1, <1>3, <2>1 DEF Owned
<1>5. \A b \in live' : Spare(extra, view'[b])
    <2>1. \A b \in live : Spare(extra, view[b])
        BY DEF Held, Unviewed
    <2>2. QED
        BY <1>1, <2>1
<1>6. Unviewed(extra)'
    BY <1>5 DEF Unviewed, Spare
<1>7. QED
    BY <1>4, <1>6 DEF Held

LEMMA DropHeld ==
    ASSUME NEW extra \in [Owners -> Nat], Held(extra), IInv(extra)', NEW b \in Bindings, Drop(b)
    PROVE  Held(extra)'
<1>1. /\ b \in live /\ Borrowers(b) = {} /\ live' = live \ {b}
      /\ view' = [view EXCEPT ![b] = NoView]
      /\ lender' = [lender EXCEPT ![b] = None]
    BY DEF Drop
<1>2. /\ live \subseteq Bindings /\ view \in [Bindings -> View]
      /\ lender \in [Bindings -> Bindings \cup {None}]
    BY TypeFacts DEF Held, IInv
<1>3. \A c \in live' : c \in live /\ view'[c] = view[c] /\ lender'[c] = lender[c]
    BY <1>1, <1>2
<1>4. Lent'
    <2> SUFFICES ASSUME NEW c \in live', lender'[c] # None
                 PROVE  Owned(lender[c])' /\ view'[c] = view'[lender'[c]]
        BY DEF Lent
    <2>1. c \in live /\ lender'[c] = lender[c] /\ view'[c] = view[c]
        BY <1>3
    <2>2. Owned(lender[c]) /\ view[c] = view[lender[c]]
        BY <2>1 DEF Held, Lent
    <2>3. lender[c] # b
        BY <1>1, <2>1 DEF Borrowers
    <2>4. lender[c] \in live' /\ lender[lender[c]] = None
        BY <1>1, <2>2, <2>3 DEF Owned
    <2>5. QED
        BY <1>3, <2>1, <2>2, <2>4 DEF Owned
<1>5. \A c \in live' : Spare(extra, view'[c])
    <2>1. \A c \in live : Spare(extra, view[c])
        BY DEF Held, Unviewed
    <2>2. QED
        BY <1>3, <2>1
<1>6. Unviewed(extra)'
    BY <1>5 DEF Unviewed, Spare
<1>7. QED
    BY <1>4, <1>6 DEF Held

LEMMA ConcatenateHeld ==
    ASSUME NEW extra \in [Owners -> Nat], Held(extra), IInv(extra)', NEW l \in Bindings,
           NEW r \in Bindings, NEW d \in Bindings, Concatenate(l, r, d)
    PROVE  Held(extra)'
<1>1. l \in live /\ r \in live /\ d \notin live /\ UNCHANGED lender
    BY DEF Concatenate
<1>2. Spare(extra, view[l]) /\ Spare(extra, view[r])
    BY <1>1 DEF Held, Unviewed
<1>3. CASE view[l].length = 0
    BY <1>1, <1>2, <1>3, NothingEnds, BindHeld DEF Concatenate
<1>4. CASE view[l].length # 0 /\ view[r].length = 0
    BY <1>1, <1>2, <1>4, NothingEnds, BindHeld DEF Concatenate
<1>5. CASE view[l].length # 0 /\ view[r].length # 0
    BY <1>1, <1>5, BindCopyHeld DEF Concatenate
<1>6. QED
    BY <1>3, <1>4, <1>5

LEMMA ConsumingHeld ==
    ASSUME NEW extra \in [Owners -> Nat], Held(extra), IInv(extra)', NEW taken \in Bindings,
           NEW other \in Bindings, NEW d \in Bindings, Takes(taken, other, d), EndLenders(taken),
           NEW v, Bind(d, v, Ended(taken)),
           \/ v = view[taken] \/ v = view[other]
           \/ v.owner \in {view[taken].owner} \cup Fresh(heap)
    PROVE  Held(extra)'
<1>1. /\ d \notin live /\ Owned(taken) /\ taken \in live /\ other \in live
    BY DEF Takes, Owned
<1>2. Ends(Ended(taken), taken)
    <2>1. \A b \in Bindings : lender'[b] = IF b \in Ended(taken) THEN None ELSE lender[b]
        BY DEF EndLenders
    <2>2. QED
        BY <1>1, <2>1 DEF Ends
<1>3. Spare(extra, view[taken]) /\ Spare(extra, view[other])
    BY <1>1 DEF Held, Unviewed
<1>4. \A o \in Fresh(heap) : extra[o] = 0
    BY FreshSpare DEF Held
<1>5. Spare(extra, v)
    BY <1>3, <1>4 DEF Spare
<1>6. QED
    BY <1>1, <1>2, <1>5, BindHeld

LEMMA ConsumingLeftHeld ==
    ASSUME NEW extra \in [Owners -> Nat], Held(extra), IInv(extra)', NEW l \in Bindings,
           NEW r \in Bindings, NEW d \in Bindings, ConsumingLeft(l, r, d)
    PROVE  Held(extra)'
<1>1. Takes(l, r, d) /\ EndLenders(l)
    BY DEF ConsumingLeft
<1>2. CASE view[l].length = 0
    BY <1>1, <1>2, ConsumingHeld DEF ConsumingLeft, ShareOther
<1>3. CASE view[l].length # 0 /\ view[r].length = 0
    BY <1>1, <1>3, ConsumingHeld DEF ConsumingLeft, MoveTaken
<1>4. CASE view[l].length # 0 /\ view[r].length # 0
    <2>1. PICK p \in AppendPlaces(heap, view[l], view[r]) :
            BindWhole(d, p, view[l].length + view[r].length, Ended(l))
        BY <1>4 DEF ConsumingLeft
    <2>2. p \in {view[l].owner} \cup Fresh(heap)
        BY DEF AppendPlaces
    <2>3. PICK v : v.owner = p /\ Bind(d, v, Ended(l))
        BY <2>1 DEF BindWhole
    <2>4. QED
        BY <1>1, <2>2, <2>3, ConsumingHeld
<1>5. QED
    BY <1>2, <1>3, <1>4

LEMMA ConsumingRightHeld ==
    ASSUME NEW extra \in [Owners -> Nat], Held(extra), IInv(extra)', NEW l \in Bindings,
           NEW r \in Bindings, NEW d \in Bindings, ConsumingRight(l, r, d)
    PROVE  Held(extra)'
<1>1. Takes(r, l, d) /\ EndLenders(r)
    BY DEF ConsumingRight
<1>2. CASE view[l].length = 0
    BY <1>1, <1>2, ConsumingHeld DEF ConsumingRight, MoveTaken
<1>3. CASE view[l].length # 0 /\ view[r].length = 0
    BY <1>1, <1>3, ConsumingHeld DEF ConsumingRight, ShareOther
<1>4. CASE view[l].length # 0 /\ view[r].length # 0
    <2>1. PICK p \in PrependPlaces(heap, view[r], view[l]) :
            BindWhole(d, p, view[l].length + view[r].length, Ended(r))
        BY <1>4 DEF ConsumingRight
    <2>2. p \in {view[r].owner} \cup Fresh(heap)
        BY DEF PrependPlaces
    <2>3. PICK v : v.owner = p /\ Bind(d, v, Ended(r))
        BY <2>1 DEF BindWhole
    <2>4. QED
        BY <1>1, <2>2, <2>3, ConsumingHeld
<1>5. QED
    BY <1>2, <1>3, <1>4

LEMMA LiteralHeld ==
    ASSUME NEW extra \in [Owners -> Nat], Held(extra), IInv(extra)', NEW d \in Bindings,
           NEW o \in Statics, SymbolLiteral(d, o)
    PROVE  Held(extra)'
<1> DEFINE v == [owner |-> o, data |-> 0, length |-> Len(StaticBytes[o])]
<1>1. Spare(extra, v)
    BY OwnersAssumption DEF Spare
<1>2. Bind(d, v, {}) /\ d \notin live /\ UNCHANGED lender
    BY DEF SymbolLiteral
<1> HIDE DEF v
<1>3. QED
    BY <1>1, <1>2, NothingEnds, BindHeld

LEMMA NextHeld ==
    ASSUME NEW extra \in [Owners -> Nat], Held(extra), [Next]_vars
    PROVE  Held(extra)'
<1>0. IInv(extra)'
    BY NextIInv DEF Held
<1>1. CASE UNCHANGED vars
    BY <1>0, <1>1 DEF vars, Held, Lent, Unviewed, Owned
<1>2. CASE \E d \in Bindings, content \in Inputs : SymbolFrom(d, content)
    BY <1>0, <1>2, BindCopyHeld DEF SymbolFrom
<1>3. CASE \E d \in Bindings, o \in Statics : SymbolLiteral(d, o)
    BY <1>0, <1>3, LiteralHeld
<1>4. CASE \E s, d \in Bindings : Alias(s, d)
    BY <1>0, <1>4, AliasHeld
<1>5. CASE \E s, d \in Bindings : Share(s, d)
    <2>1. PICK s \in Bindings, d \in Bindings : Share(s, d)
        BY <1>5
    <2>2. /\ s \in live /\ d \notin live /\ Bind(d, view[s], {}) /\ UNCHANGED lender
          /\ Spare(extra, view[s])
        BY <2>1 DEF Share, Held, Unviewed
    <2>3. QED
        BY <1>0, <2>2, NothingEnds, BindHeld
<1>6. CASE \E s, d \in Bindings : \E offset, length \in 0..MaxLength : Slice(s, d, offset, length)
    BY <1>0, <1>6, SliceHeld
<1>7. CASE \E b \in Bindings : Drop(b)
    BY <1>0, <1>7, DropHeld
<1>8. CASE \E l, r, d \in Bindings : Concatenate(l, r, d)
    BY <1>0, <1>8, ConcatenateHeld
<1>9. CASE \E l, r, d \in Bindings : ConsumingLeft(l, r, d)
    BY <1>0, <1>9, ConsumingLeftHeld
<1>10. CASE \E l, r, d \in Bindings : ConsumingRight(l, r, d)
    BY <1>0, <1>10, ConsumingRightHeld
<1>11. QED
    BY <1>1, <1>2, <1>3, <1>4, <1>5, <1>6, <1>7, <1>8, <1>9, <1>10 DEF Next

LEMMA InitHeld == Init => Held(Alone)
BY InitIInv DEF Held, Lent, Unviewed, Init

-----------------------------------------------------------------------------
\* Every owner's header and every binding's view keep their types, whatever the concatenation
\* plan consumes: offsets and headroom never go below zero, and an owner's bytes always fill
\* its capacity, through every append, prepend and realloc of bytes.c.
THEOREM TypeCorrect == Spec => []TypeOK
<1>1. IInv(Alone) => TypeOK
    BY DEF IInv
<1>2. QED
    BY <1>1, IInvInvariant, PTL

\* The count of a byte owner is at all times the number of bindings that own it: the consuming
\* concatenations, slices, aliases and drops neither leak an owner nor free it early.
THEOREM ReferencesCorrect == Spec => []ReferencesMatchHolders
<1>1. IInv(Alone) => ReferencesMatchHolders
    <2> SUFFICES ASSUME IInv(Alone), NEW o \in Owners
                 PROVE  heap[o].references = Cardinality(Holders(o))
        BY DEF ReferencesMatchHolders
    <2>1. Cardinality(Holders(o)) \in Nat
        BY HoldersFinite DEF IInv
    <2>2. QED
        BY <2>1, AloneType DEF IInv, Counted
<1>2. QED
    BY <1>1, IInvInvariant, PTL

-----------------------------------------------------------------------------
(* Windows onto readable owners.                                              *)

\* The active part of an owner lies in its storage, and is initialised.
Readable(h, q) ==
    /\ h[q].start + h[q].length <= h[q].capacity
    /\ \A i \in 1..h[q].length : h[q].bytes[h[q].start + i] # Junk

\* A view is a window onto the active part of its owner, which is alive.
InWindow(h, v) ==
    /\ v.owner = None => v.length = 0
    /\ v.owner \in Owners =>
          /\ h[v.owner].references >= 1
          /\ h[v.owner].start <= v.data
          /\ v.data + v.length <= h[v.owner].start + h[v.owner].length

\* The owner keeps serving: nothing but its count has changed.
Serves(h, k, q) ==
    /\ k[q].references >= 1
    /\ k[q].start = h[q].start /\ k[q].length = h[q].length
    /\ k[q].capacity = h[q].capacity /\ k[q].bytes = h[q].bytes

\* Every owner alive before and after keeps serving.
Quiet(h, k) ==
    \A q \in Owners : h[q].references >= 1 /\ k[q].references >= 1 => Serves(h, k, q)

\* Every owner alive afterwards was readable before, or is a new one that is.
Renews(h, k) ==
    \A q \in Owners : k[q].references >= 1 /\ h[q].references = 0 => Readable(k, q)

-----------------------------------------------------------------------------
(* Reading and counting. *)

LEMMA HeaderFacts ==
    ASSUME NEW h \in Heaps, NEW q \in Owners
    PROVE  /\ h[q] \in FlatHeader /\ h[q].references \in Nat /\ h[q].length \in Nat
           /\ h[q].capacity \in Nat /\ h[q].start \in Nat /\ h[q].bytes \in Seq(Cell)
           /\ DOMAIN h[q].bytes = 1..h[q].capacity
BY DEF Heaps, FlatHeader, Cell

LEMMA ReadServes ==
    ASSUME NEW h, NEW k, NEW o, o \in Owners => Serves(h, k, o), NEW d, NEW n
    PROVE  Read(k, o, d, n) = Read(h, o, d, n)
<1>1. CASE o \in Owners
    BY <1>1 DEF Read, Serves
<1>2. CASE o \notin Owners
    BY <1>2 DEF Read
<1>3. QED
    BY <1>1, <1>2

LEMMA ServesReadable ==
    ASSUME NEW h, NEW k, NEW q, Serves(h, k, q), Readable(h, q)
    PROVE  Readable(k, q)
BY DEF Serves, Readable

LEMMA ReadWindow ==
    ASSUME NEW h \in Heaps, NEW v \in View, InStatic(v.owner, v.data, v.length), InWindow(h, v),
           v.owner \in Owners => Readable(h, v.owner)
    PROVE  \A i \in 1..v.length : Read(h, v.owner, v.data, v.length)[i] # Junk
<1> SUFFICES ASSUME NEW i \in 1..v.length
             PROVE  Read(h, v.owner, v.data, v.length)[i] # Junk
    OBVIOUS
<1>1. v.data \in Nat /\ v.length \in Nat
    BY ViewFields
<1>2. CASE v.owner \in Statics
    <2>1. v.data + i \in 1..Len(StaticBytes[v.owner])
        <3>1. Len(StaticBytes[v.owner]) \in Nat
            BY <1>2, BytesAssumption
        <3>2. QED
            BY <1>1, <1>2, <3>1 DEF InStatic
    <2>2. StaticBytes[v.owner][v.data + i] \in Byte
        BY <1>2, <2>1, StaticCell
    <2>3. Read(h, v.owner, v.data, v.length)[i] = StaticBytes[v.owner][v.data + i]
        BY <1>2, OwnersAssumption DEF Read
    <2>4. QED
        BY <2>2, <2>3, BytesAssumption
<1>3. CASE v.owner \in Owners
    <2> DEFINE x == h[v.owner]
    <2>1. /\ x.start \in Nat /\ x.length \in Nat /\ x.capacity \in Nat
          /\ x.start <= v.data /\ v.data + v.length <= x.start + x.length
          /\ x.start + x.length <= x.capacity
          /\ \A j \in 1..x.length : x.bytes[x.start + j] # Junk
        BY <1>3, HeaderFacts DEF InWindow, Readable
    <2> HIDE DEF x
    <2> DEFINE j == v.data + i - x.start
    <2>2. j \in 1..x.length /\ x.start + j = v.data + i /\ v.data + i \in 1..x.capacity
        BY <1>1, <2>1
    <2>3. x.bytes[v.data + i] # Junk
        <3> HIDE DEF j
        <3>1. x.bytes[x.start + j] # Junk
            BY <2>1, <2>2
        <3>2. QED
            BY <2>2, <3>1
    <2>4. v.owner \notin Statics
        BY <1>3, OwnersAssumption
    <2>5. Read(h, v.owner, v.data, v.length)[i] = x.bytes[v.data + i]
        BY <1>3, <2>2, <2>4 DEF Read, x
    <2>6. QED
        BY <2>3, <2>5
<1>4. CASE v.owner = None
    BY <1>1, <1>4 DEF InWindow
<1>5. QED
    BY <1>2, <1>3, <1>4 DEF View

LEMMA RetainQuiet ==
    ASSUME NEW h \in Heaps, NEW o
    PROVE  /\ Quiet(h, Retain(h, o))
           /\ \A q \in Owners : q # o => Retain(h, o)[q] = h[q]
<1>1. CASE o \notin Owners
    BY <1>1, HeaderFacts DEF Retain, Quiet, Serves
<1>2. CASE o \in Owners
    <2>1. Retain(h, o) = [h EXCEPT ![o].references = h[o].references + 1]
        BY <1>2 DEF Retain
    <2>2. h \in [Owners -> FlatHeader]
        BY DEF Heaps
    <2>3. QED
        BY <1>2, <2>1, <2>2 DEF Quiet, Serves, FlatHeader
<1>3. QED
    BY <1>1, <1>2

LEMMA ReleaseQuiet ==
    ASSUME NEW h \in Heaps, NEW o
    PROVE  /\ Quiet(h, Release(h, o))
           /\ \A q \in Owners : q # o => Release(h, o)[q] = h[q]
<1>1. h \in [Owners -> FlatHeader] /\ Freed.references = 0
    BY DEF Heaps, Freed
<1>2. CASE o \notin Owners
    BY <1>2, HeaderFacts DEF Release, Quiet, Serves
<1>3. CASE o \in Owners /\ h[o].references = 1
    <2>1. Release(h, o) = [h EXCEPT ![o] = Freed]
        BY <1>3 DEF Release
    <2>2. QED
        BY <1>1, <1>3, <2>1 DEF Quiet, Serves
<1>4. CASE o \in Owners /\ h[o].references # 1
    <2>1. Release(h, o) = [h EXCEPT ![o].references = h[o].references - 1]
        BY <1>4 DEF Release
    <2>2. QED
        BY <1>1, <1>4, <2>1 DEF Quiet, Serves, FlatHeader
<1>5. QED
    BY <1>2, <1>3, <1>4

\* A new owner for content: it is readable and reads as the content.
LEMMA FlatOwnerReads ==
    ASSUME NEW k, NEW p \in Owners, NEW content \in Seq(Cell), NEW capacity \in Nat,
           NEW start \in Nat, start + Len(content) <= capacity,
           \A i \in 1..Len(content) : content[i] # Junk,
           k[p] = FlatOwner(content, capacity, start)
    PROVE  /\ Readable(k, p)
           /\ k[p].references = 1 /\ k[p].start = start /\ k[p].length = Len(content)
           /\ Read(k, p, start, Len(content)) = content
<1> DEFINE n == Len(content)
<1>1. /\ k[p].references = 1 /\ k[p].start = start /\ k[p].length = n
      /\ k[p].capacity = capacity /\ k[p].bytes = Write(<<>>, capacity, start, content)
    BY DEF FlatOwner
<1>2. n \in Nat /\ DOMAIN content = 1..n
    OBVIOUS
<1> HIDE DEF n
<1>3. ASSUME NEW i \in 1..n
      PROVE  start + i \in 1..capacity /\ k[p].bytes[start + i] = content[i]
    <2>1. start + i \in 1..capacity /\ start + i \in (start + 1)..(start + n) /\ start + i - start = i
        BY <1>2 DEF n
    <2>2. QED
        BY <1>1, <2>1 DEF Write, n
<1>4. Readable(k, p)
    BY <1>1, <1>3 DEF Readable, n
<1>5. p \notin Statics
    BY OwnersAssumption
<1>6. \A i \in 1..n : Read(k, p, start, n)[i] = content[i]
    BY <1>1, <1>3, <1>5 DEF Read
<1>7. Read(k, p, start, n) = [i \in 1..n |-> content[i]]
    BY <1>6 DEF Read
<1>8. content = [i \in 1..n |-> content[i]]
    BY <1>2
<1>9. QED
    BY <1>1, <1>4, <1>7, <1>8 DEF n

\* realloc keeps the bytes up to the new capacity, and every other owner serves on.
LEMMA ReallocReads ==
    ASSUME NEW h \in Heaps, NEW o \in Owners, h[o].references = 1,
           NEW p \in {o} \cup Fresh(h), NEW capacity \in Nat
    PROVE  LET k == Realloc(h, o, p, capacity)
           IN  /\ k[p].start = h[o].start /\ k[p].length = h[o].length
               /\ k[p].capacity = capacity /\ k[p].references = 1
               /\ DOMAIN k[p].bytes = 1..capacity
               /\ \A i \in 1..capacity : i \in 1..h[o].capacity => k[p].bytes[i] = h[o].bytes[i]
               /\ \A q \in Owners \ {o, p} : k[q] = h[q]
               /\ p # o => k[o].references = 0
<1> DEFINE bytes == Write(h[o].bytes, capacity, 0, <<>>)
           x == [h[o] EXCEPT !.capacity = capacity, !.bytes = bytes]
           k == [h EXCEPT ![o] = Freed, ![p] = x]
<1>1. h \in [Owners -> FlatHeader] /\ h[o] \in FlatHeader /\ p \in Owners
      /\ DOMAIN h[o].bytes = 1..h[o].capacity
    BY HeaderFacts DEF Heaps, Fresh
<1>2. Realloc(h, o, p, capacity) = k
    BY DEF Realloc
<1>3. k[p] = x /\ (p # o => k[o] = Freed) /\ \A q \in Owners \ {o, p} : k[q] = h[q]
    BY <1>1
<1>4. /\ x.start = h[o].start /\ x.length = h[o].length /\ x.capacity = capacity
      /\ x.references = 1 /\ x.bytes = bytes
    BY <1>1 DEF FlatHeader
<1>5. DOMAIN bytes = 1..capacity
    BY DEF Write
<1>6. ASSUME NEW i \in 1..capacity, i \in 1..h[o].capacity
      PROVE  bytes[i] = h[o].bytes[i]
    <2>1. i \notin (0 + 1)..(0 + Len(<<>>))
        OBVIOUS
    <2>2. QED
        BY <1>1, <1>6, <2>1 DEF Write
<1> HIDE DEF k, x, bytes
<1>7. Freed.references = 0
    BY DEF Freed
<1>8. QED
    BY <1>2, <1>3, <1>4, <1>5, <1>6, <1>7

\* The active part of p, from start, is left and then right.
Halves(k, p, start, m, n, left, right) ==
    /\ p \in Owners /\ start \in Nat /\ m \in Nat /\ n \in Nat
    /\ left \in Seq(Cell) /\ Len(left) = m
    /\ right \in Seq(Cell) /\ Len(right) = n
    /\ k[p].start = start /\ k[p].length = m + n
    /\ start + m + n <= k[p].capacity /\ k[p].capacity \in Nat
    /\ \A i \in 1..m : left[i] # Junk /\ k[p].bytes[start + i] = left[i]
    /\ \A i \in 1..n : right[i] # Junk /\ k[p].bytes[start + m + i] = right[i]

LEMMA Joined ==
    ASSUME NEW k, NEW p, NEW start, NEW m, NEW n, NEW left, NEW right,
           Halves(k, p, start, m, n, left, right)
    PROVE  /\ Readable(k, p)
           /\ Read(k, p, start, m + n) = left \o right
<1>0. /\ p \in Owners /\ start \in Nat /\ m \in Nat /\ n \in Nat
      /\ left \in Seq(Cell) /\ Len(left) = m /\ right \in Seq(Cell) /\ Len(right) = n
      /\ k[p].start = start /\ k[p].length = m + n
      /\ start + m + n <= k[p].capacity /\ k[p].capacity \in Nat
      /\ \A i \in 1..m : left[i] # Junk /\ k[p].bytes[start + i] = left[i]
      /\ \A i \in 1..n : right[i] # Junk /\ k[p].bytes[start + m + i] = right[i]
    BY DEF Halves
<1>1. ASSUME NEW i \in 1..m + n
      PROVE  /\ k[p].bytes[start + i] # Junk
             /\ k[p].bytes[start + i] = (left \o right)[i]
             /\ start + i \in 1..k[p].capacity
    <2>1. CASE i \in 1..m
        BY <1>0, <2>1
    <2>2. CASE i \notin 1..m
        <3> DEFINE j == i - m
        <3>1. j \in 1..n /\ start + m + j = start + i
            BY <1>0, <2>2
        <3>2. (left \o right)[i] = right[j]
            BY <1>0, <2>2, <3>1
        <3> HIDE DEF j
        <3>3. right[j] # Junk /\ k[p].bytes[start + m + j] = right[j]
            BY <1>0, <3>1
        <3>4. start + i \in 1..k[p].capacity
            BY <1>0
        <3>5. QED
            BY <3>1, <3>2, <3>3, <3>4
    <2>3. QED
        BY <2>1, <2>2
<1> DEFINE both == left \o right
           size == m + n
<1>2. Readable(k, p)
    <2>1. start + size <= k[p].capacity
        BY <1>0
    <2>2. \A i \in 1..size : k[p].bytes[start + i] # Junk
        BY <1>1
    <2> HIDE DEF size
    <2>3. k[p].length = size /\ k[p].start = start
        BY <1>0 DEF size
    <2>4. QED
        BY <2>1, <2>2, <2>3 DEF Readable
<1>3. p \notin Statics
    BY <1>0, OwnersAssumption
<1>4. both \in Seq(Cell) /\ Len(both) = size /\ size \in Nat
    <2>1. both \in Seq(Cell) /\ Len(both) = Len(left) + Len(right)
        BY <1>0, ConcatSeq, Zenon
    <2>2. QED
        BY <1>0, <2>1
<1>5. \A i \in 1..size : Read(k, p, start, size)[i] = both[i]
    BY <1>0, <1>1, <1>3 DEF Read
<1> HIDE DEF both, size
<1>6. Read(k, p, start, size) = [i \in 1..size |-> both[i]]
    BY <1>5 DEF Read
<1>7. both = [i \in 1..size |-> both[i]]
    BY <1>4
<1>8. QED
    BY <1>2, <1>6, <1>7 DEF both, size

-----------------------------------------------------------------------------
(* What an extension does: its result is on p, which reads as the content;   *)
(* no other owner that stays is touched, and no other one is new.            *)

Extended(h, k, v, p, n, content) ==
    /\ p \in Owners /\ Readable(k, p) /\ k[p].references >= 1
    /\ k[p].length = n /\ Read(k, p, k[p].start, n) = content
    /\ \A q \in Owners : h[q].references >= 1 /\ k[q].references >= 1 /\ q # p => Serves(h, k, q)
    /\ \A q \in Owners : k[q].references >= 1 /\ h[q].references = 0 => q = p
    /\ IF p = v.owner THEN Extensible(h, v) ELSE h[p].references = 0

\* What holds of the operands of an extension, besides Extends.
Operands(h, v, w) ==
    /\ Extends(h, v, w)
    /\ InWindow(h, v) /\ (v.owner \in Owners => Readable(h, v.owner))
    /\ InWindow(h, w) /\ (w.owner \in Owners => Readable(h, w.owner))

Bytes(h, v) == Read(h, v.owner, v.data, v.length)

LEMMA OperandFacts ==
    ASSUME NEW h, NEW v, NEW w, Operands(h, v, w)
    PROVE  /\ h \in Heaps /\ v.length \in Nat /\ w.length \in Nat
           /\ v.length + w.length \in 0..SizeMax
           /\ Bytes(h, v) \in Seq(Cell) /\ Len(Bytes(h, v)) = v.length
           /\ Bytes(h, w) \in Seq(Cell) /\ Len(Bytes(h, w)) = w.length
           /\ \A i \in 1..v.length : Bytes(h, v)[i] # Junk
           /\ \A i \in 1..w.length : Bytes(h, w)[i] # Junk
<1>1. /\ h \in Heaps /\ v \in View /\ w \in View /\ v.length + w.length <= MaxLength
      /\ InStatic(v.owner, v.data, v.length) /\ InStatic(w.owner, w.data, w.length)
    BY DEF Operands, Extends
<1>2. v.length \in Nat /\ w.length \in Nat /\ v.length + w.length \in 0..SizeMax
    BY <1>1, ViewFields, Sizes
<1>3. /\ Bytes(h, v) \in Seq(Cell) /\ Len(Bytes(h, v)) = v.length
      /\ Bytes(h, w) \in Seq(Cell) /\ Len(Bytes(h, w)) = w.length
    BY <1>1, OperandBytes DEF Bytes
<1>4. /\ \A i \in 1..v.length : Bytes(h, v)[i] # Junk
      /\ \A i \in 1..w.length : Bytes(h, w)[i] # Junk
    BY <1>1, ReadWindow DEF Operands, Bytes
<1>5. QED
    BY <1>1, <1>2, <1>3, <1>4

LEMMA JoinedBytes ==
    ASSUME NEW s \in Seq(Cell), NEW t \in Seq(Cell),
           \A i \in 1..Len(s) : s[i] # Junk, \A i \in 1..Len(t) : t[i] # Junk
    PROVE  \A i \in 1..Len(s \o t) : (s \o t)[i] # Junk
<1> SUFFICES ASSUME NEW i \in 1..Len(s \o t) PROVE (s \o t)[i] # Junk
    OBVIOUS
<1>1. Len(s \o t) = Len(s) + Len(t)
    OBVIOUS
<1>2. CASE i <= Len(s)
    BY <1>2
<1>3. CASE i > Len(s)
    <2> DEFINE j == i - Len(s)
    <2>1. j \in 1..Len(t) /\ (s \o t)[i] = t[j]
        BY <1>1, <1>3
    <2> HIDE DEF j
    <2>2. QED
        BY <2>1
<1>4. QED
    BY <1>2, <1>3

LEMMA OperandsJoined ==
    ASSUME NEW h, NEW v, NEW w, Operands(h, v, w), NEW s, NEW t,
           \/ s = Bytes(h, v) /\ t = Bytes(h, w)
           \/ s = Bytes(h, w) /\ t = Bytes(h, v)
    PROVE  /\ s \o t \in Seq(Cell) /\ Len(s \o t) = v.length + w.length
           /\ \A i \in 1..Len(s \o t) : (s \o t)[i] # Junk
<1>1. /\ s \in Seq(Cell) /\ t \in Seq(Cell)
      /\ Len(s) + Len(t) = v.length + w.length
      /\ \A i \in 1..Len(s) : s[i] # Junk
      /\ \A i \in 1..Len(t) : t[i] # Junk
    <2>1. CASE s = Bytes(h, v) /\ t = Bytes(h, w)
        BY <2>1, OperandFacts
    <2>2. CASE s = Bytes(h, w) /\ t = Bytes(h, v)
        BY <2>2, OperandFacts
    <2>3. QED
        BY <2>1, <2>2
<1>2. s \o t \in Seq(Cell) /\ Len(s \o t) = Len(s) + Len(t)
    BY <1>1, ConcatSeq, Zenon
<1>3. \A i \in 1..Len(s \o t) : (s \o t)[i] # Junk
    BY <1>1, JoinedBytes, Zenon
<1>4. QED
    BY <1>1, <1>2, <1>3, Zenon

\* A copy on a fresh owner, and the consumed reference gone from its own.
LEMMA CopyReads ==
    ASSUME NEW h \in Heaps, NEW v, v.owner \in Owners => h[v.owner].references >= 1,
           NEW p \in Fresh(h), NEW content \in Seq(Cell), NEW capacity \in Nat, NEW start \in Nat,
           start + Len(content) <= capacity, \A i \in 1..Len(content) : content[i] # Junk
    PROVE  LET k == Release([h EXCEPT ![p] = FlatOwner(content, capacity, start)], v.owner)
           IN  /\ Extended(h, k, v, p, Len(content), content)
               /\ k[p].start = start /\ k[p].references = 1
<1> DEFINE x == FlatOwner(content, capacity, start)
           g == [h EXCEPT ![p] = x]
           k == Release(g, v.owner)
<1>1. p \in Owners /\ h[p].references = 0 /\ p # v.owner
    BY DEF Fresh
<1>2. g \in Heaps /\ h \in [Owners -> FlatHeader]
    BY <1>1, FlatOwnerType, HeapUpdate DEF Heaps
<1>3. g[p] = x /\ \A q \in Owners : q # p => g[q] = h[q]
    BY <1>1, <1>2
<1> HIDE DEF g, x
<1>4. Quiet(g, k) /\ \A q \in Owners : q # v.owner => k[q] = g[q]
    BY <1>2, ReleaseQuiet
<1>5. k[p] = FlatOwner(content, capacity, start)
    BY <1>1, <1>3, <1>4 DEF x
<1>6. /\ Readable(k, p) /\ k[p].references = 1 /\ k[p].start = start
      /\ k[p].length = Len(content) /\ Read(k, p, start, Len(content)) = content
    <2> HIDE DEF k
    <2>1. QED
        BY <1>1, <1>5, FlatOwnerReads
<1>7. \A q \in Owners : q # p /\ h[q].references >= 1 /\ k[q].references >= 1 => Serves(h, k, q)
    BY <1>3, <1>4 DEF Quiet, Serves
<1>8. \A q \in Owners : k[q].references >= 1 /\ h[q].references = 0 => q = p
    BY <1>1, <1>3, <1>4
<1> HIDE DEF k
<1>9. Extended(h, k, v, p, Len(content), content)
    BY <1>1, <1>6, <1>7, <1>8 DEF Extended
<1>10. QED
    BY <1>6, <1>9 DEF k, g, x

LEMMA AppendCopyReads ==
    ASSUME NEW h, NEW v, NEW w, Operands(h, v, w), NEW p \in Fresh(h)
    PROVE  Extended(h, AppendCopy(h, v, w, p), v, p, v.length + w.length, Bytes(h, v) \o Bytes(h, w))
<1> DEFINE content == Bytes(h, v) \o Bytes(h, w)
<1>1. /\ content \in Seq(Cell) /\ Len(content) = v.length + w.length
      /\ \A i \in 1..Len(content) : content[i] # Junk
    BY OperandsJoined, Zenon
<1>2. Capacity(Len(content)) \in Nat /\ 0 + Len(content) <= Capacity(Len(content)) /\ 0 \in Nat
    BY <1>1, OperandFacts, Sizes
<1>3. h \in Heaps /\ (v.owner \in Owners => h[v.owner].references >= 1)
    BY DEF Operands, Extends
<1>4. AppendCopy(h, v, w, p)
        = Release([h EXCEPT ![p] = FlatOwner(content, Capacity(Len(content)), 0)], v.owner)
    BY DEF AppendCopy, Bytes
<1> HIDE DEF content
<1>5. Extended(h, AppendCopy(h, v, w, p), v, p, Len(content), content)
    BY <1>1, <1>2, <1>3, <1>4, CopyReads
<1>6. QED
    BY <1>1, <1>5 DEF content

LEMMA PrependCopyReads ==
    ASSUME NEW h, NEW v, NEW w, Operands(h, v, w), NEW p \in Fresh(h)
    PROVE  Extended(h, PrependCopy(h, v, w, p), v, p, v.length + w.length, Bytes(h, w) \o Bytes(h, v))
<1> DEFINE content == Bytes(h, w) \o Bytes(h, v)
           capacity == Capacity(Len(content))
           start == capacity - Len(content)
<1>1. /\ content \in Seq(Cell) /\ Len(content) = v.length + w.length
      /\ \A i \in 1..Len(content) : content[i] # Junk
    BY OperandsJoined, Zenon
<1>2. capacity \in Nat /\ start + Len(content) <= capacity /\ start \in Nat
    BY <1>1, OperandFacts, Sizes
<1>3. h \in Heaps /\ (v.owner \in Owners => h[v.owner].references >= 1)
    BY DEF Operands, Extends
<1>4. PrependCopy(h, v, w, p)
        = Release([h EXCEPT ![p] = FlatOwner(content, capacity, start)], v.owner)
    BY DEF PrependCopy, Bytes
<1> HIDE DEF content, capacity, start
<1>5. Extended(h, PrependCopy(h, v, w, p), v, p, Len(content), content)
    BY <1>1, <1>2, <1>3, <1>4, CopyReads
<1>6. QED
    BY <1>1, <1>5 DEF content

\* What an owner o has become at p when only its storage has been made larger or smaller.
Resized(h, g, o, p, capacity) ==
    /\ p \in Owners /\ g \in Heaps
    /\ g[p].start = h[o].start /\ g[p].references = 1 /\ g[p].capacity = capacity
    /\ \A i \in 1..capacity : i \in 1..h[o].capacity => g[p].bytes[i] = h[o].bytes[i]
    /\ \A q \in Owners \ {o, p} : g[q] = h[q]
    /\ p # o => g[o].references = 0 /\ h[p].references = 0

LEMMA Reallocated ==
    ASSUME NEW h \in Heaps, NEW o \in Owners, h[o].references = 1,
           NEW p \in {o} \cup Fresh(h), NEW capacity \in Nat
    PROVE  Resized(h, Realloc(h, o, p, capacity), o, p, capacity)
<1>1. Realloc(h, o, p, capacity) \in Heaps
    BY ReallocHeap
<1>2. p \in Owners /\ (p # o => h[p].references = 0)
    BY DEF Fresh
<1> DEFINE g == Realloc(h, o, p, capacity)
<1>3. /\ g[p].start = h[o].start /\ g[p].capacity = capacity /\ g[p].references = 1
      /\ \A i \in 1..capacity : i \in 1..h[o].capacity => g[p].bytes[i] = h[o].bytes[i]
      /\ \A q \in Owners \ {o, p} : g[q] = h[q]
      /\ p # o => g[o].references = 0
    BY ReallocReads
<1> HIDE DEF g
<1>4. QED
    BY <1>1, <1>2, <1>3 DEF Resized, g

LEMMA NotResized ==
    ASSUME NEW h \in Heaps, NEW o \in Owners, h[o].references = 1
    PROVE  Resized(h, h, o, o, h[o].capacity)
BY DEF Resized

\* The other operand is read the same while the consumed one's storage is resized.
LEMMA OtherServes ==
    ASSUME NEW h, NEW g, NEW v, NEW w, NEW p, NEW capacity, Operands(h, v, w), w.owner # v.owner,
           Resized(h, g, v.owner, p, capacity), p # v.owner => h[p].references = 0
    PROVE  Bytes(g, w) = Bytes(h, w)
<1>1. ASSUME w.owner \in Owners
      PROVE  Serves(h, g, w.owner)
    <2>1. h[w.owner].references >= 1
        BY <1>1 DEF Operands, InWindow
    <2>2. w.owner # p
        BY <2>1
    <2>3. g[w.owner] = h[w.owner]
        BY <1>1, <2>2 DEF Resized
    <2>4. QED
        BY <2>1, <2>3 DEF Serves
<1>2. QED
    BY <1>1, ReadServes DEF Bytes

\* The consumed operand's bytes are the active part of its owner.
LEMMA ExtensibleBytes ==
    ASSUME NEW h, NEW v, NEW w, Operands(h, v, w), Extensible(h, v)
    PROVE  /\ v.owner \in Owners /\ h[v.owner].references = 1
           /\ v.data = h[v.owner].start
           /\ h[v.owner].start \in Nat /\ h[v.owner].capacity \in Nat
           /\ h[v.owner].start + v.length <= h[v.owner].capacity
           /\ \A i \in 1..v.length : Bytes(h, v)[i] = h[v.owner].bytes[h[v.owner].start + i]
<1>1. /\ v.owner \in Owners /\ h[v.owner].references = 1 /\ v.data = h[v.owner].start
      /\ h[v.owner].length = v.length /\ h \in Heaps /\ v.length \in Nat
    BY OperandFacts DEF Extensible
<1>2. h[v.owner].start \in Nat /\ h[v.owner].capacity \in Nat
    BY <1>1, HeaderFacts
<1>3. h[v.owner].start + v.length <= h[v.owner].capacity
    BY <1>1 DEF Operands, Readable
<1>4. v.owner \notin Statics
    BY <1>1, OwnersAssumption
<1>5. ASSUME NEW i \in 1..v.length
      PROVE  Bytes(h, v)[i] = h[v.owner].bytes[h[v.owner].start + i]
    <2>1. v.data + i \in 1..h[v.owner].capacity
        BY <1>1, <1>2, <1>3
    <2>2. QED
        BY <1>1, <1>4, <2>1 DEF Bytes, Read
<1>6. QED
    BY <1>1, <1>2, <1>3, <1>5

\* The owner p rewritten from g, which is h with the owner of v resized.
LEMMA RewrittenExtends ==
    ASSUME NEW h, NEW g, NEW k, NEW v, NEW w, NEW p, NEW capacity,
           Operands(h, v, w), Extensible(h, v), Resized(h, g, v.owner, p, capacity),
           NEW n, NEW content, Readable(k, p), k[p].references = 1, k[p].length = n,
           Read(k, p, k[p].start, n) = content,
           \A q \in Owners : q # p => k[q] = g[q]
    PROVE  Extended(h, k, v, p, n, content)
<1>1. p \in Owners /\ h \in Heaps /\ v.owner \in Owners
    BY OperandFacts, ExtensibleBytes DEF Resized
<1>2. ASSUME NEW q \in Owners, h[q].references >= 1, k[q].references >= 1, q # p
      PROVE  Serves(h, k, q)
    BY <1>2 DEF Resized, Serves
<1>3. ASSUME NEW q \in Owners, k[q].references >= 1, h[q].references = 0
      PROVE  q = p
    BY <1>3 DEF Resized
<1>4. IF p = v.owner THEN Extensible(h, v) ELSE h[p].references = 0
    BY DEF Resized
<1>5. QED
    BY <1>1, <1>2, <1>3, <1>4 DEF Extended

\* What a write leaves at an address inside it, and at one outside it.
LEMMA WriteAt ==
    ASSUME NEW bytes, NEW capacity, NEW d, NEW new, NEW j \in 1..capacity
    PROVE  /\ j \in (d + 1)..(d + Len(new)) => Write(bytes, capacity, d, new)[j] = new[j - d]
           /\ j \notin (d + 1)..(d + Len(new)) /\ j \in DOMAIN bytes
                => Write(bytes, capacity, d, new)[j] = bytes[j]
BY DEF Write

\* The places of m bytes and of the n after them, from start.
LEMMA Between ==
    ASSUME NEW start \in Nat, NEW m \in Nat, NEW n \in Nat, NEW capacity \in Nat, NEW old \in Nat,
           start + m <= old, start + (m + n) <= capacity
    PROVE  /\ \A i \in 1..m : /\ start + i \in 1..capacity /\ start + i \in 1..old
                               /\ start + i \notin (start + m + 1)..(start + m + n)
           /\ \A i \in 1..n : /\ start + m + i \in 1..capacity
                               /\ start + m + i \in (start + m + 1)..(start + m + n)
                               /\ start + m + i - (start + m) = i
OBVIOUS

LEMMA AppendInPlaceReads ==
    ASSUME NEW h, NEW v, NEW w, Operands(h, v, w), Extensible(h, v), w.owner # v.owner,
           NEW p \in AppendPlaces(h, v, w)
    PROVE  Extended(h, AppendInPlace(h, v, w, p), v, p, v.length + w.length,
                    Bytes(h, v) \o Bytes(h, w))
<1> DEFINE o == v.owner
           m == v.length
           n == w.length
           size == m + n
           start == h[o].start
           required == start + size
           grown == IF required > h[o].capacity
                    THEN Realloc(h, o, p, Capacity(required)) ELSE h
           capacity == IF required > h[o].capacity THEN Capacity(required) ELSE h[o].capacity
           new == Read(grown, w.owner, w.data, w.length)
           k == AppendInPlace(h, v, w, p)
<1>1. /\ h \in Heaps /\ m \in Nat /\ n \in Nat /\ size \in Nat
      /\ o \in Owners /\ h[o].references = 1 /\ v.data = start
      /\ start \in Nat /\ h[o].capacity \in Nat /\ start + m <= h[o].capacity
      /\ \A i \in 1..m : Bytes(h, v)[i] = h[o].bytes[start + i]
    BY OperandFacts, ExtensibleBytes
<1>2. /\ required > h[o].capacity => required \in 0..SizeMax /\ p \in {o} \cup Fresh(h)
      /\ ~(required > h[o].capacity) => p = o
    <2>1. required = h[o].start + v.length + w.length
        BY <1>1
    <2>2. required \in Nat
        BY <1>1
    <2> HIDE DEF required
    <2>3. QED
        BY <1>1, <2>1, <2>2, Sizes DEF AppendPlaces
<1>3. Resized(h, grown, o, p, capacity) /\ capacity \in Nat /\ required <= capacity
    <2>1. CASE required > h[o].capacity
        <3>1. Capacity(required) \in Nat /\ Capacity(required) >= required
            BY <1>2, <2>1, Sizes
        <3>2. Resized(h, Realloc(h, o, p, Capacity(required)), o, p, Capacity(required))
            BY <1>1, <1>2, <2>1, <3>1, Reallocated
        <3>3. QED
            BY <2>1, <3>1, <3>2
    <2>2. CASE ~(required > h[o].capacity)
        <3>1. required \in Nat
            BY <1>1
        <3>2. Resized(h, h, o, p, h[o].capacity)
            BY <1>1, <1>2, <2>2, NotResized
        <3>3. QED
            BY <1>1, <2>2, <3>1, <3>2
    <2>3. QED
        BY <2>1, <2>2
<1> HIDE DEF grown, capacity
<1>4. new = Bytes(h, w)
    <2>1. Bytes(grown, w) = Bytes(h, w)
        BY <1>3, OtherServes DEF Resized
    <2>2. QED
        BY <2>1 DEF Bytes
<1>5. /\ p \in Owners /\ grown \in [Owners -> FlatHeader] /\ grown[p] \in FlatHeader
      /\ grown[p].start = start /\ grown[p].capacity = capacity /\ grown[p].references = 1
      /\ \A i \in 1..capacity : i \in 1..h[o].capacity => grown[p].bytes[i] = h[o].bytes[i]
      /\ DOMAIN grown[p].bytes = 1..capacity
    BY <1>3, HeaderFacts DEF Resized, Heaps
<1> HIDE DEF new
<1>6. k = [grown EXCEPT ![p].length = size,
                        ![p].bytes = Write(grown[p].bytes, capacity, start + m, new)]
    BY <1>5 DEF AppendInPlace, grown, new
<1>7. /\ k[p].start = start /\ k[p].capacity = capacity /\ k[p].references = 1
      /\ k[p].length = size /\ k[p].bytes = Write(grown[p].bytes, capacity, start + m, new)
      /\ \A q \in Owners : q # p => k[q] = grown[q]
    BY <1>5, <1>6 DEF FlatHeader
<1>8. Len(new) = n /\ DOMAIN new = 1..n /\ new \in Seq(Cell)
    BY <1>4, OperandFacts
<1>0. /\ start \in Nat /\ m \in Nat /\ n \in Nat /\ capacity \in Nat /\ h[o].capacity \in Nat
      /\ start + m <= h[o].capacity /\ start + (m + n) <= capacity
    BY <1>1, <1>3
<1> HIDE DEF k, size, start, required, m, n
<1>9. ASSUME NEW i \in 1..m
      PROVE  k[p].bytes[start + i] = Bytes(h, v)[i]
    <2>1. /\ start + i \in 1..capacity /\ start + i \in 1..h[o].capacity
          /\ start + i \notin (start + m + 1)..(start + m + n)
        BY <1>0, Between
    <2>2. k[p].bytes[start + i] = grown[p].bytes[start + i]
        <3>1. start + m \in Nat
            BY <1>0
        <3>2. start + i \in DOMAIN grown[p].bytes
            BY <1>5, <2>1
        <3>3. Write(grown[p].bytes, capacity, start + m, new)[start + i] = grown[p].bytes[start + i]
            BY <1>8, <2>1, <3>2, WriteAt
        <3>4. QED
            BY <1>7, <3>3
    <2>3. QED
        BY <1>1, <1>5, <2>1, <2>2
<1>10. ASSUME NEW i \in 1..n
       PROVE  k[p].bytes[start + m + i] = Bytes(h, w)[i]
    <2>1. /\ start + m + i \in 1..capacity
          /\ start + m + i \in (start + m + 1)..(start + m + n)
          /\ start + m + i - (start + m) = i
        BY <1>0, Between
    <2>2. k[p].bytes[start + m + i] = new[i]
        <3> DEFINE e == start + m
                   j == e + i
        <3>1. j \in 1..capacity /\ j \in (e + 1)..(e + Len(new)) /\ j - e = i
            <4>1. Len(new) = n
                BY <1>8
            <4>2. j \in 1..capacity /\ j \in (e + 1)..(e + n) /\ j - e = i
                BY <1>0, <2>1
            <4>3. QED
                BY <4>1, <4>2
        <3>2. k[p].bytes = Write(grown[p].bytes, capacity, e, new)
            BY <1>7
        <3> HIDE DEF e, j
        <3>3. Write(grown[p].bytes, capacity, e, new)[j] = new[j - e]
            BY <3>1, WriteAt
        <3>4. k[p].bytes[j] = new[i]
            BY <3>1, <3>2, <3>3
        <3>5. QED
            BY <3>4 DEF e, j
    <2>3. QED
        BY <1>4, <2>2
<1>11. /\ Readable(k, p)
       /\ Read(k, p, start, size) = Bytes(h, v) \o Bytes(h, w)
    <2>1. start + m + n <= k[p].capacity /\ k[p].capacity \in Nat /\ k[p].length = m + n
        <3>1. k[p].capacity = capacity /\ k[p].length = m + n
            BY <1>7 DEF size
        <3>2. start + m + n = start + (m + n)
            BY <1>0
        <3>3. QED
            BY <1>0, <3>1, <3>2
    <2>2. /\ Bytes(h, v) \in Seq(Cell) /\ Len(Bytes(h, v)) = m
          /\ Bytes(h, w) \in Seq(Cell) /\ Len(Bytes(h, w)) = n
          /\ \A i \in 1..m : Bytes(h, v)[i] # Junk
          /\ \A i \in 1..n : Bytes(h, w)[i] # Junk
        BY OperandFacts DEF m, n
    <2>3. /\ \A i \in 1..m : Bytes(h, v)[i] # Junk /\ k[p].bytes[start + i] = Bytes(h, v)[i]
          /\ \A i \in 1..n : Bytes(h, w)[i] # Junk /\ k[p].bytes[start + m + i] = Bytes(h, w)[i]
        BY <1>9, <1>10, <2>2
    <2>4. /\ p \in Owners /\ start \in Nat /\ m \in Nat /\ n \in Nat /\ k[p].start = start
        BY <1>0, <1>5, <1>7
    <2>5. Readable(k, p) /\ Read(k, p, start, m + n) = Bytes(h, v) \o Bytes(h, w)
        <3>1. Halves(k, p, start, m, n, Bytes(h, v), Bytes(h, w))
            BY <2>1, <2>2, <2>3, <2>4 DEF Halves
        <3>2. QED
            BY <3>1, Joined
    <2>6. QED
        BY <2>5 DEF size
<1>12. Extended(h, k, v, p, size, Bytes(h, v) \o Bytes(h, w))
    <2>1. Read(k, p, k[p].start, size) = Bytes(h, v) \o Bytes(h, w)
        BY <1>7, <1>11
    <2>2. k[p].references = 1 /\ k[p].length = size /\ \A q \in Owners : q # p => k[q] = grown[q]
        BY <1>7
    <2>3. Resized(h, grown, v.owner, p, capacity)
        BY <1>3
    <2>4. QED
        BY <1>11, <2>1, <2>2, <2>3, RewrittenExtends, ZenonT(60)
<1>13. QED
    BY <1>12 DEF k, size, m, n

\* What a prepend writes in front of: the bytes of v in the owner p, g apart from them, with
\* room for those of w from s on.
Headed(h, g, grown, v, w, p, s, capacity) ==
    /\ Resized(h, g, v.owner, p, capacity)
    /\ grown \in Heaps /\ s \in Nat /\ capacity \in Nat
    /\ \A q \in Owners : q # p => grown[q] = g[q]
    /\ grown[p].references = 1 /\ grown[p].capacity = capacity
    /\ grown[p].start = s + w.length
    /\ s + w.length + v.length <= capacity
    /\ \A i \in 1..v.length : grown[p].bytes[s + w.length + i] = Bytes(h, v)[i]

\* With headroom the storage is as it was.
LEMMA HeadroomLeft ==
    ASSUME NEW h, NEW v, NEW w, Operands(h, v, w), Extensible(h, v),
           w.length <= h[v.owner].start
    PROVE  Headed(h, h, h, v, w, v.owner, h[v.owner].start - w.length, h[v.owner].capacity)
<1> DEFINE o == v.owner
           start == h[o].start
           s == start - w.length
<1>1. /\ h \in Heaps /\ v.length \in Nat /\ w.length \in Nat
      /\ o \in Owners /\ h[o].references = 1 /\ start \in Nat /\ h[o].capacity \in Nat
      /\ start + v.length <= h[o].capacity
      /\ \A i \in 1..v.length : Bytes(h, v)[i] = h[o].bytes[start + i]
    BY OperandFacts, ExtensibleBytes
<1>2. s \in Nat /\ s + w.length = start
    BY <1>1
<1>3. Resized(h, h, o, o, h[o].capacity)
    BY <1>1, NotResized
<1>4. start = s + w.length /\ s + w.length + v.length <= h[o].capacity
    BY <1>1, <1>2
<1>5. \A i \in 1..v.length : h[o].bytes[s + w.length + i] = Bytes(h, v)[i]
    BY <1>1, <1>2
<1> HIDE DEF s
<1>6. Headed(h, h, h, v, w, o, s, h[o].capacity)
    BY <1>1, <1>2, <1>3, <1>4, <1>5 DEF Headed
<1>7. QED
    BY <1>6 DEF s

\* Without headroom the storage is reallocated, and the content moved to its end.
LEMMA HeadroomMade ==
    ASSUME NEW h, NEW v, NEW w, Operands(h, v, w), Extensible(h, v),
           NEW p \in {v.owner} \cup Fresh(h), w.length > h[v.owner].start
    PROVE  LET capacity == Capacity(v.length + w.length)
               moved == Realloc(h, v.owner, p, capacity)
               shifted == [moved EXCEPT
                             ![p].bytes = Write(@, capacity, capacity - v.length,
                                                Read(moved, p, h[v.owner].start, v.length)),
                             ![p].start = capacity - v.length]
           IN  Headed(h, moved, shifted, v, w, p, capacity - v.length - w.length, capacity)
<1> DEFINE o == v.owner
           m == v.length
           n == w.length
           start == h[o].start
           capacity == Capacity(m + n)
           moved == Realloc(h, o, p, capacity)
           e == capacity - m
           kept == Read(moved, p, start, m)
           shifted == [moved EXCEPT ![p].bytes = Write(@, capacity, e, kept), ![p].start = e]
           s == e - n
<1>1. /\ h \in Heaps /\ m \in Nat /\ n \in Nat /\ m + n \in 0..SizeMax
      /\ o \in Owners /\ h[o].references = 1 /\ start \in Nat /\ h[o].capacity \in Nat
      /\ start + m <= h[o].capacity /\ start < n
      /\ \A i \in 1..m : Bytes(h, v)[i] = h[o].bytes[start + i]
    BY OperandFacts, ExtensibleBytes
<1>2. capacity \in Nat /\ capacity >= m + n
    BY <1>1, Sizes
<1> HIDE DEF capacity
<1>3. Resized(h, moved, o, p, capacity)
    BY <1>1, <1>2, Reallocated
<1> HIDE DEF moved
<1>4. /\ p \in Owners /\ moved \in Heaps /\ moved \in [Owners -> FlatHeader]
      /\ moved[p] \in FlatHeader /\ moved[p].bytes \in Seq(Cell)
      /\ DOMAIN moved[p].bytes = 1..capacity
      /\ moved[p].references = 1 /\ moved[p].capacity = capacity
      /\ \A i \in 1..capacity : i \in 1..h[o].capacity => moved[p].bytes[i] = h[o].bytes[i]
    BY <1>3, HeaderFacts DEF Resized, Heaps
<1>5. kept \in Seq(Cell) /\ Len(kept) = m
    <2>1. InStatic(p, start, m)
        BY <1>4, OwnersAssumption DEF InStatic
    <2>2. QED
        BY <1>1, <1>4, <2>1, ReadType
<1>6. ASSUME NEW i \in 1..m
      PROVE  kept[i] = Bytes(h, v)[i]
    <2> DEFINE j == start + i
    <2>1. j \in 1..capacity /\ j \in 1..h[o].capacity
        BY <1>1, <1>2
    <2>2. p \notin Statics
        BY <1>4, OwnersAssumption
    <2>3. kept[i] = moved[p].bytes[j]
        BY <1>4, <2>1, <2>2 DEF Read
    <2>4. moved[p].bytes[j] = h[o].bytes[j]
        BY <1>4, <2>1
    <2>5. QED
        BY <1>1, <2>3, <2>4
<1>7. /\ e \in Nat /\ s \in Nat /\ s + n = e /\ e + m = capacity /\ s + n + m <= capacity
    BY <1>1, <1>2
<1> DEFINE bytes == Write(moved[p].bytes, capacity, e, kept)
<1> HIDE DEF kept, e
<1>8. bytes \in Seq(Cell) /\ Len(bytes) = capacity
    BY <1>2, <1>4, <1>5, <1>7, WriteType
<1>9. /\ shifted[p] = [moved[p] EXCEPT !.bytes = bytes, !.start = e]
      /\ \A q \in Owners : q # p => shifted[q] = moved[q]
      /\ shifted = [moved EXCEPT ![p] = [moved[p] EXCEPT !.bytes = bytes, !.start = e]]
    BY <1>4
<1>10. ASSUME NEW i \in 1..m
       PROVE  bytes[e + i] = Bytes(h, v)[i]
    <2> DEFINE j == e + i
    <2>1. j \in 1..capacity /\ j \in (e + 1)..(e + m) /\ j - e = i
        BY <1>1, <1>2, <1>7
    <2>2. j \in (e + 1)..(e + Len(kept))
        BY <1>5, <2>1
    <2> HIDE DEF j
    <2>3. bytes[j] = kept[j - e]
        BY <2>1, <2>2, WriteAt
    <2>4. QED
        BY <1>6, <2>1, <2>3 DEF j
<1> HIDE DEF bytes
<1>11. shifted \in Heaps /\ shifted[p].bytes = bytes /\ shifted[p].start = e
       /\ shifted[p].references = 1 /\ shifted[p].capacity = capacity
    <2> DEFINE x == [moved[p] EXCEPT !.bytes = bytes, !.start = e]
    <2>1. /\ x \in FlatHeader /\ x.bytes = bytes /\ x.start = e
          /\ x.references = 1 /\ x.capacity = capacity
        BY <1>4, <1>7, <1>8 DEF FlatHeader, Cell
    <2>2. Len(x.bytes) = x.capacity
        BY <1>8, <2>1
    <2>3. shifted = [moved EXCEPT ![p] = x] /\ shifted[p] = x
        BY <1>9
    <2> HIDE DEF x, shifted
    <2>4. shifted \in Heaps
        BY <1>4, <2>1, <2>2, <2>3, HeapUpdate
    <2>5. QED
        BY <2>1, <2>3, <2>4
<1> HIDE DEF shifted
<1>12. \A i \in 1..m : shifted[p].bytes[s + n + i] = Bytes(h, v)[i]
    BY <1>7, <1>10, <1>11
<1>13. shifted[p].start = s + n
    BY <1>7, <1>11
<1> HIDE DEF s
<1>14. Headed(h, moved, shifted, v, w, p, s, capacity)
    BY <1>2, <1>3, <1>7, <1>9, <1>11, <1>12, <1>13 DEF Headed
<1>15. QED
    BY <1>14 DEF s, e, kept, shifted, moved, capacity

LEMMA PrependInPlaceReads ==
    ASSUME NEW h, NEW v, NEW w, Operands(h, v, w), Extensible(h, v), w.owner # v.owner,
           NEW p \in PrependPlaces(h, v, w)
    PROVE  Extended(h, PrependInPlace(h, v, w, p), v, p, v.length + w.length,
                    Bytes(h, w) \o Bytes(h, v))
<1> DEFINE m == v.length
           n == w.length
           size == m + n
           cap == Capacity(size)
           moved == Realloc(h, v.owner, p, cap)
           shifted == [moved EXCEPT
                         ![p].bytes = Write(@, cap, cap - m, Read(moved, p, h[v.owner].start, m)),
                         ![p].start = cap - m]
           grown == IF n > h[v.owner].start THEN shifted ELSE h
           s == grown[p].start - n
           new == Read(grown, w.owner, w.data, w.length)
           k == PrependInPlace(h, v, w, p)
<1>1. /\ h \in Heaps /\ m \in Nat /\ n \in Nat /\ size \in Nat
      /\ v.owner \in Owners /\ h[v.owner].start \in Nat
    BY OperandFacts, ExtensibleBytes
<1>2. PICK g, capacity, first : Headed(h, g, grown, v, w, p, first, capacity)
    <2>1. CASE n > h[v.owner].start
        <3>1. p \in {v.owner} \cup Fresh(h)
            BY <2>1 DEF PrependPlaces
        <3>2. Headed(h, moved, shifted, v, w, p, cap - m - n, cap)
            BY <2>1, <3>1, HeadroomMade
        <3> HIDE DEF moved, shifted
        <3>3. QED
            BY <2>1, <3>2
    <2>2. CASE ~(n > h[v.owner].start)
        <3>1. p = v.owner
            BY <2>2 DEF PrependPlaces
        <3>2. n <= h[v.owner].start
            BY <1>1, <2>2
        <3>3. Headed(h, h, h, v, w, p, h[v.owner].start - n, h[v.owner].capacity)
            BY <3>1, <3>2, HeadroomLeft
        <3>4. QED
            BY <2>2, <3>3
    <2>3. QED
        BY <2>1, <2>2
<1> HIDE DEF grown
<1>3. /\ Resized(h, g, v.owner, p, capacity)
      /\ grown \in Heaps /\ first \in Nat /\ capacity \in Nat
      /\ \A q \in Owners : q # p => grown[q] = g[q]
      /\ grown[p].references = 1 /\ grown[p].capacity = capacity
      /\ grown[p].start = first + n /\ first + n + m <= capacity
      /\ \A i \in 1..m : grown[p].bytes[first + n + i] = Bytes(h, v)[i]
    BY <1>2 DEF Headed
<1>4. s = first
    BY <1>1, <1>3
<1>5. /\ p \in Owners /\ grown \in [Owners -> FlatHeader] /\ grown[p] \in FlatHeader
      /\ DOMAIN grown[p].bytes = 1..capacity
      /\ (p # v.owner => h[p].references = 0)
    BY <1>3, HeaderFacts DEF Resized, Heaps
<1>6. new = Bytes(h, w)
    <2>1. Bytes(g, w) = Bytes(h, w)
        <3>1. Resized(h, g, v.owner, p, capacity) /\ (p # v.owner => h[p].references = 0)
            BY <1>3, <1>5
        <3>2. QED
            BY <3>1, OtherServes
    <2>2. w.owner \in Owners => grown[w.owner] = g[w.owner]
        <3>1. w.owner \in Owners => h[w.owner].references >= 1
            BY DEF Operands, InWindow
        <3>2. QED
            BY <1>3, <1>5, <3>1
    <2>3. new = Bytes(g, w)
        BY <2>2 DEF Bytes, Read
    <2>4. QED
        BY <2>1, <2>3
<1>7. k = [grown EXCEPT ![p].length = size, ![p].start = s,
                        ![p].bytes = Write(@, grown[p].capacity, s, new)]
    BY DEF PrependInPlace, grown, s
<1> HIDE DEF new, s, k
<1>8. /\ k[p].start = first /\ k[p].capacity = capacity /\ k[p].references = 1
      /\ k[p].length = size /\ k[p].bytes = Write(grown[p].bytes, capacity, first, new)
      /\ \A q \in Owners : q # p => k[q] = grown[q]
    BY <1>3, <1>4, <1>5, <1>7 DEF FlatHeader
<1>9. Len(new) = n /\ new \in Seq(Cell) /\ \A i \in 1..n : new[i] # Junk
    BY <1>6, OperandFacts
<1>10. ASSUME NEW i \in 1..n
       PROVE  k[p].bytes[first + i] = new[i]
    <2> DEFINE j == first + i
    <2>1. j \in 1..capacity /\ j \in (first + 1)..(first + n) /\ j - first = i
        BY <1>1, <1>3
    <2>2. j \in (first + 1)..(first + Len(new))
        BY <1>9, <2>1
    <2> HIDE DEF j
    <2>3. Write(grown[p].bytes, capacity, first, new)[j] = new[j - first]
        BY <2>1, <2>2, WriteAt
    <2>4. QED
        BY <1>8, <2>1, <2>3 DEF j
<1>11. ASSUME NEW i \in 1..m
       PROVE  k[p].bytes[first + n + i] = Bytes(h, v)[i]
    <2> DEFINE j == first + n + i
    <2>1. j \in 1..capacity /\ j \notin (first + 1)..(first + n)
        BY <1>1, <1>3
    <2>2. j \notin (first + 1)..(first + Len(new)) /\ j \in DOMAIN grown[p].bytes
        BY <1>5, <1>9, <2>1
    <2>3. grown[p].bytes[j] = Bytes(h, v)[i]
        BY <1>3
    <2> HIDE DEF j
    <2>4. Write(grown[p].bytes, capacity, first, new)[j] = grown[p].bytes[j]
        BY <2>1, <2>2, WriteAt
    <2>5. QED
        BY <1>8, <2>3, <2>4 DEF j
<1>12. Halves(k, p, first, n, m, Bytes(h, w), Bytes(h, v))
    <2>1. /\ Bytes(h, v) \in Seq(Cell) /\ Len(Bytes(h, v)) = m
          /\ Bytes(h, w) \in Seq(Cell) /\ Len(Bytes(h, w)) = n
          /\ \A i \in 1..m : Bytes(h, v)[i] # Junk
          /\ \A i \in 1..n : Bytes(h, w)[i] # Junk
        BY OperandFacts
    <2>2. size = n + m
        BY <1>1
    <2> HIDE DEF size, m, n
    <2>3. /\ \A i \in 1..n : Bytes(h, w)[i] # Junk /\ k[p].bytes[first + i] = Bytes(h, w)[i]
          /\ \A i \in 1..m : Bytes(h, v)[i] # Junk /\ k[p].bytes[first + n + i] = Bytes(h, v)[i]
        BY <1>6, <1>10, <1>11, <2>1
    <2>4. QED
        BY <1>1, <1>3, <1>5, <1>8, <2>1, <2>2, <2>3 DEF Halves
<1>13. Readable(k, p) /\ Read(k, p, k[p].start, size) = Bytes(h, w) \o Bytes(h, v)
    <2>1. Readable(k, p) /\ Read(k, p, first, n + m) = Bytes(h, w) \o Bytes(h, v)
        BY <1>12, Joined
    <2>2. n + m = size
        BY <1>1
    <2>3. QED
        BY <1>8, <2>1, <2>2
<1>14. \A q \in Owners : q # p => k[q] = g[q]
    BY <1>3, <1>8
<1> HIDE DEF size
<1>15. Extended(h, k, v, p, size, Bytes(h, w) \o Bytes(h, v))
    <2>1. k[p].references = 1 /\ k[p].length = size
        BY <1>8
    <2>2. QED
        BY <1>3, <1>13, <1>14, <2>1, RewrittenExtends, ZenonT(60)
<1>16. QED
    BY <1>15 DEF k, size

-----------------------------------------------------------------------------
(* The inductive invariant: besides the counts, every owner alive is         *)
(* readable, every view is a window onto one, and what borrows has the view  *)
(* of an owned binding, which keeps the owner alive for it.                   *)

OwnersReadable(extra) ==
    \A o \in Owners : heap[o].references >= 1 /\ extra[o] = 0 => Readable(heap, o)
Windows == \A b \in live : InWindow(heap, view[b])
WInv(extra) ==
    /\ Held(extra)
    /\ OwnersReadable(extra)
    /\ Windows

\* No two bindings view the owner q.
Sole(q) == \A b, c \in live : view[b].owner = q /\ view[c].owner = q => b = c

\* Only p is rewritten or new, and it is readable.
Changes(h, k, p) ==
    /\ \A q \in Owners : h[q].references >= 1 /\ k[q].references >= 1 /\ q # p => Serves(h, k, q)
    /\ \A q \in Owners : k[q].references >= 1 /\ h[q].references = 0 => q = p
    /\ p \in Owners => Readable(k, p)

\* Only storage with one view has been rewritten.
Calm ==
    \A o \in Owners :
        heap[o].references > 0 /\ heap'[o].references > 0 /\ heap'[o].length # heap[o].length
        => Sole(o)

\* An owner that others hold serves them on.
Steady(extra) == Calm /\ \A o \in Owners : extra[o] >= 1 => Serves(heap, heap', o)

\* What a step makes of the values: content is bound to d, and ended bindings have none.
Becomes(d, content, ended) ==
    /\ d \in Bindings \ live /\ ended \subseteq live
    /\ live' = (live \ ended) \cup {d}
    /\ Contents(d)' = content
    /\ \A b \in live \ ended : Contents(b)' = Contents(b)

\* An owner with the count 1, held by a binding nothing borrows from, has no other view.
LEMMA OneViewer ==
    ASSUME NEW extra \in [Owners -> Nat], Held(extra), NEW taken, Owned(taken), Borrowers(taken) = {},
           view[taken].owner \in Owners, heap[view[taken].owner].references = 1
    PROVE  /\ \A b \in live : view[b].owner = view[taken].owner => b = taken
           /\ Sole(view[taken].owner)
<1> DEFINE o == view[taken].owner
<1>1. Cardinality(Holders(o)) = 1 /\ IsFiniteSet(Holders(o))
    <2>1. IsFiniteSet(Holders(o)) /\ Cardinality(Holders(o)) \in Nat
        BY HoldersFinite DEF Held, IInv
    <2>2. taken \in live /\ extra[o] = 0
        BY DEF Owned, Held, Unviewed, Spare
    <2>3. heap[o].references = Cardinality(Holders(o)) + extra[o]
        BY DEF Held, IInv, Counted
    <2>4. QED
        BY <2>1, <2>2, <2>3
<1>2. taken \in Holders(o)
    BY DEF Owned, Holders
<1>3. \A b \in Holders(o) : b = taken
    <2>1. PICK x : Holders(o) = {x}
        BY <1>1, FS_Singleton
    <2>2. QED
        BY <1>2, <2>1
<1>4. ASSUME NEW b \in live, view[b].owner = o
      PROVE  b = taken
    <2>1. CASE lender[b] = None
        <3>1. b \in Holders(o)
            BY <1>4, <2>1 DEF Holders
        <3>2. QED
            BY <1>3, <3>1
    <2>2. CASE lender[b] # None
        <3>1. Owned(lender[b]) /\ view[b] = view[lender[b]]
            BY <2>2 DEF Held, Lent
        <3>2. lender[b] \in Holders(o)
            BY <1>4, <3>1 DEF Holders, Owned
        <3>3. lender[b] = taken
            BY <1>3, <3>2
        <3>4. b \in Borrowers(taken)
            BY <3>3 DEF Borrowers
        <3>5. QED
            BY <3>4
    <2>3. QED
        BY <2>1, <2>2
<1>5. QED
    BY <1>4 DEF Sole

\* Bindings whose owners are not rewritten read on as they did.
LEMMA Undisturbed ==
    ASSUME NEW extra \in [Owners -> Nat], WInv(extra), Held(extra)', NEW p, Changes(heap, heap', p),
           NEW b \in live, b \in live', view'[b] = view[b],
           view[b].owner \in Owners => view[b].owner # p
    PROVE  InWindow(heap', view[b]) /\ Contents(b)' = Contents(b)
<1>1. ASSUME view[b].owner \in Owners
      PROVE  Serves(heap, heap', view[b].owner)
    <2>1. heap[view[b].owner].references >= 1
        BY <1>1 DEF WInv, Windows, InWindow
    <2>2. heap'[view'[b].owner].references >= 1
        <3>1. ViewsAlive'
            BY HeldAfter
        <3>2. QED
            BY <1>1, <3>1 DEF ViewsAlive
    <2>3. QED
        BY <1>1, <2>1, <2>2 DEF Changes
<1>2. InWindow(heap, view[b])
    BY DEF WInv, Windows
<1>3. InWindow(heap', view[b])
    BY <1>1, <1>2 DEF InWindow, Serves
<1>4. Read(heap', view[b].owner, view[b].data, view[b].length)
        = Read(heap, view[b].owner, view[b].data, view[b].length)
    BY <1>1, ReadServes
<1>5. QED
    BY <1>3, <1>4 DEF Contents

\* A step that rewrites or makes at most p keeps the invariant when the bindings it binds
\* get windows; stay are those it leaves as they are.
LEMMA StepKeeps ==
    ASSUME NEW extra \in [Owners -> Nat], WInv(extra), Held(extra)', NEW p, Changes(heap, heap', p),
           p \in Owners => extra[p] = 0 /\ (heap[p].references = 0 \/ Sole(p)),
           NEW stay, stay \subseteq live,
           \A b \in stay : view'[b] = view[b] /\ (view[b].owner \in Owners => view[b].owner # p),
           \A b \in live' : b \in stay \/ InWindow(heap', view'[b])
    PROVE  WInv(extra)' /\ Steady(extra)
<1>1. OwnersReadable(extra)'
    <2> SUFFICES ASSUME NEW q \in Owners, heap'[q].references >= 1, extra[q] = 0
                 PROVE  Readable(heap', q)
        BY DEF OwnersReadable
    <2>1. CASE q = p
        BY <2>1 DEF Changes
    <2>2. CASE q # p
        <3>1. heap[q].references \in Nat
            BY TypeFacts DEF WInv, Held, IInv
        <3>2. heap[q].references >= 1
            BY <2>2, <3>1 DEF Changes
        <3>3. Serves(heap, heap', q)
            BY <2>2, <3>2 DEF Changes
        <3>4. Readable(heap, q)
            BY <3>2 DEF WInv, OwnersReadable
        <3>5. QED
            BY <3>3, <3>4, ServesReadable
    <2>3. QED
        BY <2>1, <2>2
<1>2. Windows'
    <2> SUFFICES ASSUME NEW b \in live'
                 PROVE  InWindow(heap', view'[b])
        BY DEF Windows
    <2>1. CASE b \in stay
        BY <2>1, Undisturbed
    <2>2. QED
        BY <2>1
<1>3. Calm
    <2> SUFFICES ASSUME NEW o \in Owners, heap[o].references > 0, heap'[o].references > 0,
                        heap'[o].length # heap[o].length
                 PROVE  Sole(o)
        BY DEF Calm
    <2>1. heap[o].references \in Nat /\ heap'[o].references \in Nat
        <3>1. TypeOK /\ TypeOK'
            BY DEF WInv, Held, IInv
        <3>2. QED
            BY <3>1 DEF TypeOK, FlatHeader
    <2>2. heap[o].references >= 1 /\ heap'[o].references >= 1
        BY <2>1
    <2>3. o = p
        BY <2>2 DEF Changes, Serves
    <2>4. QED
        BY <2>2, <2>3
<1>4. ASSUME NEW o \in Owners, extra[o] >= 1
      PROVE  Serves(heap, heap', o)
    <2>1. HeldAlive /\ Held(extra)
        BY HeldAliveAlways DEF WInv
    <2>2. heap[o].references >= extra[o] /\ heap'[o].references >= extra[o]
        BY <2>1, HeldAfter DEF HeldAlive
    <2>3. heap[o].references \in Nat /\ heap'[o].references \in Nat
        BY <2>1 DEF Held, IInv, TypeOK, FlatHeader
    <2>4. heap[o].references >= 1 /\ heap'[o].references >= 1 /\ extra[o] \in Nat
        BY <1>4, <2>2, <2>3
    <2>5. o # p
        BY <1>4
    <2>6. QED
        BY <2>4, <2>5 DEF Changes
<1>5. QED
    BY <1>1, <1>2, <1>3, <1>4 DEF WInv, Steady

-----------------------------------------------------------------------------
(* Binding a value. *)

LEMMA BindStep ==
    ASSUME NEW extra \in [Owners -> Nat], WInv(extra), Held(extra)', NEW d \in Bindings, d \notin live, NEW v, NEW ended, NEW taken,
           Bind(d, v, ended), Ends(ended, taken),
           NEW p, Changes(heap, heap', p),
           p \in Owners => extra[p] = 0 /\ (heap[p].references = 0 \/ Sole(p)),
           \A b \in live \ ended : view[b].owner \in Owners => view[b].owner # p,
           InWindow(heap', v)
    PROVE  WInv(extra)' /\ Steady(extra) /\ Becomes(d, Read(heap', v.owner, v.data, v.length), ended)
<1> DEFINE stay == live \ ended
<1>1. /\ live' = stay \cup {d} /\ live \subseteq Bindings /\ ended \subseteq live /\ view'[d] = v
      /\ \A c \in stay : view'[c] = view[c]
    BY BindFacts DEF WInv, Held
<1>2. WInv(extra)' /\ Steady(extra)
    <2>1. stay \subseteq live
        OBVIOUS
    <2>2. \A b \in stay : view'[b] = view[b] /\ (view[b].owner \in Owners => view[b].owner # p)
        BY <1>1
    <2>3. \A b \in live' : b \in stay \/ InWindow(heap', view'[b])
        BY <1>1
    <2> HIDE DEF stay
    <2>4. QED
        BY <1>1, <2>1, <2>2, <2>3, StepKeeps
<1>3. Contents(d)' = Read(heap', v.owner, v.data, v.length)
    BY <1>1 DEF Contents
<1>4. ASSUME NEW b \in stay
      PROVE  Contents(b)' = Contents(b)
    <2>1. b \in live /\ b \in live' /\ view'[b] = view[b]
          /\ (view[b].owner \in Owners => view[b].owner # p)
        BY <1>1
    <2>2. QED
        BY <1>1, <2>1, Undisturbed
<1>5. QED
    BY <1>1, <1>2, <1>3, <1>4 DEF Becomes

\* Only counts have changed.
LEMMA QuietChanges ==
    ASSUME NEW h, NEW k, Quiet(h, k),
           \A q \in Owners : h[q].references = 0 => ~(k[q].references >= 1)
    PROVE  Changes(h, k, None)
BY OwnersAssumption DEF Quiet, Changes

LEMMA SameChanges ==
    ASSUME NEW h \in Heaps
    PROVE  Changes(h, h, None)
<1>1. \A q \in Owners : h[q].references \in Nat
    BY HeaderFacts
<1>2. QED
    BY <1>1, OwnersAssumption DEF Changes, Serves

LEMMA RetainChanges ==
    ASSUME NEW h \in Heaps, NEW o, o \in Owners => h[o].references >= 1
    PROVE  Changes(h, Retain(h, o), None)
<1>1. \A q \in Owners : h[q].references = 0 => ~(Retain(h, o)[q].references >= 1)
    BY RetainHeap
<1>2. QED
    BY <1>1, RetainQuiet, QuietChanges

LEMMA ReleaseChanges ==
    ASSUME NEW h \in Heaps, NEW o, o \in Owners => h[o].references >= 1
    PROVE  Changes(h, Release(h, o), None)
<1>1. \A q \in Owners : h[q].references \in Nat
    BY HeaderFacts
<1>2. \A q \in Owners : h[q].references = 0 => ~(Release(h, o)[q].references >= 1)
    BY <1>1, ReleaseHeap
<1>3. QED
    BY <1>2, ReleaseQuiet, QuietChanges

LEMMA ThenChanges ==
    ASSUME NEW h, NEW k, NEW l \in Heaps, k \in Heaps, h \in Heaps,
           Changes(h, k, None), Changes(k, l, None)
    PROVE  Changes(h, l, None)
<1>1. \A q \in Owners : /\ h[q].references \in Nat /\ k[q].references \in Nat
                        /\ l[q].references \in Nat /\ q # None
    BY HeaderFacts, OwnersAssumption
<1>2. ASSUME NEW q \in Owners, l[q].references >= 1
      PROVE  k[q].references >= 1 /\ h[q].references >= 1
    BY <1>1, <1>2 DEF Changes
<1>3. ASSUME NEW q \in Owners, l[q].references >= 1
      PROVE  Serves(h, l, q)
    <2>1. Serves(h, k, q) /\ Serves(k, l, q)
        BY <1>1, <1>2, <1>3 DEF Changes
    <2>2. QED
        BY <2>1 DEF Serves
<1>4. None \notin Owners
    BY OwnersAssumption
<1>5. QED
    BY <1>1, <1>2, <1>3, <1>4 DEF Changes

\* A part of what a binding that stays reads.
Part(v, u) ==
    /\ v.owner = u.owner /\ v.data >= u.data /\ v.data + v.length <= u.data + u.length

\* A value that is none, or part of a binding that stays, needs no bytes of its own.
LEMMA SharedStep ==
    ASSUME NEW extra \in [Owners -> Nat], WInv(extra), Held(extra)', NEW d \in Bindings, d \notin live, NEW v \in View,
           NEW ended, NEW taken, Bind(d, v, ended), Ends(ended, taken),
           Changes(heap, heap', None),
           (v.owner = None /\ v.length = 0) \/ \E s \in live \ ended : Part(v, view[s])
    PROVE  WInv(extra)' /\ Steady(extra) /\ Becomes(d, Read(heap, v.owner, v.data, v.length), ended)
<1>1. None \notin Owners
    BY OwnersAssumption
<1>2. InWindow(heap', v) /\ Read(heap', v.owner, v.data, v.length) = Read(heap, v.owner, v.data, v.length)
    <2>1. CASE v.owner = None /\ v.length = 0
        BY <1>1, <2>1 DEF InWindow, Read
    <2>2. CASE \E s \in live \ ended : Part(v, view[s])
        <3>1. PICK s \in live \ ended : Part(v, view[s])
            BY <2>2
        <3>2. s \in live' /\ view'[s] = view[s] /\ live \subseteq Bindings
            BY BindFacts DEF WInv, Held
        <3>3. InWindow(heap', view[s])
            BY <1>1, <3>2, Undisturbed
        <3>4. /\ view[s] \in View /\ view[s].data \in Nat /\ view[s].length \in Nat
              /\ v.data \in Nat /\ v.length \in Nat
            BY <3>2, TypeFacts, ViewFields DEF WInv, Held, IInv
        <3>5. heap' \in Heaps
            BY DEF Held, IInv, TypeOK, Heaps
        <3>6. InWindow(heap', v)
            <4>1. v.owner = None => v.length = 0
                <5> SUFFICES ASSUME v.owner = None PROVE v.length = 0
                    OBVIOUS
                <5>1. view[s].length = 0
                    BY <3>1, <3>3 DEF Part, InWindow
                <5>2. v.data >= view[s].data /\ v.data + v.length <= view[s].data + view[s].length
                    BY <3>1 DEF Part
                <5>3. QED
                    BY <3>4, <5>1, <5>2
            <4>2. ASSUME v.owner \in Owners
                  PROVE  /\ heap'[v.owner].references >= 1
                         /\ heap'[v.owner].start <= v.data
                         /\ v.data + v.length <= heap'[v.owner].start + heap'[v.owner].length
                <5>1. heap'[v.owner].start \in Nat /\ heap'[v.owner].length \in Nat
                    BY <3>5, <4>2, HeaderFacts
                <5>2. QED
                    BY <3>1, <3>3, <3>4, <4>2, <5>1 DEF Part, InWindow
            <4>3. QED
                BY <4>1, <4>2 DEF InWindow
        <3>7. v.owner \in Owners => Serves(heap, heap', v.owner)
            <4>1. v.owner \in Owners => heap[v.owner].references >= 1
                BY <3>1 DEF Part, WInv, Windows, InWindow
            <4>2. v.owner \in Owners => heap'[v.owner].references >= 1
                BY <3>6 DEF InWindow
            <4>3. QED
                BY <1>1, <4>1, <4>2 DEF Changes
        <3>8. Read(heap', v.owner, v.data, v.length) = Read(heap, v.owner, v.data, v.length)
            BY <3>7, ReadServes
        <3>9. QED
            BY <3>6, <3>8
    <2>3. QED
        BY <2>1, <2>2
<1>3. QED
    BY <1>1, <1>2, BindStep

-----------------------------------------------------------------------------
(* The operations.  Each keeps the invariant, and tells what it binds.        *)

LEMMA WInvFacts ==
    ASSUME NEW extra \in [Owners -> Nat], WInv(extra)
    PROVE  /\ Held(extra) /\ heap \in Heaps /\ live \subseteq Bindings
           /\ \A b \in Bindings : view[b] \in View
           /\ \A b \in live : view[b].owner \in Owners => heap[view[b].owner].references >= 1
           /\ \A b \in Bindings : b \notin live => lender[b] = None
BY TypeFacts DEF WInv, Held, IInv, Windows, InWindow, VacantBorrowNothing

\* A view is part of itself, and so is a slice of it.
LEMMA WholePart ==
    ASSUME NEW v \in View
    PROVE  Part(v, v)
BY ViewFields DEF Part

LEMMA SharedWholeStep ==
    ASSUME NEW extra \in [Owners -> Nat], WInv(extra), Held(extra)', NEW d \in Bindings, d \notin live, NEW ended, NEW taken,
           NEW s \in live \ ended, Bind(d, view[s], ended), Ends(ended, taken),
           Changes(heap, heap', None)
    PROVE  WInv(extra)' /\ Steady(extra) /\ Becomes(d, Contents(s), ended)
<1>1. view[s] \in View /\ Part(view[s], view[s])
    BY WInvFacts, WholePart
<1>2. QED
    BY <1>1, SharedStep DEF Contents

LEMMA AliasReads ==
    ASSUME NEW extra \in [Owners -> Nat], WInv(extra), Held(extra)', NEW s \in Bindings, NEW d \in Bindings, Alias(s, d)
    PROVE  WInv(extra)' /\ Steady(extra) /\ Becomes(d, Contents(s), {})
<1>1. /\ s \in live /\ d \notin live /\ heap' = heap
      /\ live' = live \cup {d} /\ live \subseteq Bindings
      /\ lender' = [lender EXCEPT ![d] = IF Owned(s) THEN s ELSE lender[s]]
      /\ view'[d] = view[s] /\ \A b \in live : b # d /\ view'[b] = view[b]
    BY WInvFacts DEF Alias, Bind
<1>2. lender \in [Bindings -> Bindings \cup {None}]
    BY TypeFacts DEF WInv, Held, IInv
<1>3. \A b \in live : lender'[b] = lender[b]
    BY <1>1, <1>2
<1>5. None \notin Owners /\ Changes(heap, heap', None)
    BY <1>1, WInvFacts, SameChanges, OwnersAssumption
<1>6. WInv(extra)' /\ Steady(extra)
    <2>1. \A b \in live' : b \in live \/ InWindow(heap', view'[b])
        <3>1. InWindow(heap', view[s])
            BY <1>1 DEF WInv, Windows
        <3>2. QED
            BY <1>1, <3>1
    <2>2. \A b \in live : view'[b] = view[b] /\ (view[b].owner \in Owners => view[b].owner # None)
        BY <1>1, <1>5
    <2>3. QED
        BY <1>5, <2>1, <2>2, StepKeeps
<1>7. Becomes(d, Contents(s), {})
    BY <1>1 DEF Becomes, Contents
<1>8. QED
    BY <1>6, <1>7

LEMMA ShareReads ==
    ASSUME NEW extra \in [Owners -> Nat], WInv(extra), Held(extra)', NEW s \in Bindings, NEW d \in Bindings, Share(s, d)
    PROVE  WInv(extra)' /\ Steady(extra) /\ Becomes(d, Contents(s), {})
<1>1. /\ s \in live \ {} /\ d \notin live /\ heap' = Retain(heap, view[s].owner)
      /\ Bind(d, view[s], {}) /\ UNCHANGED lender
    BY DEF Share
<1>2. Changes(heap, heap', None)
    BY <1>1, WInvFacts, RetainChanges
<1>3. QED
    BY <1>1, <1>2, NothingEnds, SharedWholeStep

LEMMA NoBytes ==
    ASSUME NEW h
    PROVE  NoView \in View /\ Read(h, NoView.owner, NoView.data, NoView.length) = <<>>
<1>1. NoView \in View
    <2>1. 0 \in 0..MaxLength
        BY Sizes
    <2>2. QED
        BY <2>1 DEF NoView, View
<1>2. Read(h, NoView.owner, NoView.data, NoView.length) = <<>>
    BY DEF Read, NoView
<1>3. QED
    BY <1>1, <1>2

\* The view of a slice.
Sliced(u, offset, n) == [owner |-> u.owner, data |-> u.data + offset, length |-> n]

LEMMA ViewOfSlice ==
    ASSUME NEW u \in View, NEW offset \in Nat, NEW n \in 0..MaxLength
    PROVE  Sliced(u, offset, n) \in View
<1>1. u.data \in Nat
    BY ViewFields
<1>2. u.owner \in Owners \cup Statics \cup {None}
    BY DEF View
<1>3. QED
    BY <1>1, <1>2 DEF Sliced, View

LEMMA SlicedByUpdate ==
    ASSUME NEW u \in View, NEW offset, NEW n, NEW v,
           v = [u EXCEPT !.data = @ + offset, !.length = n]
    PROVE  v = Sliced(u, offset, n)
<1>1. u = [owner |-> u.owner, data |-> u.data, length |-> u.length]
    BY DEF View
<1>2. QED
    BY <1>1 DEF Sliced

\* Reading part of a view.
LEMMA PartBytes ==
    ASSUME NEW h, NEW u \in View, NEW offset \in Nat, NEW n \in Nat, offset + n <= u.length
    PROVE  /\ Part(Sliced(u, offset, n), u)
           /\ Read(h, u.owner, u.data + offset, n)
                = SubSeq(Read(h, u.owner, u.data, u.length), offset + 1, offset + n)
<1>1. u.data \in Nat /\ u.length \in Nat
    BY ViewFields
<1>3. Part(Sliced(u, offset, n), u)
    BY <1>1 DEF Part, Sliced
<1> DEFINE all == Read(h, u.owner, u.data, u.length)
           some == Read(h, u.owner, u.data + offset, n)
<1>4. \A i \in 1..n : some[i] = all[offset + i]
    <2> TAKE i \in 1..n
    <2>1. offset + i \in 1..u.length /\ u.data + offset + i = u.data + (offset + i)
        BY <1>1
    <2>2. QED
        BY <2>1 DEF Read
<1>5. some = [i \in 1..n |-> some[i]]
    BY DEF Read
<1> HIDE DEF all, some
<1>6. SubSeq(all, offset + 1, offset + n) = [i \in 1..n |-> all[offset + i]]
    <2>1. SubSeq(all, offset + 1, offset + n)
            = [i \in 1..(1 + (offset + n) - (offset + 1)) |-> all[i + (offset + 1) - 1]]
        OBVIOUS
    <2>2. 1 + (offset + n) - (offset + 1) = n
        OBVIOUS
    <2>3. \A i \in 1..n : i + (offset + 1) - 1 = offset + i
        OBVIOUS
    <2>4. QED
        BY <2>1, <2>2, <2>3
<1>7. some = SubSeq(all, offset + 1, offset + n)
    BY <1>4, <1>5, <1>6
<1>8. QED
    BY <1>3, <1>7 DEF all, some

LEMMA SliceReads ==
    ASSUME NEW extra \in [Owners -> Nat], WInv(extra), Held(extra)', NEW s \in Bindings, NEW d \in Bindings, NEW offset \in 0..MaxLength,
           NEW n \in 0..MaxLength, Slice(s, d, offset, n)
    PROVE  /\ s \in live /\ offset + n <= Len(Contents(s))
           /\ WInv(extra)' /\ Steady(extra)
           /\ Becomes(d, SubSeq(Contents(s), offset + 1, offset + n), {})
<1>1. /\ s \in live /\ d \notin live /\ offset + n <= view[s].length /\ UNCHANGED lender
    BY DEF Slice
<1>2. /\ view[s] \in View /\ heap \in Heaps /\ InStatic(view[s].owner, view[s].data, view[s].length)
    BY <1>1, WInvFacts DEF WInv, Held, IInv, StaticWindows
<1>3. Len(Contents(s)) = view[s].length
    BY <1>2, OperandBytes DEF Contents
<1>4. offset \in Nat /\ n \in Nat
    BY Sizes
<1> DEFINE v == Sliced(view[s], offset, n)
<1>5. /\ v.owner = view[s].owner /\ v.data = view[s].data + offset /\ v.length = n
      /\ Part(v, view[s])
      /\ Read(heap, v.owner, v.data, v.length)
            = SubSeq(Contents(s), offset + 1, offset + n)
    <2>1. Part(v, view[s])
          /\ Read(heap, view[s].owner, view[s].data + offset, n)
                = SubSeq(Contents(s), offset + 1, offset + n)
        BY <1>1, <1>2, <1>4, PartBytes DEF Contents
    <2>2. QED
        BY <2>1 DEF Sliced
<1>6. CASE n = 0
    <2>1. Bind(d, NoView, {}) /\ UNCHANGED heap
        BY <1>6 DEF Slice
    <2>2. Read(heap, NoView.owner, NoView.data, NoView.length)
            = SubSeq(Contents(s), offset + 1, offset + n)
        <3>1. Read(heap, v.owner, v.data, v.length) = <<>>
            BY <1>5, <1>6 DEF Read
        <3>2. QED
            BY <1>5, <3>1, NoBytes
    <2>3. NoView \in View /\ NoView.owner = None /\ NoView.length = 0
        BY NoBytes DEF NoView
    <2>4. Changes(heap, heap', None)
        BY <2>1, WInvFacts, SameChanges
    <2>5. WInv(extra)' /\ Steady(extra) /\ Becomes(d, Read(heap, NoView.owner, NoView.data, NoView.length), {})
        BY <1>1, <2>1, <2>3, <2>4, NothingEnds, SharedStep
    <2>6. QED
        BY <1>1, <1>3, <2>2, <2>5
<1>7. CASE n # 0
    <2>1. PICK x : x = [view[s] EXCEPT !.data = @ + offset, !.length = n]
                   /\ Bind(d, x, {}) /\ heap' = Retain(heap, view[s].owner)
        BY <1>7 DEF Slice
    <2>2. Changes(heap, heap', None)
        BY <1>1, <2>1, WInvFacts, RetainChanges
    <2>3. v \in View /\ Bind(d, v, {})
        <3>1. x = v
            BY <1>2, <2>1, SlicedByUpdate
        <3>2. v \in View
            BY <1>2, <1>4, ViewOfSlice
        <3>3. QED
            BY <2>1, <3>1, <3>2
    <2> HIDE DEF v
    <2>4. WInv(extra)' /\ Steady(extra) /\ Becomes(d, Read(heap, v.owner, v.data, v.length), {})
        <3>1. s \in live \ {} /\ Part(v, view[s])
            BY <1>1, <1>5
        <3>2. QED
            BY <1>1, <2>2, <2>3, <3>1, NothingEnds, SharedStep
    <2>5. QED
        BY <1>1, <1>3, <1>5, <2>4
<1>8. QED
    BY <1>6, <1>7

LEMMA LiteralReads ==
    ASSUME NEW extra \in [Owners -> Nat], WInv(extra), Held(extra)', NEW d \in Bindings, NEW o \in Statics, SymbolLiteral(d, o)
    PROVE  WInv(extra)' /\ Steady(extra) /\ Becomes(d, StaticBytes[o], {})
<1> DEFINE n == Len(StaticBytes[o])
           v == [owner |-> o, data |-> 0, length |-> n]
<1>1. d \notin live /\ Bind(d, v, {}) /\ heap' = heap /\ UNCHANGED lender
    BY DEF SymbolLiteral
<1>2. /\ StaticBytes[o] \in Seq(Byte) /\ n \in Nat /\ o \notin Owners /\ o # None
      /\ StaticBytes[o] = [i \in 1..n |-> StaticBytes[o][i]]
    BY BytesAssumption, OwnersAssumption
<1> HIDE DEF n
<1>3. InWindow(heap', v)
    BY <1>2 DEF InWindow
<1>4. Read(heap', v.owner, v.data, v.length) = StaticBytes[o]
    BY <1>2 DEF Read
<1>5. Changes(heap, heap', None) /\ None \notin Owners
    BY <1>1, WInvFacts, SameChanges, OwnersAssumption
<1>6. WInv(extra)' /\ Steady(extra) /\ Becomes(d, Read(heap', v.owner, v.data, v.length), {})
    <2> HIDE DEF v
    <2>1. QED
        BY <1>1, <1>3, <1>5, NothingEnds, BindStep
<1>7. QED
    BY <1>4, <1>6

\* A copy of content, none of it junk, on an owner of its own.
LEMMA CopyStep ==
    ASSUME NEW extra \in [Owners -> Nat], WInv(extra), Held(extra)', NEW d \in Bindings, d \notin live, NEW content \in Seq(Cell),
           Len(content) <= MaxLength, \A i \in 1..Len(content) : content[i] # Junk,
           BindCopy(d, content), UNCHANGED lender
    PROVE  WInv(extra)' /\ Steady(extra) /\ Becomes(d, content, {})
<1>1. CASE Len(content) = 0
    <2>1. Bind(d, NoView, {}) /\ heap' = heap
        BY <1>1 DEF BindCopy
    <2>2. content = <<>>
        BY <1>1
    <2>3. NoView \in View /\ NoView.owner = None /\ NoView.length = 0
        BY NoBytes DEF NoView
    <2>4. Changes(heap, heap', None)
        BY <2>1, WInvFacts, SameChanges
    <2>5. WInv(extra)' /\ Steady(extra) /\ Becomes(d, Read(heap, NoView.owner, NoView.data, NoView.length), {})
        BY <2>1, <2>3, <2>4, NothingEnds, SharedStep
    <2>6. QED
        BY <2>2, <2>5, NoBytes
<1>2. CASE Len(content) # 0
    <2> DEFINE n == Len(content)
    <2>1. PICK p \in Fresh(heap) :
            /\ heap' = [heap EXCEPT ![p] = FlatOwner(content, Capacity(n), 0)]
            /\ Bind(d, [owner |-> p, data |-> 0, length |-> n], {})
        BY <1>2 DEF BindCopy
    <2> DEFINE v == [owner |-> p, data |-> 0, length |-> n]
    <2>2. n \in Nat /\ n \in 0..SizeMax /\ Capacity(n) \in Nat /\ 0 + n <= Capacity(n) /\ 0 \in Nat
        BY Sizes
    <2>3. p \in Owners /\ heap[p].references = 0 /\ p # None
        BY OwnersAssumption DEF Fresh
    <2>4. /\ heap'[p] = FlatOwner(content, Capacity(n), 0)
          /\ \A q \in Owners : q # p => heap'[q] = heap[q]
        BY <2>1, <2>3, WInvFacts DEF Heaps
    <2> HIDE DEF n
    <2>5. /\ Readable(heap', p) /\ heap'[p].references = 1 /\ heap'[p].start = 0
          /\ heap'[p].length = n /\ Read(heap', p, 0, n) = content
        BY <2>2, <2>3, <2>4, FlatOwnerReads DEF n
    <2>6. Changes(heap, heap', p)
        <3>1. ASSUME NEW q \in Owners, q # p
              PROVE  /\ heap[q].references >= 1 => Serves(heap, heap', q)
                     /\ heap[q].references = 0 => ~(heap'[q].references >= 1)
            BY <2>4, <3>1 DEF Serves
        <3>2. QED
            BY <2>5, <3>1 DEF Changes
    <2>7. InWindow(heap', v) /\ Read(heap', v.owner, v.data, v.length) = content
        BY <2>2, <2>3, <2>5 DEF InWindow
    <2>8. \A b \in live \ {} : view[b].owner \in Owners => view[b].owner # p
        <3>1. \A b \in live : view[b].owner \in Owners => heap[view[b].owner].references >= 1
            BY WInvFacts
        <3>2. QED
            BY <2>3, <3>1
    <2>9. WInv(extra)' /\ Steady(extra) /\ Becomes(d, Read(heap', v.owner, v.data, v.length), {})
        <3>0. extra[p] = 0
            BY FreshSpare DEF WInv, Held
        <3>1. Bind(d, v, {})
            BY <2>1 DEF n
        <3> HIDE DEF v
        <3>2. QED
            BY <2>3, <2>6, <2>7, <2>8, <3>1, <3>0, NothingEnds, BindStep
    <2>10. QED
        BY <2>7, <2>9
<1>3. QED
    BY <1>1, <1>2

LEMMA FromReads ==
    ASSUME NEW extra \in [Owners -> Nat], WInv(extra), Held(extra)', NEW d \in Bindings, NEW content \in Inputs, SymbolFrom(d, content)
    PROVE  WInv(extra)' /\ Steady(extra) /\ Becomes(d, content, {})
<1>1. d \notin live /\ BindCopy(d, content) /\ UNCHANGED lender
    BY DEF SymbolFrom
<1>2. content \in Seq(Byte) /\ Len(content) <= MaxLength
    BY BytesAssumption
<1>3. content \in Seq(Cell) /\ \A i \in 1..Len(content) : content[i] # Junk
    <2>1. \A i \in 1..Len(content) : content[i] \in Byte
        BY <1>2
    <2>2. Byte \subseteq Cell
        BY DEF Cell
    <2>3. content \in Seq(Cell)
        BY <1>2, <2>2
    <2>4. QED
        BY <2>1, <2>3, BytesAssumption
<1>4. QED
    BY <1>1, <1>2, <1>3, CopyStep

\* What a live binding reads.
LEMMA ContentsFacts ==
    ASSUME NEW extra \in [Owners -> Nat], WInv(extra), NEW b \in live
    PROVE  /\ Contents(b) = Bytes(heap, view[b])
           /\ Contents(b) \in Seq(Cell) /\ Len(Contents(b)) = view[b].length /\ view[b].length \in Nat
           /\ \A i \in 1..Len(Contents(b)) : Contents(b)[i] # Junk
<1>1. /\ view[b] \in View /\ heap \in Heaps /\ InStatic(view[b].owner, view[b].data, view[b].length)
      /\ InWindow(heap, view[b])
      /\ (view[b].owner \in Owners => Readable(heap, view[b].owner))
    BY WInvFacts DEF WInv, Held, Unviewed, Spare, IInv, StaticWindows, Windows, OwnersReadable
<1>2. Contents(b) \in Seq(Cell) /\ Len(Contents(b)) = view[b].length
    BY <1>1, OperandBytes DEF Contents
<1>3. \A i \in 1..view[b].length : Contents(b)[i] # Junk
    BY <1>1, ReadWindow DEF Contents
<1>4. QED
    BY <1>1, <1>2, <1>3, ViewFields DEF Contents, Bytes

LEMMA ConcatenateReads ==
    ASSUME NEW extra \in [Owners -> Nat], WInv(extra), Held(extra)', NEW l \in Bindings, NEW r \in Bindings, NEW d \in Bindings,
           Concatenate(l, r, d)
    PROVE  /\ l \in live /\ r \in live /\ Len(Contents(l)) + Len(Contents(r)) <= MaxLength
           /\ WInv(extra)' /\ Steady(extra) /\ Becomes(d, Contents(l) \o Contents(r), {})
<1>1. /\ l \in live /\ r \in live /\ d \notin live /\ UNCHANGED lender
      /\ view[l].length + view[r].length <= MaxLength
    BY DEF Concatenate
<1>2. /\ Contents(l) \in Seq(Cell) /\ Len(Contents(l)) = view[l].length /\ view[l].length \in Nat
      /\ Contents(r) \in Seq(Cell) /\ Len(Contents(r)) = view[r].length /\ view[r].length \in Nat
      /\ \A i \in 1..Len(Contents(l)) : Contents(l)[i] # Junk
      /\ \A i \in 1..Len(Contents(r)) : Contents(r)[i] # Junk
    BY <1>1, ContentsFacts
<1>3. CASE view[l].length = 0
    <2>1. Bind(d, view[r], {}) /\ heap' = Retain(heap, view[r].owner)
        BY <1>3 DEF Concatenate
    <2>2. WInv(extra)' /\ Steady(extra) /\ Becomes(d, Contents(r), {})
        BY <1>1, <2>1, WInvFacts, RetainChanges, NothingEnds, SharedWholeStep
    <2>3. Contents(l) \o Contents(r) = Contents(r)
        BY <1>2, <1>3
    <2>4. QED
        BY <1>1, <1>2, <2>2, <2>3
<1>4. CASE view[l].length # 0 /\ view[r].length = 0
    <2>1. Bind(d, view[l], {}) /\ heap' = Retain(heap, view[l].owner)
        BY <1>4 DEF Concatenate
    <2>2. WInv(extra)' /\ Steady(extra) /\ Becomes(d, Contents(l), {})
        BY <1>1, <2>1, WInvFacts, RetainChanges, NothingEnds, SharedWholeStep
    <2>3. Contents(l) \o Contents(r) = Contents(l)
        BY <1>2, <1>4
    <2>4. QED
        BY <1>1, <1>2, <2>2, <2>3
<1>5. CASE view[l].length # 0 /\ view[r].length # 0
    <2> DEFINE content == Contents(l) \o Contents(r)
    <2>1. BindCopy(d, content)
        BY <1>5 DEF Concatenate, Contents
    <2>2. content \in Seq(Cell) /\ Len(content) = Len(Contents(l)) + Len(Contents(r))
        BY <1>2, ConcatSeq, Zenon
    <2>3. \A i \in 1..Len(content) : content[i] # Junk
        BY <1>2, JoinedBytes, Zenon
    <2>4. Len(content) <= MaxLength
        BY <1>1, <1>2, <2>2
    <2> HIDE DEF content
    <2>5. WInv(extra)' /\ Steady(extra) /\ Becomes(d, content, {})
        BY <1>1, <2>1, <2>2, <2>3, <2>4, CopyStep
    <2>6. QED
        BY <1>1, <1>2, <2>5 DEF content
<1>6. QED
    BY <1>3, <1>4, <1>5

\* What ends leaves nothing that borrows from it, and changes no other value.
LEMMA DropReads ==
    ASSUME NEW extra \in [Owners -> Nat], WInv(extra), Held(extra)', NEW b \in Bindings, Drop(b)
    PROVE  /\ b \in live /\ WInv(extra)' /\ Steady(extra)
           /\ live' = live \ {b}
           /\ \A c \in live \ {b} : Contents(c)' = Contents(c)
<1> DEFINE stay == live \ {b}
<1>1. /\ b \in live /\ Borrowers(b) = {}
      /\ heap' = IF Owned(b) THEN Release(heap, view[b].owner) ELSE heap
      /\ live' = stay
      /\ view' = [view EXCEPT ![b] = NoView]
      /\ lender' = [lender EXCEPT ![b] = None]
    BY DEF Drop
<1>2. /\ heap \in Heaps /\ live \subseteq Bindings /\ view \in [Bindings -> View]
      /\ lender \in [Bindings -> Bindings \cup {None}]
    BY TypeFacts DEF WInv, Held, IInv
<1>3. \A c \in stay : view'[c] = view[c] /\ lender'[c] = lender[c]
    BY <1>1, <1>2
<1>4. Changes(heap, heap', None) /\ None \notin Owners
    <2>1. CASE Owned(b)
        BY <1>1, <2>1, WInvFacts, ReleaseChanges, OwnersAssumption
    <2>2. CASE ~Owned(b)
        BY <1>1, <2>2, WInvFacts, SameChanges, OwnersAssumption
    <2>3. QED
        BY <2>1, <2>2
<1>6. WInv(extra)' /\ Steady(extra)
    <2>1. \A c \in stay : view'[c] = view[c] /\ (view[c].owner \in Owners => view[c].owner # None)
        BY <1>3, <1>4
    <2>2. stay \subseteq live /\ \A c \in live' : c \in stay \/ InWindow(heap', view'[c])
        BY <1>1
    <2> HIDE DEF stay
    <2>3. QED
        BY <1>4, <2>1, <2>2, StepKeeps
<1>7. ASSUME NEW c \in stay
      PROVE  Contents(c)' = Contents(c)
    <2>1. c \in live /\ c \in live' /\ view'[c] = view[c]
        BY <1>1, <1>3
    <2>2. QED
        BY <1>4, <2>1, Undisturbed
<1>8. QED
    BY <1>1, <1>6, <1>7

\* A consuming concatenation ends only what it takes, which nothing borrows from.
LEMMA TakesEnds ==
    ASSUME NEW extra \in [Owners -> Nat], WInv(extra), ~AliasedOperands, NEW taken \in Bindings, NEW other \in Bindings,
           NEW d \in Bindings, Takes(taken, other, d), EndLenders(taken)
    PROVE  /\ d \notin live /\ Owned(taken) /\ taken \in live /\ other \in live /\ taken # other
           /\ Borrowers(taken) = {} /\ Ended(taken) = {taken}
           /\ Ends({taken}, taken)
           /\ Operands(heap, view[taken], view[other])
<1>1. /\ d \notin live /\ Owned(taken) /\ taken \in live /\ other \in live /\ taken # other
      /\ Borrowers(taken) = {}
    BY DEF Takes, Owned
<1>2. Ended(taken) = {taken}
    BY <1>1 DEF Ended
<1>3. Held(extra)
    BY DEF WInv
<1>4. /\ Extends(heap, view[taken], view[other])
      /\ \A b \in Bindings : lender'[b] = IF b \in Ended(taken) THEN None ELSE lender[b]
    BY <1>3, TakesFacts DEF Held
<1>5. Ends({taken}, taken)
    BY <1>1, <1>2, <1>4 DEF Ends
<1>6. ASSUME NEW b \in live
      PROVE  InWindow(heap, view[b]) /\ (view[b].owner \in Owners => Readable(heap, view[b].owner))
    BY WInvFacts DEF WInv, Held, Unviewed, Spare, Windows, OwnersReadable
<1>7. Operands(heap, view[taken], view[other])
    BY <1>1, <1>4, <1>6 DEF Operands
<1>8. QED
    BY <1>1, <1>2, <1>5, <1>7

LEMMA MoveTakenReads ==
    ASSUME NEW extra \in [Owners -> Nat], WInv(extra), Held(extra)', ~AliasedOperands, NEW taken \in Bindings, NEW other \in Bindings,
           NEW d \in Bindings, Takes(taken, other, d), EndLenders(taken), MoveTaken(taken, d)
    PROVE  WInv(extra)' /\ Steady(extra) /\ Becomes(d, Contents(taken), {taken})
<1> DEFINE v == view[taken]
<1>1. /\ d \notin live /\ taken \in live /\ Ended(taken) = {taken} /\ Ends({taken}, taken)
    BY TakesEnds
<1>2. Bind(d, v, {taken}) /\ heap' = heap
    BY <1>1 DEF MoveTaken
<1>3. Changes(heap, heap', None) /\ None \notin Owners
    BY <1>2, WInvFacts, SameChanges, OwnersAssumption
<1>4. InWindow(heap', v)
    BY <1>1, <1>2 DEF WInv, Windows
<1>5. Read(heap', v.owner, v.data, v.length) = Contents(taken)
    BY <1>2 DEF Contents
<1> HIDE DEF v
<1>6. WInv(extra)' /\ Steady(extra) /\ Becomes(d, Read(heap', v.owner, v.data, v.length), {taken})
    BY <1>1, <1>2, <1>3, <1>4, BindStep
<1>7. QED
    BY <1>5, <1>6

LEMMA ShareOtherReads ==
    ASSUME NEW extra \in [Owners -> Nat], WInv(extra), Held(extra)', ~AliasedOperands, NEW taken \in Bindings, NEW other \in Bindings,
           NEW d \in Bindings, Takes(taken, other, d), EndLenders(taken), ShareOther(taken, other, d)
    PROVE  WInv(extra)' /\ Steady(extra) /\ Becomes(d, Contents(other), {taken})
<1> DEFINE from == view[taken].owner
           to == view[other].owner
           g == Release(heap, from)
<1>1. /\ d \notin live /\ Owned(taken) /\ taken \in live /\ other \in live \ {taken}
      /\ Borrowers(taken) = {} /\ Ended(taken) = {taken} /\ Ends({taken}, taken)
    BY TakesEnds
<1>2. Bind(d, view[other], {taken}) /\ heap' = Retain(g, to)
    BY <1>1 DEF ShareOther
<1>3. /\ heap \in Heaps
      /\ from \in Owners => heap[from].references >= 1
      /\ to \in Owners => heap[to].references >= 1
    BY <1>1, WInvFacts
<1>4. g \in Heaps /\ Changes(heap, g, None)
      /\ \A q \in Owners : g[q].references = heap[q].references - (IF q = from THEN 1 ELSE 0)
    BY <1>3, ReleaseHeap, ReleaseChanges
<1>5. to \in Owners => g[to].references >= 1
    <2> SUFFICES ASSUME to \in Owners PROVE g[to].references >= 1
        OBVIOUS
    <2>1. heap[to].references \in Nat
        BY <1>3, HeaderFacts
    <2>2. to = from => heap[to].references # 1
        <3> SUFFICES ASSUME to = from, heap[from].references = 1 PROVE FALSE
            OBVIOUS
        <3>1. \A b \in live : view[b].owner = from => b = taken
            BY <1>1, OneViewer DEF WInv
        <3>2. QED
            BY <1>1, <3>1
    <2> HIDE DEF g, from, to
    <2>3. QED
        BY <1>3, <1>4, <2>1, <2>2
<1> HIDE DEF g
<1>6. Changes(g, heap', None) /\ heap' \in Heaps
    BY <1>2, <1>4, <1>5, RetainChanges, RetainHeap
<1>7. Changes(heap, heap', None)
    BY <1>3, <1>4, <1>6, ThenChanges
<1>8. QED
    BY <1>1, <1>2, <1>7, SharedWholeStep

\* The result covers the whole owner an extension left it on.
LEMMA WholeReads ==
    ASSUME NEW extra \in [Owners -> Nat], WInv(extra), Held(extra)', ~AliasedOperands, NEW taken \in Bindings, NEW other \in Bindings,
           NEW d \in Bindings, Takes(taken, other, d), EndLenders(taken),
           NEW p, NEW n \in Nat, NEW content, Extended(heap, heap', view[taken], p, n, content),
           BindWhole(d, p, n, Ended(taken))
    PROVE  WInv(extra)' /\ Steady(extra) /\ Becomes(d, content, {taken})
<1> DEFINE v == [owner |-> p, data |-> heap'[p].start, length |-> n]
<1>1. /\ d \notin live /\ Owned(taken) /\ Borrowers(taken) = {} /\ Ended(taken) = {taken}
      /\ Ends({taken}, taken)
    BY TakesEnds
<1>2. Bind(d, v, {taken})
    BY <1>1 DEF BindWhole
<1>3. /\ p \in Owners /\ Readable(heap', p) /\ heap'[p].references >= 1
      /\ heap'[p].length = n /\ Read(heap', p, heap'[p].start, n) = content
      /\ Changes(heap, heap', p)
      /\ IF p = view[taken].owner THEN Extensible(heap, view[taken]) ELSE heap[p].references = 0
    BY DEF Extended, Changes
<1>4. \A b \in live \ {taken} : view[b].owner \in Owners => view[b].owner # p
    <2> SUFFICES ASSUME NEW b \in live \ {taken}, view[b].owner = p PROVE FALSE
        OBVIOUS
    <2>1. heap[p].references >= 1
        BY <1>3, WInvFacts
    <2>2. p = view[taken].owner /\ heap[p].references = 1
        BY <1>3, <2>1 DEF Extensible
    <2>3. b = taken
        BY <1>1, <1>3, <2>2, OneViewer DEF WInv
    <2>4. QED
        BY <2>3
<1>5. extra[p] = 0 /\ (heap[p].references = 0 \/ Sole(p))
    <2>1. heap[p].references = 0 \/ Sole(p)
        BY <1>1, <1>3, OneViewer DEF WInv, Extensible
    <2>2. CASE p = view[taken].owner
        BY <1>1, <1>3, <2>1, <2>2 DEF WInv, Held, Unviewed, Spare, Owned
    <2>3. CASE heap[p].references = 0
        <3>1. p \in Fresh(heap)
            BY <1>3, <2>3 DEF Fresh
        <3>2. QED
            BY <2>1, <3>1, FreshSpare DEF WInv, Held
    <2>4. QED
        BY <1>3, <2>2, <2>3
<1>6. InWindow(heap', v)
    <2>1. heap' \in Heaps
        BY TypeFacts DEF Held, IInv, TypeOK, Heaps, FlatHeader
    <2>2. heap'[p].start \in Nat
        BY <1>3, <2>1, HeaderFacts
    <2>3. p # None
        BY <1>3, OwnersAssumption
    <2>4. QED
        BY <1>3, <2>2, <2>3 DEF InWindow
<1>7. Read(heap', v.owner, v.data, v.length) = content
    BY <1>3
<1> HIDE DEF v
<1>8. WInv(extra)' /\ Steady(extra) /\ Becomes(d, Read(heap', v.owner, v.data, v.length), {taken})
    BY <1>1, <1>2, <1>3, <1>4, <1>5, <1>6, BindStep
<1>9. QED
    BY <1>7, <1>8

\* The bytes that an extension in place reads are on another owner than those it extends.
LEMMA OtherElsewhere ==
    ASSUME NEW extra \in [Owners -> Nat], WInv(extra), ~AliasedOperands, NEW taken \in Bindings, NEW other \in Bindings,
           NEW d \in Bindings, Takes(taken, other, d), EndLenders(taken),
           Extensible(heap, view[taken])
    PROVE  view[other].owner # view[taken].owner
<1>1. Owned(taken) /\ Borrowers(taken) = {} /\ other \in live /\ other # taken
    BY TakesEnds
<1>2. \A b \in live : view[b].owner = view[taken].owner => b = taken
    BY <1>1, OneViewer DEF WInv, Extensible
<1>3. QED
    BY <1>1, <1>2

LEMMA ConsumingLeftReads ==
    ASSUME NEW extra \in [Owners -> Nat], WInv(extra), Held(extra)', ~AliasedOperands, NEW l \in Bindings, NEW r \in Bindings,
           NEW d \in Bindings, ConsumingLeft(l, r, d)
    PROVE  /\ l \in live /\ r \in live /\ Len(Contents(l)) + Len(Contents(r)) <= MaxLength
           /\ WInv(extra)' /\ Steady(extra) /\ Becomes(d, Contents(l) \o Contents(r), {l})
<1>1. Takes(l, r, d) /\ EndLenders(l) /\ view[l].length + view[r].length <= MaxLength
    BY DEF ConsumingLeft, Takes
<1>2. l \in live /\ r \in live /\ Operands(heap, view[l], view[r])
    BY <1>1, TakesEnds
<1>3. /\ Contents(l) \in Seq(Cell) /\ Len(Contents(l)) = view[l].length /\ view[l].length \in Nat
      /\ Contents(r) \in Seq(Cell) /\ Len(Contents(r)) = view[r].length /\ view[r].length \in Nat
      /\ Contents(l) = Bytes(heap, view[l]) /\ Contents(r) = Bytes(heap, view[r])
    BY <1>2, ContentsFacts
<1>4. WInv(extra)' /\ Steady(extra) /\ Becomes(d, Contents(l) \o Contents(r), {l})
    <2>1. CASE view[l].length = 0
        <3>1. WInv(extra)' /\ Steady(extra) /\ Becomes(d, Contents(r), {l})
            BY <1>1, <2>1, ShareOtherReads DEF ConsumingLeft
        <3>2. Contents(l) \o Contents(r) = Contents(r)
            BY <1>3, <2>1
        <3>3. QED
            BY <3>1, <3>2
    <2>2. CASE view[l].length # 0 /\ view[r].length = 0
        <3>1. WInv(extra)' /\ Steady(extra) /\ Becomes(d, Contents(l), {l})
            BY <1>1, <2>2, MoveTakenReads DEF ConsumingLeft
        <3>2. Contents(l) \o Contents(r) = Contents(l)
            BY <1>3, <2>2
        <3>3. QED
            BY <3>1, <3>2
    <2>3. CASE view[l].length # 0 /\ view[r].length # 0
        <3>1. PICK p \in AppendPlaces(heap, view[l], view[r]) :
                /\ heap' = IF Extensible(heap, view[l])
                           THEN AppendInPlace(heap, view[l], view[r], p)
                           ELSE AppendCopy(heap, view[l], view[r], p)
                /\ BindWhole(d, p, view[l].length + view[r].length, Ended(l))
            BY <2>3 DEF ConsumingLeft
        <3>2. Extended(heap, heap', view[l], p, view[l].length + view[r].length,
                       Bytes(heap, view[l]) \o Bytes(heap, view[r]))
            <4>1. CASE Extensible(heap, view[l])
                BY <1>1, <1>2, <3>1, <4>1, OtherElsewhere, AppendInPlaceReads
            <4>2. CASE ~Extensible(heap, view[l])
                BY <1>2, <3>1, <4>2, AppendCopyReads DEF AppendPlaces
            <4>3. QED
                BY <4>1, <4>2
        <3>3. view[l].length + view[r].length \in Nat
            BY <1>3
        <3>4. QED
            BY <1>1, <1>3, <3>1, <3>2, <3>3, WholeReads
    <2>4. QED
        BY <2>1, <2>2, <2>3
<1>5. QED
    BY <1>1, <1>2, <1>3, <1>4

LEMMA ConsumingRightReads ==
    ASSUME NEW extra \in [Owners -> Nat], WInv(extra), Held(extra)', ~AliasedOperands, NEW l \in Bindings, NEW r \in Bindings,
           NEW d \in Bindings, ConsumingRight(l, r, d)
    PROVE  /\ l \in live /\ r \in live /\ Len(Contents(l)) + Len(Contents(r)) <= MaxLength
           /\ WInv(extra)' /\ Steady(extra) /\ Becomes(d, Contents(l) \o Contents(r), {r})
<1>1. Takes(r, l, d) /\ EndLenders(r) /\ view[r].length + view[l].length <= MaxLength
    BY DEF ConsumingRight, Takes
<1>2. l \in live /\ r \in live /\ Operands(heap, view[r], view[l])
    BY <1>1, TakesEnds
<1>3. /\ Contents(l) \in Seq(Cell) /\ Len(Contents(l)) = view[l].length /\ view[l].length \in Nat
      /\ Contents(r) \in Seq(Cell) /\ Len(Contents(r)) = view[r].length /\ view[r].length \in Nat
      /\ Contents(l) = Bytes(heap, view[l]) /\ Contents(r) = Bytes(heap, view[r])
    BY <1>2, ContentsFacts
<1>4. WInv(extra)' /\ Steady(extra) /\ Becomes(d, Contents(l) \o Contents(r), {r})
    <2>1. CASE view[l].length = 0
        <3>1. WInv(extra)' /\ Steady(extra) /\ Becomes(d, Contents(r), {r})
            BY <1>1, <2>1, MoveTakenReads DEF ConsumingRight
        <3>2. Contents(l) \o Contents(r) = Contents(r)
            BY <1>3, <2>1
        <3>3. QED
            BY <3>1, <3>2
    <2>2. CASE view[l].length # 0 /\ view[r].length = 0
        <3>1. WInv(extra)' /\ Steady(extra) /\ Becomes(d, Contents(l), {r})
            BY <1>1, <2>2, ShareOtherReads DEF ConsumingRight
        <3>2. Contents(l) \o Contents(r) = Contents(l)
            BY <1>3, <2>2
        <3>3. QED
            BY <3>1, <3>2
    <2>3. CASE view[l].length # 0 /\ view[r].length # 0
        <3>1. PICK p \in PrependPlaces(heap, view[r], view[l]) :
                /\ heap' = IF Extensible(heap, view[r])
                           THEN PrependInPlace(heap, view[r], view[l], p)
                           ELSE PrependCopy(heap, view[r], view[l], p)
                /\ BindWhole(d, p, view[l].length + view[r].length, Ended(r))
            BY <2>3 DEF ConsumingRight
        <3>2. Extended(heap, heap', view[r], p, view[r].length + view[l].length,
                       Bytes(heap, view[l]) \o Bytes(heap, view[r]))
            <4>1. CASE Extensible(heap, view[r])
                BY <1>1, <1>2, <3>1, <4>1, OtherElsewhere, PrependInPlaceReads
            <4>2. CASE ~Extensible(heap, view[r])
                BY <1>2, <3>1, <4>2, PrependCopyReads DEF PrependPlaces
            <4>3. QED
                BY <4>1, <4>2
        <3>3. /\ view[l].length + view[r].length = view[r].length + view[l].length
              /\ view[r].length + view[l].length \in Nat
            BY <1>3
        <3>4. BindWhole(d, p, view[r].length + view[l].length, Ended(r))
            BY <3>1, <3>3
        <3>5. QED
            BY <1>1, <1>3, <3>2, <3>3, <3>4, WholeReads
    <2>4. QED
        BY <2>1, <2>2, <2>3
<1>5. QED
    BY <1>1, <1>2, <1>3, <1>4

-----------------------------------------------------------------------------
(* The theorems. *)

LEMMA InitWInv == Init => WInv(Alone)
<1> SUFFICES ASSUME Init PROVE WInv(Alone)
    OBVIOUS
<1>1. Held(Alone)
    BY InitHeld
<1>2. heap = [o \in Owners |-> Freed] /\ live = {}
    BY DEF Init
<1>3. \A o \in Owners : ~(heap[o].references >= 1)
    BY <1>2 DEF Freed
<1>4. QED
    BY <1>1, <1>2, <1>3 DEF WInv, OwnersReadable, Windows

LEMMA SameWInv ==
    ASSUME NEW extra \in [Owners -> Nat], WInv(extra), Held(extra)', UNCHANGED vars
    PROVE  WInv(extra)' /\ Steady(extra)
<1>1. heap' = heap /\ live' = live /\ view' = view /\ lender' = lender
    BY DEF vars
<1>2. OwnersReadable(extra)' /\ Windows'
    BY <1>1 DEF WInv, OwnersReadable, Windows
<1>3. \A o \in Owners : extra[o] >= 1 => Serves(heap, heap, o)
    <2> SUFFICES ASSUME NEW o \in Owners, extra[o] >= 1 PROVE heap[o].references >= 1
        BY DEF Serves
    <2>1. heap[o].references >= extra[o] /\ heap[o].references \in Nat /\ extra[o] \in Nat
        BY HeldAliveAlways, TypeFacts DEF WInv, HeldAlive, Held, IInv
    <2>2. QED
        BY <2>1
<1>4. Steady(extra)
    BY <1>1, <1>3 DEF Steady, Calm
<1>5. QED
    BY <1>2, <1>4 DEF WInv

LEMMA NextWInv ==
    ASSUME ~AliasedOperands, NEW extra \in [Owners -> Nat], WInv(extra), [Next]_vars
    PROVE  WInv(extra)' /\ Steady(extra)
<1>0. Held(extra)'
    BY NextHeld DEF WInv
<1>1. CASE UNCHANGED vars
    BY <1>0, <1>1, SameWInv
<1>2. CASE \E d \in Bindings, content \in Inputs : SymbolFrom(d, content)
    BY <1>0, <1>2, FromReads
<1>3. CASE \E d \in Bindings, o \in Statics : SymbolLiteral(d, o)
    BY <1>0, <1>3, LiteralReads
<1>4. CASE \E s, d \in Bindings : Alias(s, d)
    BY <1>0, <1>4, AliasReads
<1>5. CASE \E s, d \in Bindings : Share(s, d)
    BY <1>0, <1>5, ShareReads
<1>6. CASE \E s, d \in Bindings : \E offset, length \in 0..MaxLength : Slice(s, d, offset, length)
    BY <1>0, <1>6, SliceReads
<1>7. CASE \E b \in Bindings : Drop(b)
    BY <1>0, <1>7, DropReads
<1>8. CASE \E l, r, d \in Bindings : Concatenate(l, r, d)
    BY <1>0, <1>8, ConcatenateReads
<1>9. CASE \E l, r, d \in Bindings : ConsumingLeft(l, r, d)
    BY <1>0, <1>9, ConsumingLeftReads
<1>10. CASE \E l, r, d \in Bindings : ConsumingRight(l, r, d)
    BY <1>0, <1>10, ConsumingRightReads
<1>11. QED
    BY <1>1, <1>2, <1>3, <1>4, <1>5, <1>6, <1>7, <1>8, <1>9, <1>10 DEF Next

LEMMA WInvReadable ==
    ASSUME NEW extra \in [Owners -> Nat], WInv(extra)
    PROVE  ViewsReadable
<1> SUFFICES ASSUME NEW b \in live
             PROVE  /\ view[b].owner \in Owners =>
                          LET h == heap[view[b].owner]
                          IN  /\ h.references > 0
                              /\ h.start <= view[b].data
                              /\ view[b].data + view[b].length <= h.start + h.length
                    /\ \A i \in 1..view[b].length :
                          Read(heap, view[b].owner, view[b].data, view[b].length)[i] # Junk
    BY DEF ViewsReadable
<1>1. InWindow(heap, view[b])
    BY DEF WInv, Windows
<1>2. \A o \in Owners : heap[o].references \in Nat
    BY TypeFacts DEF WInv, Held, IInv
<1>3. /\ Len(Contents(b)) = view[b].length
      /\ \A i \in 1..Len(Contents(b)) : Contents(b)[i] # Junk
    BY ContentsFacts
<1>4. \A i \in 1..view[b].length :
          Read(heap, view[b].owner, view[b].data, view[b].length)[i] # Junk
    BY <1>3 DEF Contents
<1>5. QED
    BY <1>1, <1>2, <1>4 DEF InWindow

LEMMA WInvInvariant ==
    ASSUME ~AliasedOperands
    PROVE  Spec => []WInv(Alone)
<1>1. WInv(Alone) /\ [Next]_vars => WInv(Alone)'
    BY NextWInv, AloneType
<1>2. QED
    BY <1>1, InitWInv, PTL DEF Spec

\* While no concatenation consumes a binding and reads its alias, every binding that holds a
\* value is a window onto initialised bytes of a live owner: after every append, prepend and
\* realloc of bytes.c, whatever was shared, sliced or borrowed before.
THEOREM WindowsCorrect ==
    ASSUME ~AliasedOperands
    PROVE  Spec => []ViewsReadable
<1>1. WInv(Alone) => ViewsReadable
    BY WInvReadable, AloneType
<1>2. QED
    BY <1>1, WInvInvariant, PTL

\* Storage is extended in place only under the one view that covers it: a step that changes
\* the length of an owner that goes on serving finds at most one binding on it.
THEOREM ExtensionsUnshared ==
    ASSUME ~AliasedOperands
    PROVE  Spec => ExtendsOnlyUnshared
<1>1. WInv(Alone) /\ [Next]_vars
      => [\A o \in Owners :
            heap[o].references > 0 /\ heap'[o].references > 0 /\ heap'[o].length # heap[o].length
            => \A b, c \in live : view[b].owner = o /\ view[c].owner = o => b = c]_vars
    BY NextWInv, AloneType DEF Steady, Calm, Sole
<1>2. QED
    BY <1>1, WInvInvariant, PTL DEF Spec, ExtendsOnlyUnshared

-----------------------------------------------------------------------------
(* The refinement. *)

ValueNow == [b \in live |-> Contents(b)]

LEMMA BecomesValue ==
    ASSUME NEW d, NEW content, NEW ended, Becomes(d, content, ended)
    PROVE  Values!Become(d, content, ended)
<1>1. /\ d \in Bindings \ live /\ live' = (live \ ended) \cup {d} /\ Contents(d)' = content
      /\ \A b \in live \ ended : Contents(b)' = Contents(b)
    BY DEF Becomes
<1>2. ValueNow' = [b \in live' |-> Contents(b)']
    BY DEF ValueNow
<1>3. \A b \in live' : Contents(b)' = IF b = d THEN content ELSE ValueNow[b]
    BY <1>1 DEF ValueNow
<1>4. ValueNow' = [b \in (live \ ended) \cup {d} |-> IF b = d THEN content ELSE ValueNow[b]]
    BY <1>1, <1>2, <1>3
<1>5. DOMAIN ValueNow = live
    BY DEF ValueNow
<1>6. QED
    BY <1>1, <1>4, <1>5 DEF Values!Become, Values!InUse, ValueNow

LEMMA ValueAt ==
    ASSUME NEW b \in live
    PROVE  b \in DOMAIN ValueNow /\ ValueNow[b] = Contents(b)
BY DEF ValueNow

\* A share or an alias is the slice of all of it.
LEMMA WholeSlice ==
    ASSUME NEW extra \in [Owners -> Nat], WInv(extra), NEW s \in live, NEW d, Becomes(d, Contents(s), {})
    PROVE  Values!Slice(s, d)
<1> DEFINE c == Contents(s)
           n == Len(c)
<1>1. c \in Seq(Cell) /\ n \in Nat
    BY ContentsFacts
<1>2. SubSeq(c, 1, n) = c
    BY <1>1
<1>3. Values!Become(d, SubSeq(c, 1, n), {})
    BY <1>2, BecomesValue
<1>4. s \in DOMAIN ValueNow /\ ValueNow[s] = c
    BY ValueAt
<1>5. 1 \in 1..n + 1 /\ n \in 0..n
    BY <1>1
<1>6. QED
    BY <1>3, <1>4, <1>5 DEF Values!Slice, Values!InUse, ValueNow

LEMMA PartSlice ==
    ASSUME NEW extra \in [Owners -> Nat], WInv(extra), NEW s \in live, NEW d, NEW offset \in Nat, NEW n \in Nat,
           offset + n <= Len(Contents(s)),
           Becomes(d, SubSeq(Contents(s), offset + 1, offset + n), {})
    PROVE  Values!Slice(s, d)
<1> DEFINE c == Contents(s)
           first == offset + 1
           last == offset + n
<1>1. Len(c) \in Nat
    BY ContentsFacts
<1>2. Values!Become(d, SubSeq(c, first, last), {})
    BY BecomesValue
<1>3. s \in DOMAIN ValueNow /\ ValueNow[s] = c
    BY ValueAt
<1>4. first \in 1..Len(c) + 1 /\ last \in 0..Len(c)
    BY <1>1
<1> HIDE DEF first, last
<1>5. QED
    BY <1>2, <1>3, <1>4 DEF Values!Slice, Values!InUse, ValueNow

LEMMA JoinConcatenate ==
    ASSUME NEW l \in live, NEW r \in live, NEW d, NEW ended \in SUBSET {l, r},
           Len(Contents(l)) + Len(Contents(r)) <= MaxLength,
           Becomes(d, Contents(l) \o Contents(r), ended)
    PROVE  Values!Concatenate(l, r, d)
<1>1. /\ l \in DOMAIN ValueNow /\ ValueNow[l] = Contents(l)
      /\ r \in DOMAIN ValueNow /\ ValueNow[r] = Contents(r)
    BY ValueAt
<1>2. Values!Become(d, Contents(l) \o Contents(r), ended)
    BY BecomesValue
<1>3. QED
    BY <1>1, <1>2 DEF Values!Concatenate, Values!InUse, ValueNow

\* Every step of the runtime is a step of the values or leaves them alone.
LEMMA NextValue ==
    ASSUME ~AliasedOperands, NEW extra \in [Owners -> Nat], WInv(extra), [Next]_vars
    PROVE  [Values!Next]_ValueNow
<1>0. Held(extra)'
    BY NextHeld DEF WInv
<1>a. live \subseteq Bindings
    BY WInvFacts
<1>1. CASE UNCHANGED vars
    BY <1>1 DEF vars, ValueNow, Contents
<1>2. CASE \E d \in Bindings, content \in Inputs : SymbolFrom(d, content)
    <2>1. PICK d \in Bindings, content \in Inputs : Values!Become(d, content, {})
        BY <1>0, <1>2, FromReads, BecomesValue
    <2>2. Values!Introduce(d)
        BY <2>1 DEF Values!Introduce
    <2>3. QED
        BY <2>2 DEF Values!Next
<1>3. CASE \E d \in Bindings, o \in Statics : SymbolLiteral(d, o)
    <2>1. PICK d \in Bindings, o \in Statics : Values!Become(d, StaticBytes[o], {})
        BY <1>0, <1>3, LiteralReads, BecomesValue
    <2>2. Values!Introduce(d)
        BY <2>1 DEF Values!Introduce
    <2>3. QED
        BY <2>2 DEF Values!Next
<1>4. CASE \E s, d \in Bindings : Alias(s, d)
    <2>1. PICK s \in Bindings, d \in Bindings : Alias(s, d)
        BY <1>4
    <2>2. s \in live
        BY <2>1 DEF Alias
    <2>3. Values!Slice(s, d)
        BY <1>0, <2>1, <2>2, AliasReads, WholeSlice
    <2>4. QED
        BY <2>3 DEF Values!Next
<1>5. CASE \E s, d \in Bindings : Share(s, d)
    <2>1. PICK s \in Bindings, d \in Bindings : Share(s, d)
        BY <1>5
    <2>2. s \in live
        BY <2>1 DEF Share
    <2>3. Values!Slice(s, d)
        BY <1>0, <2>1, <2>2, ShareReads, WholeSlice
    <2>4. QED
        BY <2>3 DEF Values!Next
<1>6. CASE \E s, d \in Bindings : \E offset, length \in 0..MaxLength : Slice(s, d, offset, length)
    <2>1. PICK s \in Bindings, d \in Bindings, offset \in 0..MaxLength, n \in 0..MaxLength :
            Slice(s, d, offset, n)
        BY <1>6
    <2>2. /\ s \in live /\ offset + n <= Len(Contents(s))
          /\ Becomes(d, SubSeq(Contents(s), offset + 1, offset + n), {})
        BY <1>0, <2>1, SliceReads
    <2>3. offset \in Nat /\ n \in Nat
        BY Sizes
    <2>4. Values!Slice(s, d)
        BY <2>2, <2>3, PartSlice
    <2>5. QED
        BY <2>4 DEF Values!Next
<1>7. CASE \E b \in Bindings : Drop(b)
    <2>1. PICK b \in Bindings : Drop(b)
        BY <1>7
    <2>2. b \in live /\ live' = live \ {b} /\ \A c \in live \ {b} : Contents(c)' = Contents(c)
        BY <1>0, <2>1, DropReads
    <2>3. ValueNow' = [c \in live \ {b} |-> ValueNow[c]]
        BY <2>2 DEF ValueNow
    <2>4. DOMAIN ValueNow = live
        BY DEF ValueNow
    <2>5. Values!End(b)
        BY <2>2, <2>3, <2>4 DEF Values!End, Values!InUse, ValueNow
    <2>6. QED
        BY <2>5 DEF Values!Next
<1>8. CASE \E l, r, d \in Bindings : Concatenate(l, r, d)
    <2>1. PICK l \in Bindings, r \in Bindings, d \in Bindings : Concatenate(l, r, d)
        BY <1>8
    <2>2. Values!Concatenate(l, r, d)
        BY <1>0, <2>1, ConcatenateReads, JoinConcatenate
    <2>3. QED
        BY <2>2 DEF Values!Next
<1>9. CASE \E l, r, d \in Bindings : ConsumingLeft(l, r, d)
    <2>1. PICK l \in Bindings, r \in Bindings, d \in Bindings : ConsumingLeft(l, r, d)
        BY <1>9
    <2>2. /\ l \in live /\ r \in live /\ Len(Contents(l)) + Len(Contents(r)) <= MaxLength
          /\ Becomes(d, Contents(l) \o Contents(r), {l})
        BY <1>0, <2>1, ConsumingLeftReads
    <2>3. {l} \in SUBSET {l, r}
        OBVIOUS
    <2>4. Values!Concatenate(l, r, d)
        BY <2>2, <2>3, JoinConcatenate
    <2>5. QED
        BY <2>4 DEF Values!Next
<1>10. CASE \E l, r, d \in Bindings : ConsumingRight(l, r, d)
    <2>1. PICK l \in Bindings, r \in Bindings, d \in Bindings : ConsumingRight(l, r, d)
        BY <1>10
    <2>2. /\ l \in live /\ r \in live /\ Len(Contents(l)) + Len(Contents(r)) <= MaxLength
          /\ Becomes(d, Contents(l) \o Contents(r), {r})
        BY <1>0, <2>1, ConsumingRightReads
    <2>3. {r} \in SUBSET {l, r}
        OBVIOUS
    <2>4. Values!Concatenate(l, r, d)
        BY <2>2, <2>3, JoinConcatenate
    <2>5. QED
        BY <2>4 DEF Values!Next
<1>11. QED
    BY <1>1, <1>2, <1>3, <1>4, <1>5, <1>6, <1>7, <1>8, <1>9, <1>10 DEF Next

LEMMA InitValue == Init => Values!Init
<1> SUFFICES ASSUME Init PROVE ValueNow = <<>>
    BY DEF Values!Init, ValueNow
<1>1. live = {}
    BY DEF Init
<1>2. DOMAIN ValueNow = {} /\ ValueNow = [b \in {} |-> Contents(b)]
    BY <1>1 DEF ValueNow
<1>3. QED
    BY <1>2

\* Every run of the runtime is a run of immutable Symbol values: no extension in place, realloc
\* or shared owner of bytes.c ever changes what another binding reads, and what an operation
\* of symbol.c binds is the slice or the concatenation it is named for.
THEOREM ImplementsValuesCorrect ==
    ASSUME ~AliasedOperands
    PROVE  Spec => ImplementsValues
<1>1. WInv(Alone) /\ [Next]_vars => [Values!Next]_ValueNow
    BY NextValue, AloneType
<1>2. QED
    BY <1>1, WInvInvariant, InitValue, PTL DEF Spec, ImplementsValues, Values!Spec, ValueNow

=============================================================================

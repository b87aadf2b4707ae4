-------------------------------- MODULE Pool --------------------------------
(***************************************************************************)
(* The Pool kernel with managed carriers (pool.c): a stable object with a  *)
(* header, an occupancy bitmap and payload storage that growth relocates.  *)
(* The bitmap is copied by whole bytes and the coordinates that later      *)
(* growth adds take the bits found there, so that the bits above the       *)
(* capacity must be clear.  Coordinates in range are the caller's duty.    *)
(***************************************************************************)
EXTENDS Integers, FiniteSets

CONSTANTS
    Objects,            \* counted objects that carriers refer to
    Vacant,             \* no carrier
    Zeroed,             \* a payload cell nothing was stored in
    BitsPerByte,        \* 8
    SizeMax,            \* SIZE_MAX, in coordinates
    GrowthCapacity(_, _), \* mal_pool_growth_capacity (StorageCapacities)
    MaxHeld             \* references to one object the program holds (bound)

ASSUME PoolAssumption ==
    /\ IsFiniteSet(Objects) /\ Vacant \notin Objects /\ Zeroed \notin Objects /\ Zeroed # Vacant
    /\ BitsPerByte \in Nat \ {0} /\ SizeMax \in Nat /\ MaxHeld \in Nat \ {0}

ASSUME GrowthAssumption ==
    \A current, required \in 0..SizeMax :
        GrowthCapacity(current, required) \in required..SizeMax

VARIABLES
    references,     \* the count in each object's header; 0 is destroyed
    held,           \* the references the program is responsible for
    open,           \* whether the Pool exists
    header,         \* the header carrier
    capacity,       \* the coordinates of the program
    physical,       \* the coordinates the backing has room for
    live,           \* the bitmap: the coordinates whose bit is set
    payload,        \* the cells of the backing
    result,         \* the carrier the last operation wrote for the program
    trapped         \* whether mal_trap has ended the program

counts == <<references, held>>
pool == <<open, header, capacity, physical, live, payload>>
vars == <<counts, pool, result, trapped>>

Init ==
    /\ references = [x \in Objects |-> 0]
    /\ held = [x \in Objects |-> 0]
    /\ open = FALSE /\ header = Vacant /\ capacity = 0 /\ physical = 0 /\ live = {} /\ payload = <<>>
    /\ result = Vacant
    /\ trapped = FALSE

\* Mutant of BitmapBytes: a byte used in part does not count.
FullBytes(n) == n \div BitsPerByte

\* mal_pool_bitmap_size, and the coordinates whose bits lie in those bytes.
BitmapBytes(n) == n \div BitsPerByte + (IF n % BitsPerByte # 0 THEN 1 ELSE 0)
BitmapOf(n) == 0..BitmapBytes(n) * BitsPerByte - 1

Coordinates == 0..capacity - 1

Retains(x) ==
    /\ held[x] < MaxHeld
    /\ references' = [references EXCEPT ![x] = @ + 1]
    /\ held' = [held EXCEPT ![x] = @ + 1]

-----------------------------------------------------------------------------
(* The program's own references. *)

Create(x) ==
    /\ ~trapped /\ references[x] = 0
    /\ references' = [references EXCEPT ![x] = 1]
    /\ held' = [held EXCEPT ![x] = 1]
    /\ UNCHANGED <<pool, result, trapped>>

Retain(x) ==
    /\ ~trapped /\ held[x] > 0
    /\ Retains(x)
    /\ UNCHANGED <<pool, result, trapped>>

Release(x) ==
    /\ ~trapped /\ held[x] > 0
    /\ references' = [references EXCEPT ![x] = @ - 1]
    /\ held' = [held EXCEPT ![x] = @ - 1]
    /\ UNCHANGED <<pool, result, trapped>>

-----------------------------------------------------------------------------
(* The Pool's operations. *)

\* make adopts the header carrier.
Make(x) ==
    /\ ~trapped /\ ~open /\ held[x] > 0
    /\ open' = TRUE /\ header' = x /\ capacity' = 0 /\ physical' = 0 /\ live' = {} /\ payload' = <<>>
    /\ held' = [held EXCEPT ![x] = @ - 1]
    /\ UNCHANGED <<references, result, trapped>>

GrowOverflow(n) ==
    /\ ~trapped /\ open /\ n > SizeMax - capacity
    /\ trapped' = TRUE
    /\ UNCHANGED <<counts, pool, result>>

GrowInPlace(n) ==
    /\ ~trapped /\ open /\ n <= SizeMax - capacity
    /\ capacity + n <= physical
    /\ capacity' = capacity + n
    /\ UNCHANGED <<counts, open, header, physical, live, payload, result, trapped>>

\* Mutant of Relocated: the new storage is not cleared, and a bit there happens to be set.
RelocatedUncleared(n, next) ==
    /\ physical' = next
    /\ live' = (live \cap BitmapOf(capacity)) \cup ((0..next - 1) \ BitmapOf(capacity))
    /\ payload' = [i \in 0..next - 1 |-> IF i < capacity THEN payload[i] ELSE Zeroed]

\* Mutant of Relocated: the physical capacity is not updated.
RelocatedAtOldSize(n, next) ==
    /\ live' = live \cap BitmapOf(capacity)
    /\ payload' = [i \in 0..next - 1 |-> IF i < capacity THEN payload[i] ELSE Zeroed]
    /\ UNCHANGED physical

\* The bits of whole bytes and the payload of the old coordinates, in zeroed storage.
Relocated(n, next) ==
    /\ physical' = next
    /\ live' = live \cap BitmapOf(capacity)
    /\ payload' = [i \in 0..next - 1 |-> IF i < capacity THEN payload[i] ELSE Zeroed]

GrowRelocating(n) ==
    /\ ~trapped /\ open /\ n <= SizeMax - capacity
    /\ capacity + n > physical
    /\ Relocated(n, GrowthCapacity(physical, capacity + n))
    /\ capacity' = capacity + n
    /\ UNCHANGED <<counts, open, header, result, trapped>>

\* peek_managed: the carrier is copied and its object retained.
Peek(i) ==
    /\ ~trapped /\ open /\ i \in Coordinates
    /\ IF i \in live
       THEN result' = payload[i] /\ Retains(payload[i])
       ELSE result' = Vacant /\ UNCHANGED counts
    /\ UNCHANGED <<pool, trapped>>

\* Moving a carrier to the program and another, if any, from it.
Exchanges(old, next) ==
    /\ next # Vacant => held[next] > 0
    /\ old # Vacant /\ old # next => held[old] < MaxHeld
    /\ result' = old
    /\ held' = [x \in Objects |-> held[x] + (IF x = old THEN 1 ELSE 0) - (IF x = next THEN 1 ELSE 0)]
    /\ UNCHANGED references

\* mal_pool_set_live: the bit of one coordinate, set or cleared.
WithLive(i, next) == IF next = Vacant THEN live \ {i} ELSE live \cup {i}

Swap(i, next) ==
    /\ ~trapped /\ open /\ i \in Coordinates
    /\ Exchanges(IF i \in live THEN payload[i] ELSE Vacant, next)
    /\ live' = WithLive(i, next)
    /\ payload' = IF next = Vacant THEN payload ELSE [payload EXCEPT ![i] = next]
    /\ UNCHANGED <<open, header, capacity, physical, trapped>>

\* header_managed.
PeekHeader ==
    /\ ~trapped /\ open
    /\ result' = header /\ Retains(header)
    /\ UNCHANGED <<pool, trapped>>

SwapHeader(next) ==
    /\ ~trapped /\ open
    /\ Exchanges(header, next)
    /\ header' = next
    /\ UNCHANGED <<open, capacity, physical, live, payload, trapped>>

\* The coordinates in range that hold x.
Holding(x) == {i \in Coordinates : i \in live /\ payload[i] = x}

\* Mutant of Destroy: only the elements are released.
DestroyKeepsHeader ==
    /\ ~trapped /\ open
    /\ references' = [x \in Objects |-> references[x] - Cardinality(Holding(x))]
    /\ open' = FALSE /\ header' = Vacant
    /\ capacity' = 0 /\ physical' = 0 /\ live' = {} /\ payload' = <<>>
    /\ UNCHANGED <<held, result, trapped>>

\* The last release of the Pool: mal_managed_pool_destroy releases every stored carrier.
Destroy ==
    /\ ~trapped /\ open
    /\ references' = [x \in Objects |-> references[x] - Cardinality(Holding(x))
                                                      - (IF x = header THEN 1 ELSE 0)]
    /\ open' = FALSE /\ header' = Vacant
    /\ capacity' = 0 /\ physical' = 0 /\ live' = {} /\ payload' = <<>>
    /\ UNCHANGED <<held, result, trapped>>

Next ==
    \/ \E x \in Objects : Create(x) \/ Retain(x) \/ Release(x) \/ Make(x) \/ SwapHeader(x)
    \/ \E n \in 0..SizeMax : GrowOverflow(n) \/ GrowInPlace(n) \/ GrowRelocating(n)
    \/ \E i \in Coordinates : Peek(i) \/ \E next \in Objects \cup {Vacant} : Swap(i, next)
    \/ PeekHeader \/ Destroy

Spec == Init /\ [][Next]_vars

-----------------------------------------------------------------------------
(* Properties. *)

PayloadTypeOK == payload \in [0..physical - 1 -> Objects \cup {Zeroed}]

\* The Pool has the shape of MalPool: its capacity is within the physical one.
PoolTypeOK ==
    /\ references \in [Objects -> Nat] /\ held \in [Objects -> Nat]
    /\ result \in Objects \cup {Vacant} /\ trapped \in BOOLEAN
    /\ open \in BOOLEAN /\ header \in Objects \cup {Vacant}
    /\ IF open THEN header \in Objects ELSE physical = 0
    /\ physical \in 0..SizeMax /\ capacity \in 0..physical
    /\ PayloadTypeOK

\* Only coordinates in range are marked as live, so that growth really adds vacant ones, and
\* what is live was stored: no zeroed carrier is ever released or given out.
LiveWithinCapacity ==
    /\ live \subseteq Coordinates
    /\ \A i \in live : payload[i] \in Objects

\* Every object has exactly the references of the program, of the header and of the live
\* coordinates: swaps and growth neither lose nor repeat one, and destruction leaves none.
ReferencesMatchCarriers ==
    \A x \in Objects :
        references[x] = held[x] + Cardinality({i \in live : payload[i] = x})
                                + (IF open /\ header = x THEN 1 ELSE 0)

\* A Pool behaves as its coordinates and header alone, whatever moves below (runtime.h:286-291).
Slots == [i \in Coordinates |-> IF i \in live THEN payload[i] ELSE Vacant]
Values == INSTANCE PoolValues WITH slots <- Slots, Amounts <- 0..SizeMax
ImplementsPoolValues == Values!Spec
=============================================================================

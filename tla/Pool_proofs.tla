---------------------------- MODULE Pool_proofs ----------------------------
(***************************************************************************)
(* Proofs about the Pool kernel for every number of coordinates, bits per  *)
(* byte, SIZE_MAX and growth policy that allocates what is required.       *)
(***************************************************************************)
EXTENDS Pool, StorageCapacities, FiniteSetTheorems, NaturalsInduction, WellFoundedInduction, TLAPS

\* The bitmap of n coordinates has a bit for each of them.
LEMMA BitmapCovers == ASSUME NEW n \in Nat PROVE 0..n - 1 \subseteq BitmapOf(n)
<1> DEFINE q == n \div BitsPerByte
           r == n % BitsPerByte
<1>1. BitsPerByte \in Nat /\ BitsPerByte > 0
  BY PoolAssumption
<1>2. /\ q \in Nat /\ r \in 0..BitsPerByte - 1
      /\ n = BitsPerByte * q + r
  BY <1>1, SMT
<1>3. n <= BitmapBytes(n) * BitsPerByte
  <2>1. CASE r = 0
    BY <1>1, <1>2, <2>1, SMT DEF BitmapBytes
  <2>2. CASE r # 0
    BY <1>1, <1>2, <2>2, SMT DEF BitmapBytes
  <2> QED BY <2>1, <2>2
<1>4. BitmapBytes(n) * BitsPerByte \in Nat
  BY <1>1, <1>2, SMT DEF BitmapBytes
<1> QED BY <1>3, <1>4 DEF BitmapOf

\* No cells: the payload of a Pool that has not grown.
LEMMA NoPayload == \A S : <<>> \in [0..0 - 1 -> S]
<1>1. 0..0 - 1 = {} /\ DOMAIN <<>> = {}
  OBVIOUS
<1>2. <<>> = [i \in {} |-> i]
  OBVIOUS
<1> QED BY <1>1, <1>2

LEMMA ClosedPayload ==
    \A cells, n : n = 0 /\ cells = <<>> => cells \in [0..n - 1 -> Objects \cup {Zeroed}]
<1>1. <<>> \in [0..0 - 1 -> Objects \cup {Zeroed}]
  BY NoPayload
<1> QED BY <1>1

\* The live coordinates that hold x, in range or not.
Carrying(x) == {i \in live : payload[i] = x}

\* The inductive invariant: types, a clean bitmap, and the counts, without which a release
\* could take a count below zero.
IInv == PoolTypeOK /\ LiveWithinCapacity /\ ReferencesMatchCarriers

\* The counts in terms of Carrying, whose sets are finite.
LEMMA CarryingFinite ==
    ASSUME PoolTypeOK, LiveWithinCapacity
    PROVE  \A x \in Objects : IsFiniteSet(Carrying(x)) /\ Cardinality(Carrying(x)) \in Nat
<1>1. IsFiniteSet(0..capacity - 1)
  BY FS_Interval DEF PoolTypeOK, PayloadTypeOK
<1>2. \A x : Carrying(x) \subseteq 0..capacity - 1
  BY DEF Carrying, LiveWithinCapacity, Coordinates
<1> QED BY <1>1, <1>2, FS_Subset, FS_CardinalityType

LEMMA InitIInv == Init => IInv
<1> SUFFICES ASSUME Init PROVE IInv
  OBVIOUS
<1>1. PayloadTypeOK
  BY ClosedPayload DEF Init, PayloadTypeOK
<1>2. references \in [Objects -> Nat] /\ held \in [Objects -> Nat]
  BY DEF Init
<1>0. PoolTypeOK /\ LiveWithinCapacity
  <2>1. /\ result = Vacant /\ trapped = FALSE /\ open = FALSE /\ header = Vacant
        /\ capacity = 0 /\ physical = 0 /\ live = {}
    BY DEF Init
  <2>2. 0 \in 0..SizeMax /\ 0 \in 0..0
    BY PoolAssumption
  <2>3. PoolTypeOK
    BY <1>1, <1>2, <2>1, <2>2, Zenon DEF PoolTypeOK
  <2> QED BY <2>1, <2>3 DEF LiveWithinCapacity
<1>3. \A x \in Objects : {i \in live : payload[i] = x} = {}
  BY DEF Init
<1>4. ReferencesMatchCarriers
  BY <1>3, FS_EmptySet DEF Init, ReferencesMatchCarriers
<1> QED BY <1>0, <1>4 DEF IInv

\* A reference more to one object, for the program; the carriers stay.
LEMMA RetainsKeeps ==
    ASSUME IInv, NEW x \in Objects, Retains(x), UNCHANGED pool,
           result' \in Objects \cup {Vacant}, trapped' \in BOOLEAN
    PROVE  IInv'
<1>1. PoolTypeOK' /\ LiveWithinCapacity'
  BY DEF IInv, PoolTypeOK, PayloadTypeOK, LiveWithinCapacity, Coordinates, Retains, pool
<1>2. \A y \in Objects : Carrying(y)' = Carrying(y)
  BY DEF Carrying, pool
<1>3. \A y \in Objects : Cardinality(Carrying(y)) \in Nat
  BY CarryingFinite DEF IInv
<1>4. ASSUME NEW y \in Objects
      PROVE  references'[y] = held'[y] + Cardinality(Carrying(y)')
                                + (IF open' /\ header' = y THEN 1 ELSE 0)
  <2>1. references[y] = held[y] + Cardinality(Carrying(y)) + (IF open /\ header = y THEN 1 ELSE 0)
    BY DEF IInv, ReferencesMatchCarriers, Carrying
  <2>2. /\ references'[y] = references[y] + (IF x = y THEN 1 ELSE 0)
        /\ held'[y] = held[y] + (IF x = y THEN 1 ELSE 0)
    BY DEF IInv, PoolTypeOK, PayloadTypeOK, Retains
  <2> QED BY <1>2, <1>3, <2>1, <2>2 DEF pool, IInv, PoolTypeOK, PayloadTypeOK
<1>5. ReferencesMatchCarriers'
  BY <1>4 DEF ReferencesMatchCarriers, Carrying
<1> QED BY <1>1, <1>5 DEF IInv

\* What an exchange does to the counts.
LEMMA ExchangesCounts ==
    ASSUME IInv, NEW old \in Objects \cup {Vacant}, NEW next \in Objects \cup {Vacant},
           Exchanges(old, next)
    PROVE  /\ references' = references
           /\ held' \in [Objects -> Nat]
           /\ result' \in Objects \cup {Vacant}
           /\ \A x \in Objects : held'[x] = held[x] + (IF x = old THEN 1 ELSE 0)
                                                    - (IF x = next THEN 1 ELSE 0)
<1>1. \A x \in Objects :
        held[x] + (IF x = old THEN 1 ELSE 0) - (IF x = next THEN 1 ELSE 0) \in Nat
  BY PoolAssumption DEF IInv, PoolTypeOK, PayloadTypeOK, Exchanges
<1> QED BY <1>1 DEF IInv, PoolTypeOK, PayloadTypeOK, Exchanges

\* Relocation keeps the bits of all coordinates and their cells.
LEMMA RelocatedKeeps ==
    ASSUME IInv, NEW n \in 0..SizeMax, GrowRelocating(n)
    PROVE  /\ live' = live
           /\ physical' \in 0..SizeMax /\ capacity' \in 0..physical' /\ capacity' = capacity + n
           /\ payload' \in [0..physical' - 1 -> Objects \cup {Zeroed}]
           /\ \A i \in Coordinates : i \in 0..physical' - 1 /\ payload'[i] = payload[i]
<1>1. capacity \in Nat /\ capacity + n \in 0..SizeMax /\ physical \in 0..SizeMax
  BY PoolAssumption DEF IInv, PoolTypeOK, PayloadTypeOK, GrowRelocating
<1>2. GrowthCapacity(physical, capacity + n) \in (capacity + n)..SizeMax
  BY <1>1, GrowthAssumption
<1>3. live \subseteq BitmapOf(capacity)
  BY <1>1, BitmapCovers DEF IInv, LiveWithinCapacity, Coordinates
<1>4. live' = live
  BY <1>3 DEF GrowRelocating, Relocated
<1>5. physical' \in 0..SizeMax /\ capacity' \in 0..physical' /\ capacity <= physical'
  BY <1>1, <1>2, PoolAssumption DEF GrowRelocating, Relocated
<1>6. \A i \in Coordinates : payload[i] \in Objects \cup {Zeroed}
  BY <1>1 DEF IInv, PoolTypeOK, PayloadTypeOK, Coordinates
<1>7. payload' = [i \in 0..physical' - 1 |-> IF i < capacity THEN payload[i] ELSE Zeroed]
  BY DEF GrowRelocating, Relocated
<1>8. capacity' = capacity + n
  BY DEF GrowRelocating
<1>9. payload' \in [0..physical' - 1 -> Objects \cup {Zeroed}]
  <2>1. ASSUME NEW i \in 0..physical' - 1
        PROVE  (IF i < capacity THEN payload[i] ELSE Zeroed) \in Objects \cup {Zeroed}
    <3>1. i < capacity => i \in Coordinates
      BY <1>1, <1>5, PoolAssumption DEF Coordinates
    <3> QED BY <1>6, <3>1
  <2> QED BY <1>7, <2>1
<1>10. \A i \in Coordinates : i \in 0..physical' - 1 /\ payload'[i] = payload[i]
  <2>0. physical' \in Nat /\ capacity <= physical' /\ capacity \in Nat
    BY <1>1, <1>5, PoolAssumption
  <2>1. ASSUME NEW i \in Coordinates PROVE i \in 0..physical' - 1 /\ i < capacity
    <3>1. \A m, k \in Nat : m <= k => \A j \in 0..m - 1 : j \in 0..k - 1 /\ j < m
      OBVIOUS
    <3>2. \A j \in 0..capacity - 1 : j \in 0..physical' - 1 /\ j < capacity
      BY <2>0, <3>1
    <3> QED BY <3>2 DEF Coordinates
  <2> QED BY <1>7, <2>1
<1> QED BY <1>4, <1>5, <1>8, <1>9, <1>10

\* The coordinates carrying an object after a swap.
LEMMA SwapCarrying ==
    ASSUME IInv, NEW i \in Coordinates, NEW next \in Objects \cup {Vacant}, Swap(i, next),
           NEW x \in Objects
    PROVE  LET old == IF i \in live THEN payload[i] ELSE Vacant
           IN  Cardinality(Carrying(x)') = Cardinality(Carrying(x)) - (IF x = old THEN 1 ELSE 0)
                                                                    + (IF x = next THEN 1 ELSE 0)
<1> DEFINE old == IF i \in live THEN payload[i] ELSE Vacant
<1>1. IsFiniteSet(Carrying(x)) /\ Cardinality(Carrying(x)) \in Nat
  BY CarryingFinite DEF IInv
<1>2. /\ live' = IF next = Vacant THEN live \ {i} ELSE live \cup {i}
      /\ \A j \in live : j # i => payload'[j] = payload[j]
      /\ next # Vacant => payload'[i] = next
  BY DEF IInv, PoolTypeOK, PayloadTypeOK, LiveWithinCapacity, Coordinates, Swap, WithLive
<1>3. x # Vacant
  BY PoolAssumption
<1>4. i \in Carrying(x) <=> x = old
  BY <1>3 DEF Carrying
<1>5. Carrying(x)' = IF x = next THEN Carrying(x) \cup {i} ELSE Carrying(x) \ {i}
  BY <1>2, <1>3 DEF Carrying
<1>6. /\ Cardinality(Carrying(x) \cup {i})
            = Cardinality(Carrying(x)) + (IF x = old THEN 0 ELSE 1)
      /\ Cardinality(Carrying(x) \ {i})
            = Cardinality(Carrying(x)) - (IF x = old THEN 1 ELSE 0)
  <2>1. CASE i \in Carrying(x)
    <3>1. Carrying(x) \cup {i} = Carrying(x)
      BY <2>1
    <3>2. Cardinality(Carrying(x) \ {i}) = Cardinality(Carrying(x)) - 1
      BY <1>1, <2>1, FS_RemoveElement
    <3> QED BY <1>1, <1>4, <2>1, <3>1, <3>2
  <2>2. CASE i \notin Carrying(x)
    <3>1. Carrying(x) \ {i} = Carrying(x)
      BY <2>2
    <3>2. Cardinality(Carrying(x) \cup {i}) = Cardinality(Carrying(x)) + 1
      BY <1>1, <2>2, FS_AddElement
    <3> QED BY <1>1, <1>4, <2>2, <3>1, <3>2
  <2> QED BY <2>1, <2>2
<1> QED BY <1>1, <1>5, <1>6

LEMMA SwapIInv ==
    ASSUME IInv, NEW i \in Coordinates, NEW next \in Objects \cup {Vacant}, Swap(i, next)
    PROVE  IInv'
<1> DEFINE old == IF i \in live THEN payload[i] ELSE Vacant
<1>1. old \in Objects \cup {Vacant} /\ Exchanges(old, next)
  BY DEF IInv, LiveWithinCapacity, Swap
<1> HIDE DEF old
<1>2. /\ references' = references /\ held' \in [Objects -> Nat]
      /\ result' \in Objects \cup {Vacant}
      /\ \A x \in Objects : held'[x] = held[x] + (IF x = old THEN 1 ELSE 0)
                                               - (IF x = next THEN 1 ELSE 0)
  BY <1>1, ExchangesCounts
<1>3. i \in 0..physical - 1 /\ payload \in [0..physical - 1 -> Objects \cup {Zeroed}]
  BY DEF IInv, PoolTypeOK, PayloadTypeOK, Coordinates
<1>4. payload' \in [0..physical - 1 -> Objects \cup {Zeroed}]
  BY <1>3 DEF Swap
<1>5. PoolTypeOK'
  BY <1>2, <1>4 DEF IInv, PoolTypeOK, PayloadTypeOK, Swap
<1>6. LiveWithinCapacity'
  <2>1. CASE next = Vacant
    BY <2>1 DEF IInv, LiveWithinCapacity, Coordinates, Swap, WithLive
  <2>2. CASE next \in Objects
    BY <2>2, <1>3, PoolAssumption DEF IInv, LiveWithinCapacity, Coordinates, Swap, WithLive
  <2> QED BY <2>1, <2>2
<1>7. ASSUME NEW x \in Objects
      PROVE  references'[x] = held'[x] + Cardinality(Carrying(x)')
                                + (IF open' /\ header' = x THEN 1 ELSE 0)
  <2>1. references[x] = held[x] + Cardinality(Carrying(x)) + (IF open /\ header = x THEN 1 ELSE 0)
    BY DEF IInv, ReferencesMatchCarriers, Carrying
  <2>2. Cardinality(Carrying(x)') = Cardinality(Carrying(x)) - (IF x = old THEN 1 ELSE 0)
                                                             + (IF x = next THEN 1 ELSE 0)
    BY SwapCarrying DEF old
  <2>3. held[x] \in Nat /\ Cardinality(Carrying(x)) \in Nat
    BY CarryingFinite DEF IInv, PoolTypeOK, PayloadTypeOK
  <2>4. open' = open /\ header' = header
    BY DEF Swap
  <2> QED BY <1>2, <2>1, <2>2, <2>3, <2>4
<1>8. ReferencesMatchCarriers'
  BY <1>7 DEF ReferencesMatchCarriers, Carrying
<1> QED BY <1>5, <1>6, <1>8 DEF IInv

LEMMA SwapHeaderIInv ==
    ASSUME IInv, NEW next \in Objects, SwapHeader(next)
    PROVE  IInv'
<1>1. header \in Objects /\ Exchanges(header, next)
  BY DEF IInv, PoolTypeOK, PayloadTypeOK, SwapHeader
<1>2. /\ references' = references /\ held' \in [Objects -> Nat]
      /\ result' \in Objects \cup {Vacant}
      /\ \A x \in Objects : held'[x] = held[x] + (IF x = header THEN 1 ELSE 0)
                                               - (IF x = next THEN 1 ELSE 0)
  BY <1>1, ExchangesCounts
<1>3. PoolTypeOK' /\ LiveWithinCapacity'
  BY <1>2 DEF IInv, PoolTypeOK, PayloadTypeOK, LiveWithinCapacity, Coordinates, SwapHeader
<1>4. ASSUME NEW x \in Objects
      PROVE  references'[x] = held'[x] + Cardinality(Carrying(x)')
                                + (IF open' /\ header' = x THEN 1 ELSE 0)
  <2>1. references[x] = held[x] + Cardinality(Carrying(x)) + (IF open /\ header = x THEN 1 ELSE 0)
    BY DEF IInv, ReferencesMatchCarriers, Carrying
  <2>2. Carrying(x)' = Carrying(x) /\ open /\ open' /\ header' = next
    BY DEF Carrying, SwapHeader
  <2>3. held[x] \in Nat /\ Cardinality(Carrying(x)) \in Nat
    BY CarryingFinite DEF IInv, PoolTypeOK, PayloadTypeOK
  <2> QED BY <1>2, <2>1, <2>2, <2>3
<1>5. ReferencesMatchCarriers'
  BY <1>4 DEF ReferencesMatchCarriers, Carrying
<1> QED BY <1>3, <1>5 DEF IInv

LEMMA GrowIInv ==
    ASSUME IInv, NEW n \in 0..SizeMax, GrowInPlace(n) \/ GrowRelocating(n)
    PROVE  IInv'
<1>1. /\ live' = live
      /\ \A i \in Coordinates : payload'[i] = payload[i]
      /\ PoolTypeOK' /\ capacity \in Nat /\ capacity' = capacity + n
  <2>1. CASE GrowInPlace(n)
    BY <2>1, PoolAssumption DEF IInv, PoolTypeOK, PayloadTypeOK, GrowInPlace, counts
  <2>2. CASE GrowRelocating(n)
    BY <2>2, RelocatedKeeps DEF IInv, PoolTypeOK, PayloadTypeOK, GrowRelocating, counts
  <2> QED BY <2>1, <2>2
<1>2. LiveWithinCapacity'
  BY <1>1 DEF IInv, LiveWithinCapacity, Coordinates
<1>3. \A x \in Objects : Carrying(x)' = Carrying(x)
  BY <1>1 DEF IInv, LiveWithinCapacity, Carrying
<1>4. UNCHANGED <<references, held, open, header>>
  BY DEF GrowInPlace, GrowRelocating, counts
<1>5. ReferencesMatchCarriers'
  BY <1>3, <1>4 DEF IInv, ReferencesMatchCarriers, Carrying
<1> QED BY <1>1, <1>2, <1>5 DEF IInv

LEMMA DestroyIInv == ASSUME IInv, Destroy PROVE IInv'
<1>1. \A x \in Objects : Holding(x) = Carrying(x)
  BY DEF IInv, LiveWithinCapacity, Holding, Carrying
<1>2. ASSUME NEW x \in Objects PROVE references'[x] = held[x] /\ Carrying(x)' = {}
  <2>1. references[x] = held[x] + Cardinality(Carrying(x)) + (IF open /\ header = x THEN 1 ELSE 0)
    BY DEF IInv, ReferencesMatchCarriers, Carrying
  <2>2. references'[x] = references[x] - Cardinality(Carrying(x)) - (IF x = header THEN 1 ELSE 0)
    BY <1>1 DEF Destroy
  <2>3. held[x] \in Nat /\ Cardinality(Carrying(x)) \in Nat
    BY CarryingFinite DEF IInv, PoolTypeOK, PayloadTypeOK
  <2> QED BY <2>1, <2>2, <2>3 DEF Destroy, Carrying
<1>3. references' \in [Objects -> Nat]
  BY <1>2 DEF Destroy, IInv, PoolTypeOK, PayloadTypeOK
<1>4. PoolTypeOK' /\ LiveWithinCapacity'
  <2>1. PayloadTypeOK'
    BY ClosedPayload DEF Destroy, PayloadTypeOK
  <2>2. /\ open' = FALSE /\ header' = Vacant /\ capacity' = 0 /\ physical' = 0 /\ live' = {}
        /\ held' = held /\ result' = result /\ trapped' = trapped
    BY DEF Destroy
  <2>3. 0 \in 0..SizeMax /\ 0 \in 0..0
    BY PoolAssumption
  <2>4. /\ held \in [Objects -> Nat] /\ result \in Objects \cup {Vacant} /\ trapped \in BOOLEAN
    BY DEF IInv, PoolTypeOK
  <2>5. PoolTypeOK'
    BY <1>3, <2>1, <2>2, <2>3, <2>4, Zenon DEF PoolTypeOK
  <2> QED BY <2>2, <2>5 DEF LiveWithinCapacity
<1>5. ReferencesMatchCarriers'
  <2>1. \A x \in Objects : held'[x] \in Nat /\ held' = held /\ open' = FALSE
    BY DEF Destroy, IInv, PoolTypeOK, PayloadTypeOK
  <2>2. \A x \in Objects : Cardinality(Carrying(x)') = 0
    BY <1>2, FS_EmptySet
  <2> QED BY <1>2, <2>1, <2>2 DEF ReferencesMatchCarriers, Carrying
<1> QED BY <1>4, <1>5 DEF IInv

\* Creating, releasing or giving away a reference, with the live coordinates as they are.
LEMMA OwnIInv ==
    ASSUME IInv, NEW x \in Objects, Create(x) \/ Release(x) \/ Make(x)
    PROVE  IInv'
<1>1. \A y \in Objects :
        /\ references[y] = held[y] + Cardinality(Carrying(y)) + (IF open /\ header = y THEN 1 ELSE 0)
        /\ Cardinality(Carrying(y)) \in Nat /\ held[y] \in Nat /\ references[y] \in Nat
  BY CarryingFinite DEF IInv, PoolTypeOK, PayloadTypeOK, ReferencesMatchCarriers, Carrying
<1>2. CASE Create(x)
  <2>1. PoolTypeOK' /\ LiveWithinCapacity'
    BY <1>2 DEF IInv, PoolTypeOK, PayloadTypeOK, LiveWithinCapacity, Coordinates, Create, pool
  <2>2. \A y \in Objects : Carrying(y)' = Carrying(y)
    BY <1>2 DEF Create, pool, Carrying
  <2>3. \A y \in Objects : y # x => references'[y] = references[y] /\ held'[y] = held[y]
    BY <1>2 DEF IInv, PoolTypeOK, PayloadTypeOK, Create
  <2>4. references'[x] = 1 /\ held'[x] = 1 /\ references[x] = 0
    BY <1>2 DEF IInv, PoolTypeOK, PayloadTypeOK, Create
  <2>5. open' = open /\ header' = header
    BY <1>2 DEF Create, pool
  <2>6. ReferencesMatchCarriers'
    BY <1>1, <2>2, <2>3, <2>4, <2>5 DEF ReferencesMatchCarriers, Carrying
  <2> QED BY <2>1, <2>6 DEF IInv
<1>3. CASE Release(x)
  <2>1. references' \in [Objects -> Nat] /\ held' \in [Objects -> Nat]
    <3>1. references[x] - 1 \in Nat /\ held[x] - 1 \in Nat
      BY <1>1, <1>3 DEF Release
    <3>2. references \in [Objects -> Nat] /\ held \in [Objects -> Nat]
      BY DEF IInv, PoolTypeOK, PayloadTypeOK
    <3> QED BY <1>3, <3>1, <3>2 DEF Release
  <2>2. PoolTypeOK' /\ LiveWithinCapacity'
    BY <1>3, <2>1 DEF IInv, PoolTypeOK, PayloadTypeOK, LiveWithinCapacity, Coordinates, Release, pool
  <2>3. \A y \in Objects : Carrying(y)' = Carrying(y)
    BY <1>3 DEF Release, pool, Carrying
  <2>4. \A y \in Objects : /\ references'[y] = references[y] - (IF x = y THEN 1 ELSE 0)
                           /\ held'[y] = held[y] - (IF x = y THEN 1 ELSE 0)
    BY <1>3 DEF IInv, PoolTypeOK, PayloadTypeOK, Release
  <2>5. open' = open /\ header' = header
    BY <1>3 DEF Release, pool
  <2>6. ReferencesMatchCarriers'
    BY <1>1, <2>3, <2>4, <2>5 DEF ReferencesMatchCarriers, Carrying
  <2> QED BY <2>2, <2>6 DEF IInv
<1>4. CASE Make(x)
  <2>0. PayloadTypeOK'
    BY <1>4, ClosedPayload DEF Make, PayloadTypeOK
  <2>1. PoolTypeOK' /\ LiveWithinCapacity'
    BY <1>4, <2>0, PoolAssumption DEF IInv, PoolTypeOK, LiveWithinCapacity, Coordinates, Make
  <2>2. \A y \in Objects : Carrying(y) = {} /\ Carrying(y)' = {}
    <3>1. capacity = 0 /\ live \subseteq 0..0 - 1
      BY <1>4, PoolAssumption DEF IInv, PoolTypeOK, PayloadTypeOK, LiveWithinCapacity, Coordinates, Make
    <3>2. live = {} /\ live' = {}
      BY <1>4, <3>1 DEF Make
    <3> QED BY <3>2 DEF Carrying
  <2>3. \A y \in Objects : /\ references'[y] = references[y]
                           /\ held'[y] = held[y] - (IF x = y THEN 1 ELSE 0)
    BY <1>4 DEF IInv, PoolTypeOK, PayloadTypeOK, Make
  <2>4. ~open /\ open' /\ header' = x
    BY <1>4 DEF Make
  <2>5. ReferencesMatchCarriers'
    <3>1. \A y \in Objects : Cardinality(Carrying(y)) = 0 /\ Cardinality(Carrying(y)') = 0
      BY <2>2, FS_EmptySet
    <3>2. ASSUME NEW y \in Objects
          PROVE  references'[y] = held'[y] + Cardinality(Carrying(y)')
                                    + (IF open' /\ header' = y THEN 1 ELSE 0)
      BY <1>1, <2>3, <2>4, <3>1
    <3> QED BY <3>2 DEF ReferencesMatchCarriers, Carrying
  <2> QED BY <2>1, <2>5 DEF IInv
<1> QED BY <1>2, <1>3, <1>4

LEMMA NextIInv == IInv /\ [Next]_vars => IInv'
<1> SUFFICES ASSUME IInv, [Next]_vars PROVE IInv'
  OBVIOUS
<1>1. ASSUME NEW x \in Objects, Create(x) \/ Release(x) \/ Make(x) PROVE IInv'
  BY <1>1, OwnIInv
<1>2. ASSUME NEW x \in Objects, Retain(x) PROVE IInv'
  BY <1>2, RetainsKeeps DEF Retain, IInv, PoolTypeOK, PayloadTypeOK
<1>3. ASSUME NEW x \in Objects, SwapHeader(x) PROVE IInv'
  BY <1>3, SwapHeaderIInv
<1>4. ASSUME NEW n \in 0..SizeMax, GrowInPlace(n) \/ GrowRelocating(n) PROVE IInv'
  BY <1>4, GrowIInv
<1>5. ASSUME UNCHANGED <<counts, pool>>, trapped' \in BOOLEAN, result' \in Objects \cup {Vacant}
      PROVE  IInv'
  BY <1>5 DEF IInv, PoolTypeOK, PayloadTypeOK, LiveWithinCapacity, Coordinates, ReferencesMatchCarriers, counts, pool
<1>6. ASSUME NEW n \in 0..SizeMax, GrowOverflow(n) PROVE IInv'
  BY <1>5, <1>6 DEF GrowOverflow, IInv, PoolTypeOK, PayloadTypeOK
<1>7. ASSUME NEW i \in Coordinates, Peek(i) PROVE IInv'
  <2>1. CASE i \in live
    <3>1. payload[i] \in Objects
      BY <2>1 DEF IInv, LiveWithinCapacity
    <3> QED BY <1>7, <2>1, <3>1, RetainsKeeps DEF Peek, IInv, PoolTypeOK, PayloadTypeOK
  <2>2. CASE i \notin live
    BY <1>5, <1>7, <2>2 DEF Peek, IInv, PoolTypeOK, PayloadTypeOK
  <2> QED BY <2>1, <2>2
<1>8. ASSUME NEW i \in Coordinates, NEW next \in Objects \cup {Vacant}, Swap(i, next) PROVE IInv'
  BY <1>8, SwapIInv
<1>9. ASSUME PeekHeader PROVE IInv'
  <2>1. header \in Objects
    BY <1>9 DEF IInv, PoolTypeOK, PayloadTypeOK, PeekHeader
  <2> QED BY <1>9, <2>1, RetainsKeeps DEF PeekHeader, IInv, PoolTypeOK, PayloadTypeOK
<1>10. ASSUME Destroy PROVE IInv'
  BY <1>10, DestroyIInv
<1>11. ASSUME UNCHANGED vars PROVE IInv'
  BY <1>5, <1>11 DEF vars, IInv, PoolTypeOK, PayloadTypeOK
<1> QED BY <1>1, <1>2, <1>3, <1>4, <1>6, <1>7, <1>8, <1>9, <1>10, <1>11 DEF Next

LEMMA IInvInvariant == Spec => []IInv
  BY InitIInv, NextIInv, PTL DEF Spec

\* The Pool keeps the shape of MalPool, its capacity within the physical one (pool.c).
THEOREM TypeCorrect == Spec => []PoolTypeOK
<1>1. IInv => PoolTypeOK
  BY DEF IInv
<1> QED BY <1>1, IInvInvariant, PTL

\* No bit above the capacity is set and every live cell was stored, so that the bitmap copy of
\* whole bytes in mal_runtime_pool_grow never brings a coordinate to life.
THEOREM LiveCorrect == Spec => []LiveWithinCapacity
<1>1. IInv => LiveWithinCapacity
  BY DEF IInv
<1> QED BY <1>1, IInvInvariant, PTL

\* The Pool's operations lose and repeat no reference, and mal_managed_pool_destroy leaves none.
THEOREM ReferencesCorrect == Spec => []ReferencesMatchCarriers
<1>1. IInv => ReferencesMatchCarriers
  BY DEF IInv
<1> QED BY <1>1, IInvInvariant, PTL

-----------------------------------------------------------------------------
(* Refinement: every step of the kernel is a step of PoolValues or changes  *)
(* nothing the program can see.                                             *)

\* A Pool without coordinates.
LEMMA NoSlots == capacity = 0 => Slots = <<>>
<1> SUFFICES ASSUME capacity = 0 PROVE Slots = <<>>
  OBVIOUS
<1>1. Coordinates = {}
  BY DEF Coordinates
<1> QED BY <1>1 DEF Slots

LEMMA NoSlotsNext == capacity' = 0 => Slots' = <<>>
<1> SUFFICES ASSUME capacity' = 0 PROVE Slots' = <<>>
  OBVIOUS
<1>1. Coordinates' = {}
  BY DEF Coordinates
<1> QED BY <1>1 DEF Slots

LEMMA InitRefines == Init => Values!Init
<1> SUFFICES ASSUME Init PROVE Values!Init
  OBVIOUS
<1>1. open = FALSE /\ header = Vacant /\ capacity = 0 /\ result = Vacant
  BY DEF Init
<1>2. Slots = <<>>
  BY <1>1, NoSlots
<1> QED BY <1>1, <1>2 DEF Values!Init

LEMMA StepRefines == IInv /\ IInv' /\ [Next]_vars => [Values!Next]_Values!vars
<1> SUFFICES ASSUME IInv, IInv', [Next]_vars PROVE [Values!Next]_Values!vars
  OBVIOUS
<1>1. ASSUME UNCHANGED <<pool, result>> PROVE UNCHANGED Values!vars
  BY <1>1 DEF pool, Slots, Coordinates, Values!vars
<1>2. ASSUME NEW x \in Objects, Create(x) \/ Retain(x) \/ Release(x) PROVE UNCHANGED Values!vars
  BY <1>1, <1>2 DEF Create, Retain, Release
<1>3. ASSUME NEW n \in 0..SizeMax, GrowOverflow(n) PROVE UNCHANGED Values!vars
  BY <1>1, <1>3 DEF GrowOverflow
<1>4. ASSUME NEW x \in Objects, Make(x) PROVE Values!Next
  <2>1. capacity' = 0 => Slots' = <<>>
    BY NoSlotsNext
  <2>2. Values!Make(x)
    BY <1>4, <2>1 DEF Make, Values!Make
  <2> QED BY <2>2 DEF Values!Next
<1>5. ASSUME NEW next \in Objects, SwapHeader(next) PROVE Values!Next
  <2>1. Slots' = Slots
    BY <1>5 DEF SwapHeader, Slots, Coordinates
  <2>2. Values!SwapHeader(next)
    BY <1>5, <2>1 DEF SwapHeader, Exchanges, Values!SwapHeader
  <2> QED BY <2>2 DEF Values!Next
<1>6. ASSUME NEW n \in 0..SizeMax, GrowInPlace(n) \/ GrowRelocating(n) PROVE Values!Next
  <2>1. /\ open /\ capacity \in Nat /\ capacity' = capacity + n
        /\ UNCHANGED <<open, header, result>>
        /\ live' = live /\ live \subseteq Coordinates
        /\ \A i \in Coordinates : payload'[i] = payload[i]
    <3>1. CASE GrowInPlace(n)
      BY <3>1 DEF GrowInPlace, IInv, PoolTypeOK, LiveWithinCapacity
    <3>2. CASE GrowRelocating(n)
      <4>1. /\ capacity' = capacity + n /\ live' = live
            /\ \A i \in Coordinates : payload'[i] = payload[i]
        BY <3>2, RelocatedKeeps
      <4>2. open /\ UNCHANGED <<open, header, result>>
        BY <3>2 DEF GrowRelocating
      <4>3. capacity \in Nat /\ live \subseteq Coordinates
        BY DEF IInv, PoolTypeOK, LiveWithinCapacity
      <4> QED BY <4>1, <4>2, <4>3
    <3> QED BY <1>6, <3>1, <3>2
  <2>2. Slots' = [i \in 0..capacity + n - 1 |-> IF i < capacity THEN Slots[i] ELSE Vacant]
    <3>1. Slots' = [i \in 0..capacity + n - 1 |-> IF i \in live THEN payload'[i] ELSE Vacant]
      BY <2>1 DEF Slots, Coordinates
    <3>2. ASSUME NEW i \in 0..capacity + n - 1
          PROVE  (IF i \in live THEN payload'[i] ELSE Vacant)
                    = (IF i < capacity THEN Slots[i] ELSE Vacant)
      <4>1. i \in Coordinates <=> i < capacity
        BY <2>1 DEF Coordinates
      <4> QED BY <2>1, <4>1 DEF Slots
    <3> QED BY <3>1, <3>2
  <2>3. Values!Grow(n)
    BY <2>1, <2>2 DEF Values!Grow
  <2> QED BY <2>3 DEF Values!Next
<1>7. ASSUME NEW i \in Coordinates, Peek(i) PROVE Values!Next
  <2>1. Slots' = Slots /\ UNCHANGED <<open, header, capacity>> /\ open
    BY <1>7 DEF Peek, pool, Slots, Coordinates
  <2>2. result' = Slots[i]
    BY <1>7 DEF Peek, Slots
  <2>3. Values!Peek(i)
    BY <2>1, <2>2 DEF Values!Peek
  <2> QED BY <2>3 DEF Values!Next, Values!Coordinates, Coordinates
<1>8. ASSUME NEW i \in Coordinates, NEW next \in Objects \cup {Vacant}, Swap(i, next)
      PROVE  Values!Next
  <2>1. result' = Slots[i] /\ open /\ UNCHANGED <<open, header, capacity>>
    BY <1>8 DEF Swap, Exchanges, Slots
  <2>2. /\ live' = IF next = Vacant THEN live \ {i} ELSE live \cup {i}
        /\ \A j \in live : j # i => payload'[j] = payload[j]
        /\ next # Vacant => payload'[i] = next
    BY <1>8 DEF IInv, PoolTypeOK, PayloadTypeOK, LiveWithinCapacity, Coordinates, Swap, WithLive
  <2>3. Slots' = [j \in Coordinates |-> IF j \in live' THEN payload'[j] ELSE Vacant]
    BY <2>1 DEF Slots, Coordinates
  <2>4. ASSUME NEW j \in Coordinates
        PROVE  (IF j \in live' THEN payload'[j] ELSE Vacant) = (IF j = i THEN next ELSE Slots[j])
    BY <2>2 DEF Slots
  <2>5. Slots' = [Slots EXCEPT ![i] = next]
    BY <2>3, <2>4 DEF Slots
  <2>6. Values!Swap(i, next)
    BY <2>1, <2>5 DEF Values!Swap
  <2> QED BY <2>6 DEF Values!Next, Values!Coordinates, Coordinates
<1>9. ASSUME PeekHeader PROVE Values!Next
  <2>1. Slots' = Slots
    BY <1>9 DEF PeekHeader, pool, Slots, Coordinates
  <2>2. Values!PeekHeader
    BY <1>9, <2>1 DEF PeekHeader, pool, Values!PeekHeader
  <2> QED BY <2>2 DEF Values!Next
<1>10. ASSUME Destroy PROVE Values!Next
  <2>1. capacity' = 0 => Slots' = <<>>
    BY NoSlotsNext
  <2>2. Values!Destroy
    BY <1>10, <2>1 DEF Destroy, Values!Destroy
  <2> QED BY <2>2 DEF Values!Next
<1>11. ASSUME UNCHANGED vars PROVE UNCHANGED Values!vars
  BY <1>1, <1>11 DEF vars
<1> QED BY <1>2, <1>3, <1>4, <1>5, <1>6, <1>7, <1>8, <1>9, <1>10, <1>11 DEF Next

\* The kernel is a Pool as runtime.h promises it: growth preserves what coordinates hold and adds
\* vacant ones, swap and peek give what was last put there, wherever the storage has moved.
THEOREM RefinesPoolValues == Spec => ImplementsPoolValues
<1>1. Spec => Values!Init /\ [][Values!Next]_Values!vars
  BY InitRefines, StepRefines, IInvInvariant, PTL DEF Spec
<1> QED BY <1>1 DEF ImplementsPoolValues, Values!Spec
-----------------------------------------------------------------------------
(* The growth of pool.c satisfies GrowthAssumption, for every word width    *)
(* and smallest capacity.                                                   *)

\* A set of naturals that is not empty has a least element.
LEMMA LeastNumber ==
    ASSUME NEW T \in SUBSET Nat, T # {}
    PROVE  \E n \in T : \A m \in T : n <= m
<1> DEFINE Less == {r \in Nat \X Nat : r[1] < r[2]}
<1>1. OpToRel(<, Nat) = Less
  BY Zenon DEF OpToRel
<1>2. IsWellFoundedOn(Less, Nat)
  BY <1>1, NatLessThanWellFounded, Zenon
<1>3. PICK n \in T : \A m \in T : ~ (<<m, n>> \in Less)
  <2> HIDE DEF Less
  <2> QED BY <1>2, WFMin
<1>4. ASSUME NEW m \in T PROVE n <= m
  <2>1. m \in Nat /\ n \in Nat /\ ~ (<<m, n>> \in Less)
    BY <1>3
  <2>2. ~ (m < n)
    BY <2>1
  <2> QED BY <2>1, <2>2
<1> QED BY <1>4

\* One turn of the loop in mal_pool_growth_capacity, when f is what the turns after it give.
Turn(f, c, required) ==
    IF c >= required THEN c
    ELSE IF c > GreatestSize \div 2 THEN required
    ELSE f[2 * c]

\* The loop ends from every capacity.
LEMMA TurnsEnd ==
    ASSUME NEW required \in Nat, GreatestSize \in Nat
    PROVE  \E f : f = [c \in 1..GreatestSize |-> Turn(f, c, required)]
<1> DEFINE From(n) == {c \in 1..GreatestSize : c + n > GreatestSize}
           Missing == {n \in Nat : ~ \E f : f = [c \in From(n) |-> Turn(f, c, required)]}
<1>1. 0 \notin Missing
  <2> DEFINE f == [c \in From(0) |-> c]
  <2>1. From(0) = {}
    OBVIOUS
  <2>2. f = [c \in From(0) |-> Turn(f, c, required)]
    BY <2>1
  <2> QED BY <2>2
<1>2. ASSUME NEW n \in Nat, n \notin Missing PROVE n + 1 \notin Missing
  <2>1. PICK f : f = [c \in From(n) |-> Turn(f, c, required)]
    BY <1>2
  <2> DEFINE g == [c \in From(n + 1) |-> IF c \in From(n) THEN f[c] ELSE Turn(f, c, required)]
  <2>2. From(n) \subseteq From(n + 1)
    OBVIOUS
  <2>3. \A c \in From(n + 1) : c <= GreatestSize \div 2 => 2 * c \in From(n)
    OBVIOUS
  <2>4. \A c \in From(n) : g[c] = f[c]
    BY <2>2
  <2>5. \A c \in From(n) : f[c] = Turn(f, c, required)
    BY <2>1
  <2>6. ASSUME NEW c \in From(n + 1) PROVE g[c] = Turn(g, c, required)
    <3>1. c <= GreatestSize \div 2 => g[2 * c] = f[2 * c]
      BY <2>3, <2>4
    <3>2. c \in Nat /\ GreatestSize \div 2 \in Nat
      OBVIOUS
    <3>3. Turn(g, c, required) = Turn(f, c, required)
      <4> HIDE DEF g, From
      <4> QED BY <3>1, <3>2 DEF Turn
    <3>4. g[c] = Turn(f, c, required)
      BY <2>5
    <3> QED BY <3>3, <3>4
  <2>7. g = [c \in From(n + 1) |-> Turn(g, c, required)]
    <3> HIDE DEF From
    <3> QED BY <2>6
  <2>8. \E h : h = [c \in From(n + 1) |-> Turn(h, c, required)]
    BY <2>7
  <2> QED BY <2>8
<1>3. Missing = {}
  <2> SUFFICES ASSUME Missing # {} PROVE FALSE
    OBVIOUS
  <2>1. PICK n \in Missing : \A m \in Missing : n <= m
    BY LeastNumber
  <2>2. n \in Nat /\ n # 0
    BY <1>1
  <2>3. n - 1 \in Nat /\ n - 1 \notin Missing
    <3> HIDE DEF Missing
    <3> QED BY <2>1, <2>2
  <2>4. (n - 1) + 1 \notin Missing
    BY <1>2, <2>3
  <2>5. (n - 1) + 1 = n
    BY <2>2
  <2> HIDE DEF Missing
  <2> QED BY <2>4, <2>5
<1>4. From(GreatestSize) = 1..GreatestSize
  OBVIOUS
<1>5. \E f : f = [c \in From(GreatestSize) |-> Turn(f, c, required)]
  BY <1>3
<1> HIDE DEF From
<1> QED BY <1>4, <1>5

\* mal_pool_growth_capacity gives what is required and no more than SIZE_MAX, from any capacity:
\* what GrowthAssumption asks of a growth policy, the code's own has.
THEOREM GrowthCovers ==
    ASSUME GreatestSize \in Nat, Minimum \in 1..GreatestSize,
           NEW current \in 0..GreatestSize, NEW required \in 0..GreatestSize
    PROVE  PoolCapacity(current, required) \in required..GreatestSize
<1> DEFINE start == IF current < Minimum THEN Minimum ELSE current
           f == CHOOSE f : f = [c \in 1..GreatestSize |-> Turn(f, c, required)]
           Short == {k \in Nat : \E c \in 1..GreatestSize : k = GreatestSize - c /\ f[c] \notin required..GreatestSize}
<1>1. f = [c \in 1..GreatestSize |-> Turn(f, c, required)]
  <2>1. required \in Nat
    OBVIOUS
  <2>2. \E g : g = [c \in 1..GreatestSize |-> Turn(g, c, required)]
    BY <2>1, TurnsEnd
  <2> QED BY <2>2
<1>2. PoolCapacity(current, required) = f[start]
  BY DEF PoolCapacity, Turn
<1>3. start \in 1..GreatestSize
  OBVIOUS
<1>4. \A c \in 1..GreatestSize : f[c] = Turn(f, c, required)
  <2> HIDE DEF f
  <2> QED BY <1>1
<1> HIDE DEF f, start
<1>5. Short = {}
  <2> SUFFICES ASSUME Short # {} PROVE FALSE
    OBVIOUS
  <2>1. PICK k \in Short : \A m \in Short : k <= m
    BY LeastNumber
  <2>2. PICK c \in 1..GreatestSize : k = GreatestSize - c /\ f[c] \notin required..GreatestSize
    BY <2>1
  <2>3. f[c] = f[2 * c] /\ 2 * c <= GreatestSize
    BY <1>4, <2>2 DEF Turn
  <2>4. GreatestSize - 2 * c \in Short
    BY <2>2, <2>3
  <2> QED BY <2>1, <2>2, <2>4
<1>6. f[start] \in required..GreatestSize
  <2> SUFFICES ASSUME f[start] \notin required..GreatestSize PROVE FALSE
    OBVIOUS
  <2>1. GreatestSize - start \in Short
    BY <1>3
  <2> QED BY <1>5, <2>1
<1> QED BY <1>2, <1>6
=============================================================================

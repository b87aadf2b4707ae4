------------------------- MODULE StorageCapacities -------------------------
(***************************************************************************)
(* How much storage the runtime asks for when some is needed               *)
(* (crates/mal-backend/runtime/c11): bytes.c for Symbols and byte Buffers, *)
(* pool.c for Pools.                                                       *)
(***************************************************************************)
EXTENDS Integers

CONSTANTS
    GreatestSize,   \* SIZE_MAX
    Minimum         \* the smallest capacity: 16 bytes, or 8 coordinates

HighestPower == GreatestSize - GreatestSize \div 2

\* The number of bits of n: the width of size_t less its leading zeros.
BitLength(n) == CHOOSE k \in 0..GreatestSize : n < 2^k /\ (k = 0 \/ n >= 2^(k - 1))

\* Bytes: the next power of two, as long as there is one.
BytesCapacity(required) ==
    IF required <= Minimum THEN Minimum
    ELSE IF required > HighestPower THEN required
    ELSE 2^BitLength(required - 1)

\* Coordinates: twice the current ones until the required ones fit, or
\* exactly those when twice would exceed SIZE_MAX.
PoolCapacity(current, required) ==
    LET Doubled[c \in 1..GreatestSize] ==
            IF c >= required THEN c
            ELSE IF c > GreatestSize \div 2 THEN required
            ELSE Doubled[2 * c]
    IN  Doubled[IF current < Minimum THEN Minimum ELSE current]

=============================================================================

----------------------------- MODULE PoolValues -----------------------------
(* What a Pool promises (runtime.h:286-291): a header and coordinates that  *)
(* are vacant or hold a value.  Growth adds vacant coordinates and keeps    *)
(* the others; swap exchanges what one coordinate holds.                    *)
EXTENDS Integers

CONSTANTS
    Objects,        \* what carriers refer to
    Vacant,         \* no carrier
    Amounts         \* the numbers of coordinates growth may add

VARIABLES
    open,           \* whether the Pool exists
    header,         \* its header
    capacity,       \* its coordinates are 0..capacity - 1
    slots,          \* what every coordinate holds
    result          \* what the last operation gave the program

vars == <<open, header, capacity, slots, result>>

Coordinates == 0..capacity - 1

Init == open = FALSE /\ header = Vacant /\ capacity = 0 /\ slots = <<>> /\ result = Vacant

Make(x) ==
    /\ ~open
    /\ open' = TRUE /\ header' = x /\ capacity' = 0 /\ slots' = <<>>
    /\ UNCHANGED result

Grow(n) ==
    /\ open
    /\ capacity' = capacity + n
    /\ slots' = [i \in 0..capacity + n - 1 |-> IF i < capacity THEN slots[i] ELSE Vacant]
    /\ UNCHANGED <<open, header, result>>

Peek(i) == open /\ result' = slots[i] /\ UNCHANGED <<open, header, capacity, slots>>

Swap(i, next) ==
    /\ open
    /\ result' = slots[i]
    /\ slots' = [slots EXCEPT ![i] = next]
    /\ UNCHANGED <<open, header, capacity>>

PeekHeader == open /\ result' = header /\ UNCHANGED <<open, header, capacity, slots>>

SwapHeader(x) ==
    /\ open
    /\ result' = header /\ header' = x
    /\ UNCHANGED <<open, capacity, slots>>

Destroy ==
    /\ open
    /\ open' = FALSE /\ header' = Vacant /\ capacity' = 0 /\ slots' = <<>>
    /\ UNCHANGED result

Next ==
    \/ \E x \in Objects : Make(x) \/ SwapHeader(x)
    \/ \E n \in Amounts : Grow(n)
    \/ \E i \in Coordinates : Peek(i) \/ \E next \in Objects \cup {Vacant} : Swap(i, next)
    \/ PeekHeader \/ Destroy

Spec == Init /\ [][Next]_vars
=============================================================================

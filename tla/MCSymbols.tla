----------------------------- MODULE MCSymbols -----------------------------
(* Symbols with the values TLC uses: three bindings over three owners.  The *)
(* smallest capacity is 3 bytes instead of 16, so that results of at most   *)
(* MaxLength bytes meet headroom, growth and storage with room left.        *)
EXTENDS Symbols, TLC

CONSTANTS b1, b2, b3, o1, o2, o3

Capacities == INSTANCE StorageCapacities WITH GreatestSize <- 7, Minimum <- 3
MCCapacity(n) == Capacities!BytesCapacity(n)

MCInputs == {<<"a", "b">>}
MCStaticBytes == [lit \in {"literal"} |-> <<"s">>]
NameSymmetry == Permutations(Owners) \cup Permutations(Bindings)

=============================================================================

-------------------------- MODULE MCByteConversions -------------------------
(* ByteConversions with the values TLC uses: the smallest capacity and the  *)
(* inline storage are 1 byte, so that two bytes meet promotion, growth in   *)
(* place, growth by realloc and storage with unused room.                   *)
EXTENDS ByteConversions, TLC

CONSTANTS b1, b2, o1, o2, h1, h2, u1, Minimum

Capacities == INSTANCE StorageCapacities WITH GreatestSize <- 7, Minimum <- Minimum
MCCapacity(n) == Capacities!BytesCapacity(n)

MCInputs == {<<"a">>}
MCStaticBytes == [lit \in {"literal"} |-> <<"s">>]
NameSymmetry ==
    Permutations(Owners) \cup Permutations(Bindings)
    \cup Permutations(Handles)

=============================================================================

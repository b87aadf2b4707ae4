--------------------------- MODULE MCManagedBuffer ---------------------------
(* ManagedBuffer with the values TLC uses: two objects in two Buffers of up  *)
(* to three elements, so that ranges overlap on both sides of the old count. *)
EXTENDS ManagedBuffer, TLC

CONSTANTS x1, x2, u1, u2

ObjectSymmetry == Permutations(Objects) \cup Permutations(Buffers)

=============================================================================

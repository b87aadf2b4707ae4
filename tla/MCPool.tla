------------------------------- MODULE MCPool -------------------------------
(* A Pool of up to five coordinates: bytes of two bits and a smallest        *)
(* physical capacity of two, so that growth meets a byte used in part.      *)
EXTENDS Pool, TLC

CONSTANTS x1, x2

Growth == INSTANCE StorageCapacities WITH GreatestSize <- SizeMax, Minimum <- 2
MCGrowthCapacity(current, required) == Growth!PoolCapacity(current, required)

ObjectSymmetry == Permutations(Objects)
=============================================================================

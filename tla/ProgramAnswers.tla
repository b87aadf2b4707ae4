--------------------------- MODULE ProgramAnswers ---------------------------
(***************************************************************************)
(* What building and running a program promises: it ends, once, with the   *)
(* answer its source means, whichever execution techniques its build       *)
(* enables (crates/mal-backend/src/optimization/mod.rs: they are decisions *)
(* about how to execute, not other semantics).  What a program means is    *)
(* fixed when it is built; ClosureMeaning defines it.                      *)
(***************************************************************************)
EXTENDS Naturals

CONSTANT NoAnswer   \* the answer of a program that has not ended

VARIABLES
    meaning,        \* what the program computes, NoAnswer before it is built
    answer          \* what running it returned

vars == <<meaning, answer>>

Init == meaning = NoAnswer /\ answer = NoAnswer
Build == meaning = NoAnswer /\ meaning' \in Nat /\ UNCHANGED answer
Answer == meaning # NoAnswer /\ answer = NoAnswer /\ answer' = meaning /\ UNCHANGED meaning

Spec == Init /\ [][Build \/ Answer]_vars /\ <>(answer # NoAnswer)
=============================================================================

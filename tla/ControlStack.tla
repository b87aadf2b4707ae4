---------------------------- MODULE ControlStack ----------------------------
(***************************************************************************)
(* What the control arena and the emitted bodies promise together: every   *)
(* running body has a stack of suspended calls of its own, resumed last in *)
(* first out, that no body it calls can see or change.                     *)
(***************************************************************************)
EXTENDS Sequences, SequencesExt

CONSTANTS
    Units,          \* bodies: a control region, or a function outside every region
    Root,           \* the body of main
    FrameSites,     \* calls inside a region, which suspend their caller
    UnitOf          \* the unit of each frame site

VARIABLE stack      \* the running bodies, innermost last, with their suspended calls

Entered(unit) == [unit |-> unit, suspended |-> <<>>]
Running == Last(stack)

Init == stack = <<Entered(Root)>>

Call(unit) == stack' = Append(stack, Entered(unit))

Suspend(site) ==
    /\ UnitOf[site] = Running.unit
    /\ stack' = Append(Front(stack), [Running EXCEPT !.suspended = Append(@, site)])

Resume ==
    /\ Running.suspended # <<>>
    /\ stack' = Append(Front(stack), [Running EXCEPT !.suspended = Front(@)])

Return ==
    /\ Running.suspended = <<>>
    /\ stack' = Front(stack)

Next ==
    /\ stack # <<>>
    /\ \/ \E unit \in Units : Call(unit)
       \/ \E site \in FrameSites : Suspend(site)
       \/ Resume
       \/ Return

Spec == Init /\ [][Next]_stack
=============================================================================

--------------------------- MODULE MCControlArena ---------------------------
(* main calls a region with two frames, which calls a smaller recursive      *)
(* function, also through a closure that may be a leaf, or goes through a    *)
(* helper without frames.                                                    *)
EXTENDS ControlArena

CONSTANTS main, outer, inner, leaf, helper, wide, narrow, single

MCUnits == {main, outer, inner, leaf, helper}
MCUnitOf == [s \in FrameSites |-> IF s = single THEN inner ELSE outer]
MCFrameSize == [s \in FrameSites |-> IF s = wide THEN 3 ELSE 2]

\* A stack with room beyond the budget, and one whose end comes first.
MCMappings == {[low |-> 0, size |-> 15, entry |-> 15], [low |-> 0, size |-> 12, entry |-> 8]}

Direct(from, target) == [from |-> from, targets |-> {target}]

\* Bodies with frames only call bodies with frames, or leaves.
DirectCalls ==
    {Direct(main, outer), Direct(main, helper), Direct(helper, inner), Direct(outer, leaf),
     [from |-> outer, targets |-> {inner, leaf}]}

\* outer also calls inner through the helper.
NestedCalls == DirectCalls \cup {Direct(outer, helper)}

\* The calls of the first run satisfy the hypothesis of the theorems about frames,
\* those of the run that finds a stale view do not.
ASSUME OnlyDirectCallsSettle == CallsSettled(DirectCalls) /\ ~CallsSettled(NestedCalls)
=============================================================================

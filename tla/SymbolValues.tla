---------------------------- MODULE SymbolValues ----------------------------
(***************************************************************************)
(* What the Symbol bindings of an activation promise a mal program: each   *)
(* binding in use has an immutable byte string, an operation gives one     *)
(* vacant binding a value computed from the values of others, and bindings *)
(* end.  Nothing else ever changes a value.                                *)
(***************************************************************************)
EXTENDS Integers, Sequences

CONSTANTS Bindings, Inputs, Literals, MaxLength

VARIABLE value      \* the bindings in use, each with its bytes

InUse == DOMAIN value

\* The bindings of ended stop being used and the vacant binding d starts with content.
Become(d, content, ended) ==
    /\ d \in Bindings \ InUse
    /\ value' = [b \in (InUse \ ended) \cup {d} |-> IF b = d THEN content ELSE value[b]]

Init == value = <<>>

Introduce(d) == \E content \in Inputs \cup Literals : Become(d, content, {})

Slice(s, d) ==
    /\ s \in InUse
    /\ \E first \in 1..Len(value[s]) + 1 : \E last \in 0..Len(value[s]) :
          Become(d, SubSeq(value[s], first, last), {})

\* The result is the operands' concatenation; operands may end with it.
Concatenate(l, r, d) ==
    /\ l \in InUse /\ r \in InUse
    /\ Len(value[l]) + Len(value[r]) <= MaxLength
    /\ \E ended \in SUBSET {l, r} : Become(d, value[l] \o value[r], ended)

End(b) ==
    /\ b \in InUse
    /\ value' = [c \in InUse \ {b} |-> value[c]]

Next ==
    \/ \E d \in Bindings : Introduce(d)
    \/ \E s, d \in Bindings : Slice(s, d)
    \/ \E l, r, d \in Bindings : Concatenate(l, r, d)
    \/ \E b \in Bindings : End(b)

Spec == Init /\ [][Next]_value

=============================================================================

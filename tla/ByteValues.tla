----------------------------- MODULE ByteValues -----------------------------
(***************************************************************************)
(* What Symbols and byte Buffers promise together: a Symbol is an immutable*)
(* value, a Buffer is an object with an identity whose bytes every handle  *)
(* of it sees, and a conversion in either direction is a snapshot.         *)
(***************************************************************************)
EXTENDS SymbolValues, FiniteSets

CONSTANTS Handles, Buffers, NewBytes

VARIABLES
    object,     \* the handles in use, each with the Buffer it denotes
    content     \* the Buffers some handle denotes, each with its bytes

Held == DOMAIN object

\* The handle h denotes a new Buffer of the given bytes; no other handle denotes it.
NewBuffer(h, bytes) ==
    /\ h \in Handles \ Held
    /\ \E b \in Buffers \ DOMAIN content :
         /\ object' = [g \in Held \cup {h} |-> IF g = h THEN b ELSE object[g]]
         /\ content' = [c \in DOMAIN content \cup {b} |-> IF c = b THEN bytes ELSE content[c]]

\* The handle h ends, and with its last handle the Buffer.
EndHandle(h) ==
    /\ h \in Held
    /\ object' = [g \in Held \ {h} |-> object[g]]
    /\ content' = [b \in {object[g] : g \in Held \ {h}} |-> content[b]]

ShareHandle(h, g) ==
    /\ h \in Held /\ g \in Handles \ Held
    /\ object' = [k \in Held \cup {g} |-> IF k = g THEN object[h] ELSE object[k]]
    /\ UNCHANGED content

SetBytes(h, bytes) ==
    /\ h \in Held
    /\ content' = [content EXCEPT ![object[h]] = bytes]
    /\ UNCHANGED object

BufferBytes(h) == content[object[h]]

Mutate(h) ==
    /\ h \in Held
    /\ \/ \E x \in NewBytes : SetBytes(h, Append(BufferBytes(h), x))
       \/ \E x \in NewBytes, i \in DOMAIN BufferBytes(h) :
             SetBytes(h, [BufferBytes(h) EXCEPT ![i] = x])
       \/ \E n \in 0..Len(BufferBytes(h)) : SetBytes(h, SubSeq(BufferBytes(h), 1, n))

\* The Symbol d is a snapshot of h's Buffer; h may end with the conversion.
ToSymbol(h, d) ==
    /\ h \in Held
    /\ Become(d, BufferBytes(h), {})
    /\ EndHandle(h) \/ UNCHANGED <<object, content>>

\* A new Buffer starts as a snapshot of the Symbol s; s may end with the conversion.
ToBuffer(s, h) ==
    /\ s \in InUse
    /\ NewBuffer(h, value[s])
    /\ \/ UNCHANGED value
       \/ value' = [b \in InUse \ {s} |-> value[b]]

ByteInit == Init /\ object = <<>> /\ content = <<>>

ByteNext ==
    \/ Next /\ UNCHANGED <<object, content>>
    \/ \E h \in Handles : NewBuffer(h, <<>>) /\ UNCHANGED value
    \/ \E h, g \in Handles : ShareHandle(h, g) /\ UNCHANGED value
    \/ \E h \in Handles : (EndHandle(h) \/ Mutate(h)) /\ UNCHANGED value
    \/ \E h \in Handles, d \in Bindings : ToSymbol(h, d)
    \/ \E h \in Handles, s \in Bindings : ToBuffer(s, h)

ByteSpec == ByteInit /\ [][ByteNext]_<<value, object, content>>

=============================================================================

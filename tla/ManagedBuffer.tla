---------------------------- MODULE ManagedBuffer ----------------------------
(***************************************************************************)
(* Buffers of managed elements (buffer.c, buffer_range.c, buffer_host.c):  *)
(* every live element holds one reference of an object, and the range      *)
(* operations retain and release elements one at a time, in an order that  *)
(* matters when ranges overlap or a value is already in the range.  An     *)
(* object whose count reaches zero is destroyed at that moment.            *)
(***************************************************************************)
EXTENDS Integers, FiniteSets, Sequences, Functions

CONSTANTS
    Objects,        \* counted objects that elements refer to
    Buffers,        \* Buffer objects, each held by the program while open
    Junk,           \* an element whose bytes are uninitialised or freed
    MaxHeld,        \* references to one object the program holds at once (bound)
    MaxCount        \* elements of one Buffer (bound)

ASSUME BoundsAssumption ==
    /\ IsFiniteSet(Objects) /\ IsFiniteSet(Buffers)
    /\ Junk \notin Objects
    /\ MaxHeld \in Nat \ {0} /\ MaxCount \in Nat \ {0}

VARIABLES
    references,     \* the count in each object's header; 0 is destroyed
    held,           \* the references the program is responsible for
    buffer,         \* per Buffer: open, count, and the cells of its storage
    faulted         \* whether a destroyed object was ever retained or released

vars == <<references, held, buffer, faulted>>

Closed == [open |-> FALSE, count |-> 0, cells |-> <<>>]

Init ==
    /\ references = [x \in Objects |-> 0]
    /\ held = [x \in Objects |-> 0]
    /\ buffer = [b \in Buffers |-> Closed]
    /\ faulted = FALSE

-----------------------------------------------------------------------------
(* Effects: the retains and releases of a call, in the order the code makes them. *)

Retains(elements) == [i \in DOMAIN elements |-> <<"retain", elements[i]>>]
Releases(elements) == [i \in DOMAIN elements |-> <<"release", elements[i]>>]
Times(n, x) == [i \in 1..n |-> x]

Effect(state, event) ==
    LET x == event[2]
    IN  IF x \notin Objects \/ state.references[x] = 0 THEN [state EXCEPT !.faulted = TRUE]
        ELSE [state EXCEPT !.references[x] = IF event[1] = "retain" THEN @ + 1 ELSE @ - 1]

\* The state after every event in turn.
Outcome(start, events) ==
    LET After[n \in 0..Len(events)] ==
            IF n = 0 THEN start ELSE Effect(After[n - 1], events[n])
    IN  After[Len(events)]

Perform(events) ==
    LET final == Outcome([references |-> references, faulted |-> faulted], events)
    IN  references' = final.references /\ faulted' = final.faulted

Moves(x) == held' = [held EXCEPT ![x] = @ - 1]

\* The elements from index first (counted from 0) up to but not including last.
Elements(b, first, last) == SubSeq(buffer[b].cells, first + 1, last)
Live(b) == Elements(b, 0, buffer[b].count)

Greater(m, n) == IF m > n THEN m ELSE n
Lesser(m, n) == IF m < n THEN m ELSE n

\* mal_buffer_reserve: storage for at least n elements; what lies past them is uninitialised.
Reserved(cells, n) ==
    [i \in 1..Greater(n, Len(cells)) |-> IF i \in DOMAIN cells THEN cells[i] ELSE Junk]

\* The cells with the elements new stored from index first on.
Stored(cells, first, new) ==
    [i \in DOMAIN cells |-> IF i \in first + 1..first + Len(new) THEN new[i - first] ELSE cells[i]]

SetBuffer(b, count, cells) ==
    buffer' = [buffer EXCEPT ![b].count = count, ![b].cells = cells]

-----------------------------------------------------------------------------
(* The program's own references. *)

Create(x) ==
    /\ references[x] = 0
    /\ references' = [references EXCEPT ![x] = 1]
    /\ held' = [held EXCEPT ![x] = 1]
    /\ UNCHANGED <<buffer, faulted>>

Keep(x) ==
    /\ held[x] \in 1..MaxHeld - 1
    /\ Perform(Retains(<<x>>))
    /\ held' = [held EXCEPT ![x] = @ + 1]
    /\ UNCHANGED buffer

Discard(x) ==
    /\ held[x] > 0
    /\ Perform(Releases(<<x>>))
    /\ Moves(x)
    /\ UNCHANGED buffer

-----------------------------------------------------------------------------
(* Buffer operations.  A check that traps is a guard: the call does not return. *)

\* mal_runtime_buffer_make_managed.
Make(b, capacity) ==
    /\ ~buffer[b].open
    /\ buffer' = [buffer EXCEPT ![b] = [open |-> TRUE, count |-> 0, cells |-> Times(capacity, Junk)]]
    /\ UNCHANGED <<references, held, faulted>>

\* mal_buffer_destroy, when the program's last reference to the Buffer goes.
Destroy(b) ==
    /\ buffer[b].open
    /\ Perform(Releases(Live(b)))
    /\ buffer' = [buffer EXCEPT ![b] = Closed]
    /\ UNCHANGED held

\* mal_runtime_buffer_new_managed_move.
NewMove(b, x) ==
    /\ buffer[b].open /\ held[x] > 0
    /\ LET n == buffer[b].count
       IN  /\ n < MaxCount
           /\ SetBuffer(b, n + 1, Stored(Reserved(buffer[b].cells, n + 1), n, <<x>>))
    /\ Moves(x)
    /\ UNCHANGED <<references, faulted>>

\* mal_runtime_buffer_replace_move releases the old element before it stores the new one; the
\* code emitted for Put stores first, with the same effect.  An index out of range traps.
ReplaceMove(b, i, x) ==
    /\ buffer[b].open /\ held[x] > 0
    /\ i < buffer[b].count
    /\ Perform(Releases(Elements(b, i, i + 1)))
    /\ SetBuffer(b, buffer[b].count, Stored(buffer[b].cells, i, <<x>>))
    /\ Moves(x)

\* Reading an element shares it with the program.
Get(b, i) ==
    /\ buffer[b].open /\ i < buffer[b].count
    /\ LET x == buffer[b].cells[i + 1]
       IN  /\ x \in Objects => held[x] < MaxHeld
           /\ Perform(Retains(<<x>>))
           /\ held' = IF x \in Objects THEN [held EXCEPT ![x] = @ + 1] ELSE held
    /\ UNCHANGED buffer

\* mal_buffer_fill_extend and mal_buffer_copy_extend: room for a range starting in the Buffer.
Extends(b, offset, count) ==
    /\ buffer[b].open
    /\ offset <= buffer[b].count
    /\ offset + count <= MaxCount

SetRange(b, offset, new) ==
    LET count == Greater(buffer[b].count, offset + Len(new))
    IN  SetBuffer(b, count, Stored(Reserved(buffer[b].cells, count), offset, new))

\* mal_runtime_buffer_fill_managed: the program keeps its reference to the value.  Each old
\* element is released just before the value takes its place; the new places have none.
FillEvents(b, offset, count, x) ==
    LET old == Elements(b, offset, Lesser(offset + count, buffer[b].count))
    IN  [i \in 1..2 * Len(old) |->
            IF i % 2 = 1 THEN <<"release", old[(i + 1) \div 2]>> ELSE <<"retain", x>>]
        \o Retains(Times(count - Len(old), x))

FillManaged(b, offset, count, x) ==
    /\ Extends(b, offset, count) /\ count > 0
    /\ held[x] > 0
    /\ Perform(FillEvents(b, offset, count, x))
    /\ SetRange(b, offset, Times(count, x))
    /\ UNCHANGED held

\* Mutant of MoveRetains: one reference per copy, although one of them is moved in.
MoveRetainsEach(count, x) == Retains(Times(count, x))

MoveRetains(count, x) == Retains(Times(count - 1, x))

\* mal_runtime_buffer_fill_move: the program's reference goes into the range, or is dropped
\* with an empty range, whose offset is not checked.
FillMove(b, offset, count, x) ==
    /\ buffer[b].open /\ held[x] > 0
    /\ \/ /\ count = 0
          /\ Perform(Releases(<<x>>))
          /\ UNCHANGED buffer
       \/ /\ count > 0 /\ Extends(b, offset, count)
          /\ Perform(MoveRetains(count, x)
                     \o Releases(Elements(b, offset, Lesser(offset + count, buffer[b].count))))
          /\ SetRange(b, offset, Times(count, x))
    /\ Moves(x)

\* Mutant of CopyEvents: the overwritten elements are released before the source is retained.
CopyEventsReleaseFirst(b, offset, source, first, count) ==
    Releases(Elements(b, offset, Lesser(offset + count, buffer[b].count)))
    \o Retains(Elements(source, first, first + count))

CopyEvents(b, offset, source, first, count) ==
    Retains(Elements(source, first, first + count))
    \o Releases(Elements(b, offset, Lesser(offset + count, buffer[b].count)))

\* mal_runtime_buffer_copy_managed: source and destination may be one Buffer, and overlap.
CopyManaged(b, offset, source, first, count) ==
    /\ Extends(b, offset, count) /\ count > 0
    /\ buffer[source].open
    /\ first + count <= buffer[source].count
    /\ Perform(CopyEvents(b, offset, source, first, count))
    /\ SetRange(b, offset, Elements(source, first, first + count))
    /\ UNCHANGED held

AppendSource(b, source, first, count) == Elements(source, first, first + count)

\* mal_runtime_buffer_append_values of a Buffer's elements, possibly its own.
AppendValues(b, source, first, count) ==
    /\ buffer[b].open /\ buffer[source].open
    /\ buffer[b].count + count <= MaxCount
    /\ first + count <= buffer[source].count
    /\ Perform(Retains(AppendSource(b, source, first, count)))
    /\ SetRange(b, buffer[b].count, AppendSource(b, source, first, count))
    /\ UNCHANGED held

\* mal_runtime_buffer_from_arguments: each element is a new object.
FromArguments(b, count) ==
    /\ ~buffer[b].open
    /\ \E xs \in [1..count -> {x \in Objects : references[x] = 0}] :
         /\ IsInjective(xs)
         /\ references' = [x \in Objects |-> IF x \in Range(xs) THEN 1 ELSE references[x]]
         /\ buffer' = [buffer EXCEPT ![b] = [open |-> TRUE, count |-> count, cells |-> xs]]
    /\ UNCHANGED <<held, faulted>>

\* Mutant of Truncate: a count beyond the Buffer's is taken over.
TruncateUnchecked(b, n) ==
    /\ buffer[b].open
    /\ Perform(Releases(Elements(b, n, buffer[b].count)))
    /\ buffer' = [buffer EXCEPT ![b].count = n]
    /\ UNCHANGED held

\* mal_runtime_buffer_truncate.
Truncate(b, n) ==
    /\ buffer[b].open /\ n < buffer[b].count
    /\ Perform(Releases(Elements(b, n, buffer[b].count)))
    /\ buffer' = [buffer EXCEPT ![b].count = n]
    /\ UNCHANGED held

\* mal_runtime_buffer_reserve_elements.
ReserveElements(b, n) ==
    /\ buffer[b].open
    /\ buffer' = [buffer EXCEPT ![b].cells = Reserved(@, n)]
    /\ UNCHANGED <<references, held, faulted>>

Next ==
    \/ \E x \in Objects : Create(x) \/ Keep(x) \/ Discard(x)
    \/ \E b \in Buffers : Destroy(b)
    \/ \E b \in Buffers, n \in 0..MaxCount :
          Make(b, n) \/ FromArguments(b, n) \/ Truncate(b, n) \/ ReserveElements(b, n)
    \/ \E b \in Buffers, x \in Objects : NewMove(b, x)
    \/ \E b \in Buffers, x \in Objects, i \in 0..MaxCount - 1 : ReplaceMove(b, i, x)
    \/ \E b \in Buffers, i \in 0..MaxCount - 1 : Get(b, i)
    \/ \E b \in Buffers, x \in Objects, offset, count \in 0..MaxCount :
          FillManaged(b, offset, count, x) \/ FillMove(b, offset, count, x)
    \/ \E b, source \in Buffers, offset, first, count \in 0..MaxCount :
          CopyManaged(b, offset, source, first, count)
    \/ \E b, source \in Buffers, first, count \in 0..MaxCount : AppendValues(b, source, first, count)

Spec == Init /\ [][Next]_vars

-----------------------------------------------------------------------------
\* Types of the state; a Buffer's count lies within its storage.
TypeOK ==
    /\ references \in [Objects -> Nat]
    /\ held \in [Objects -> 0..MaxHeld]
    /\ buffer \in [Buffers -> [open : BOOLEAN, count : 0..MaxCount, cells : Seq(Objects \cup {Junk})]]
    /\ \A b \in Buffers : buffer[b].count <= Len(buffer[b].cells)
    /\ faulted \in BOOLEAN

\* The live elements that refer to an object, by Buffer and position.
Places(x) ==
    {place \in Buffers \X (1..MaxCount) :
        place[2] <= buffer[place[1]].count /\ buffer[place[1]].cells[place[2]] = x}

\* An object's count is what the program holds plus one for every live element that refers to
\* it, however ranges overlapped: elements are neither leaked nor released twice.
ReferencesMatchElements ==
    \A x \in Objects :
        references[x] = held[x] + Cardinality(Places(x))

\* No range operation lets an object's count reach zero while one of its own later steps still
\* retains or releases it (buffer_range.c: every source reference is taken before any
\* destination one is dropped).
NothingUsedAfterDestruction == ~faulted

\* A live element was stored by some operation; none is left over from fresh storage.
LiveElementsStored == \A b \in Buffers : Junk \notin Range(Live(b))

\* No element is read or released that is not there any more or was never stored.
ElementsUsable == NothingUsedAfterDestruction /\ LiveElementsStored

=============================================================================

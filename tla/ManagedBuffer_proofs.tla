------------------------ MODULE ManagedBuffer_proofs ------------------------
(***************************************************************************)
(* Buffers of managed elements, for any objects, Buffers and bounds: after *)
(* every operation an object's count is what the program holds plus one    *)
(* for each live element that refers to it, and no operation retains or    *)
(* releases an object that is destroyed, however its ranges overlap.       *)
(***************************************************************************)
EXTENDS ManagedBuffer, FiniteSetTheorems, SequenceTheorems, WellFoundedInduction, TLAPS

\* A set of numbers that is not empty has a least one.
LEMMA LeastNatural ==
    ASSUME NEW T, T \subseteq Nat, T # {}
    PROVE  \E n \in T : \A m \in T : n <= m
<1> DEFINE Less == {ss \in Nat \X Nat : ss[1] < ss[2]}
<1>1. OpToRel(<, Nat) = Less
  BY Zenon DEF OpToRel
<1>2. IsWellFoundedOn(Less, Nat)
  BY <1>1, NatLessThanWellFounded, Zenon
<1>3. PICK n \in T : \A m \in T : ~ (<<m, n>> \in Less)
  <2> HIDE DEF Less
  <2> QED BY <1>2, WFMin
<1>4. ASSUME NEW m \in T PROVE n <= m
  <2>1. m \in Nat /\ n \in Nat /\ ~ (<<m, n>> \in Less)
    BY <1>3
  <2>2. ~ (m < n)
    BY <2>1
  <2> QED BY <2>1, <2>2
<1> QED BY <1>4

\* What holds of 0 and passes from each number to the next holds of all up to last.
LEMMA UpFrom ==
    ASSUME NEW last \in Nat, NEW T, 0 \in T, \A n \in 0..last - 1 : n \in T => n + 1 \in T
    PROVE  0..last \subseteq T
<1> DEFINE Missed == {n \in 0..last : n \notin T}
<1> SUFFICES ASSUME Missed # {} PROVE FALSE
  OBVIOUS
<1>1. PICK n \in Missed : \A m \in Missed : n <= m
  <2>1. Missed \subseteq Nat
    OBVIOUS
  <2> HIDE DEF Missed
  <2> QED BY <2>1, LeastNatural
<1>2. n \in 0..last /\ n # 0
  OBVIOUS
<1>3. n - 1 \in 0..last - 1 /\ ~(n <= n - 1) /\ (n - 1) + 1 = n
  BY <1>2
<1>4. n - 1 \in T
  BY <1>1, <1>3
<1> QED BY <1>3, <1>4

-----------------------------------------------------------------------------
(* The events of a call in order.                                           *)

After(start, events, f, n) == IF n = 0 THEN start ELSE Effect(f[n - 1], events[n])

\* Outcome is what the last of the states after each event is.
LEMMA StatesExist ==
    ASSUME NEW start, NEW events, NEW last \in Nat
    PROVE  \E f : f = [n \in 0..last |-> After(start, events, f, n)]
<1> DEFINE T == {m \in 0..last : \E f : f = [n \in 0..m |-> After(start, events, f, n)]}
<1>1. 0 \in T
  <2> DEFINE f == [n \in 0..0 |-> start]
  <2>1. \A n \in 0..0 : After(start, events, f, n) = start
    BY DEF After
  <2>2. f = [n \in 0..0 |-> After(start, events, f, n)]
    BY <2>1
  <2> QED BY <2>2
<1>2. ASSUME NEW m \in 0..last - 1, m \in T PROVE m + 1 \in T
  <2>1. PICK f : f = [n \in 0..m |-> After(start, events, f, n)]
    BY <1>2
  <2> DEFINE g == [n \in 0..m + 1 |-> IF n = m + 1 THEN Effect(f[m], events[n]) ELSE f[n]]
  <2>2. \A n \in 0..m + 1 : g[n] = After(start, events, g, n)
    <3> SUFFICES ASSUME NEW n \in 0..m + 1 PROVE g[n] = After(start, events, g, n)
      OBVIOUS
    <3>1. CASE n = m + 1
      <4>1. n # 0 /\ n - 1 = m /\ m \in 0..m + 1 /\ m # m + 1
        BY <3>1
      <4>2. g[m] = f[m] /\ g[n] = Effect(f[m], events[n])
        BY <3>1, <4>1
      <4> HIDE DEF g
      <4> QED BY <4>1, <4>2 DEF After
    <3>2. CASE n # m + 1
      <4>1. n \in 0..m /\ (n # 0 => n - 1 \in 0..m + 1 /\ n - 1 # m + 1)
        BY <3>2
      <4>2. f[n] = After(start, events, f, n)
        BY <2>1, <4>1
      <4>3. g[n] = f[n] /\ (n # 0 => g[n - 1] = f[n - 1])
        BY <3>2, <4>1
      <4> HIDE DEF g
      <4> QED BY <4>2, <4>3 DEF After
    <3> QED BY <3>1, <3>2
  <2>3. g = [n \in 0..m + 1 |-> After(start, events, g, n)]
    BY <2>2
  <2>4. m + 1 \in 0..last /\ \E h : h = [n \in 0..m + 1 |-> After(start, events, h, n)]
    <3>1. m + 1 \in 0..last
      OBVIOUS
    <3> HIDE DEF g
    <3> QED BY <2>3, <3>1
  <2> QED BY <2>4
<1>3. 0..last \subseteq T
  <2> HIDE DEF T
  <2> QED BY <1>1, <1>2, UpFrom
<1>4. last \in T
  BY <1>3
<1> QED BY <1>4

\* The states after each event, the last of which is the outcome.
LEMMA OutcomeIs ==
    ASSUME NEW start, NEW events, Len(events) \in Nat
    PROVE  \E w : /\ w[0] = start
                  /\ \A n \in 0..Len(events) - 1 : w[n + 1] = Effect(w[n], events[n + 1])
                  /\ Outcome(start, events) = w[Len(events)]
<1> DEFINE N == Len(events)
           w == CHOOSE f : f = [n \in 0..N |-> After(start, events, f, n)]
<1>1. Outcome(start, events) = w[N]
  BY DEF Outcome, After
<1> HIDE DEF N
<1>2. N \in Nat
  BY DEF N
<1>3. w = [n \in 0..N |-> After(start, events, w, n)]
  BY <1>2, StatesExist
<1> HIDE DEF w
<1>4. \A n \in 0..N : w[n] = After(start, events, w, n)
  BY <1>3
<1>5. w[0] = start
  BY <1>2, <1>4 DEF After
<1>6. ASSUME NEW n \in 0..N - 1 PROVE w[n + 1] = Effect(w[n], events[n + 1])
  <2>1. n + 1 \in 0..N /\ n + 1 # 0 /\ (n + 1) - 1 = n
    BY <1>2
  <2> QED BY <1>4, <2>1 DEF After
<1> QED BY <1>1, <1>5, <1>6 DEF N

\* How many of the first n events retain, or release, an object.
At(events, n, kind, x) == {i \in 1..n : events[i] = <<kind, x>>}
Number(events, n, kind, x) == Cardinality(At(events, n, kind, x))

LEMMA NumberNext ==
    ASSUME NEW events, NEW kind, NEW x, NEW n \in Nat
    PROVE  /\ Number(events, n, kind, x) \in Nat
           /\ Number(events, 0, kind, x) = 0
           /\ events[n + 1] = <<kind, x>> =>
                Number(events, n + 1, kind, x) = Number(events, n, kind, x) + 1
           /\ events[n + 1] # <<kind, x>> =>
                Number(events, n + 1, kind, x) = Number(events, n, kind, x)
<1> DEFINE here == At(events, n, kind, x)
<1>1. IsFiniteSet(here) /\ n + 1 \notin here
  <2>1. IsFiniteSet(1..n)
    BY FS_Interval
  <2>2. here \subseteq 1..n
    BY DEF At
  <2> QED BY <2>1, <2>2, FS_Subset
<1>2. At(events, 0, kind, x) = {}
  BY DEF At
<1>3. CASE events[n + 1] = <<kind, x>>
  <2>1. At(events, n + 1, kind, x) = here \cup {n + 1}
    BY <1>3 DEF At
  <2> HIDE DEF here
  <2>2. Cardinality(here \cup {n + 1}) = Cardinality(here) + 1 /\ Cardinality(here) \in Nat
    BY <1>1, FS_AddElement, FS_CardinalityType
  <2>3. /\ Number(events, n, kind, x) = Cardinality(here)
        /\ Number(events, 0, kind, x) = Cardinality({})
        /\ Number(events, n + 1, kind, x) = Cardinality(here \cup {n + 1})
    BY <1>2, <2>1 DEF Number, here
  <2> QED BY <1>3, <2>2, <2>3, FS_EmptySet
<1>4. CASE events[n + 1] # <<kind, x>>
  <2>1. At(events, n + 1, kind, x) = here
    BY <1>4 DEF At
  <2> HIDE DEF here
  <2> QED BY <1>1, <1>2, <1>4, <2>1, FS_CardinalityType, FS_EmptySet DEF Number, here
<1> QED BY <1>3, <1>4

LEMMA NumberGrows ==
    ASSUME NEW events, NEW kind, NEW x, NEW m \in Nat, NEW n \in Nat, m <= n
    PROVE  Number(events, m, kind, x) <= Number(events, n, kind, x)
<1>1. At(events, m, kind, x) \subseteq At(events, n, kind, x) /\ At(events, n, kind, x) \subseteq 1..n
  BY DEF At
<1>2. IsFiniteSet(At(events, n, kind, x))
  BY <1>1, FS_Interval, FS_Subset
<1> QED BY <1>1, <1>2, FS_Subset DEF Number

Events == Seq({"retain", "release"} \X Objects)

\* The counts after n events, none of which met a destroyed object.
Tally(counts, events, n) ==
    [x \in Objects |-> counts[x] + Number(events, n, "retain", x) - Number(events, n, "release", x)]

\* A call whose releases an object's count covers, and whose retains come while it is positive,
\* counts what it should and meets no destroyed object.
Safe(counts, events) ==
    /\ \A x \in Objects : Number(events, Len(events), "release", x) <= counts[x]
    /\ \A n \in 0..Len(events) - 1, x \in Objects :
          events[n + 1] = <<"retain", x>> => Number(events, n, "release", x) < counts[x]

\* One event of such a call.
LEMMA EventIs ==
    ASSUME NEW counts \in [Objects -> Nat], NEW fault, NEW events \in Events, Safe(counts, events),
           NEW n \in 0..Len(events) - 1
    PROVE  Effect([references |-> Tally(counts, events, n), faulted |-> fault], events[n + 1])
             = [references |-> Tally(counts, events, n + 1), faulted |-> fault]
<1> DEFINE tally == Tally(counts, events, n)
           next == Tally(counts, events, n + 1)
           state == [references |-> tally, faulted |-> fault]
<1>1. n \in Nat /\ n + 1 \in 1..Len(events) /\ Len(events) \in Nat /\ n <= Len(events) /\ n + 1 <= Len(events)
  BY DEF Events
<1>2. PICK kind \in {"retain", "release"}, x \in Objects : events[n + 1] = <<kind, x>>
  BY <1>1 DEF Events
<1>3. \A k, y : /\ Number(events, n, k, y) \in Nat
                /\ <<k, y>> = <<kind, x>> => Number(events, n + 1, k, y) = Number(events, n, k, y) + 1
                /\ <<k, y>> # <<kind, x>> => Number(events, n + 1, k, y) = Number(events, n, k, y)
  BY <1>1, <1>2, NumberNext
<1>4. Number(events, n, "release", x) < counts[x]
  <2>1. CASE kind = "retain"
    BY <1>2, <2>1 DEF Safe
  <2>2. CASE kind = "release"
    <3>1. Number(events, n + 1, "release", x) = Number(events, n, "release", x) + 1
      BY <1>3, <2>2
    <3>2. Number(events, n + 1, "release", x) <= Number(events, Len(events), "release", x)
      BY <1>1, NumberGrows
    <3>3. Number(events, Len(events), "release", x) <= counts[x]
      BY DEF Safe
    <3>4. Number(events, Len(events), "release", x) \in Nat /\ Number(events, n, "release", x) \in Nat
      BY <1>1, <1>3, NumberNext
    <3>5. counts[x] \in Nat
      OBVIOUS
    <3> QED BY <3>1, <3>2, <3>3, <3>4, <3>5
  <2> QED BY <2>1, <2>2
<1>5. /\ tally = [y \in Objects |-> tally[y]] /\ next = [y \in Objects |-> next[y]]
      /\ \A y \in Objects : /\ tally[y] = counts[y] + Number(events, n, "retain", y)
                                            - Number(events, n, "release", y)
                            /\ next[y] = counts[y] + Number(events, n + 1, "retain", y)
                                           - Number(events, n + 1, "release", y)
  BY DEF Tally
<1> HIDE DEF tally, next
<1>6. tally[x] # 0
  <2>1. counts[x] \in Nat /\ Number(events, n, "retain", x) \in Nat /\ Number(events, n, "release", x) \in Nat
    BY <1>3
  <2>2. tally[x] = counts[x] + Number(events, n, "retain", x) - Number(events, n, "release", x)
    BY <1>5
  <2> QED BY <1>4, <2>1, <2>2
<1>7. next = [tally EXCEPT ![x] = IF kind = "retain" THEN @ + 1 ELSE @ - 1]
  <2>1. ASSUME NEW y \in Objects
        PROVE  next[y] = IF y = x THEN IF kind = "retain" THEN tally[y] + 1 ELSE tally[y] - 1 ELSE tally[y]
    <3>1. counts[y] \in Nat /\ Number(events, n, "retain", y) \in Nat /\ Number(events, n, "release", y) \in Nat
      BY <1>3
    <3>2. /\ y = x /\ kind = "retain" => /\ Number(events, n + 1, "retain", y) = Number(events, n, "retain", y) + 1
                                         /\ Number(events, n + 1, "release", y) = Number(events, n, "release", y)
          /\ y = x /\ kind = "release" => /\ Number(events, n + 1, "release", y) = Number(events, n, "release", y) + 1
                                          /\ Number(events, n + 1, "retain", y) = Number(events, n, "retain", y)
          /\ y # x => /\ Number(events, n + 1, "release", y) = Number(events, n, "release", y)
                      /\ Number(events, n + 1, "retain", y) = Number(events, n, "retain", y)
      BY <1>3
    <3> QED BY <1>5, <3>1, <3>2
  <2> QED BY <1>5, <2>1
<1>8. /\ events[n + 1][2] = x /\ events[n + 1][1] = kind
      /\ state.references = tally /\ state.faulted = fault
  BY <1>2
<1>9. Effect(state, events[n + 1]) = [state EXCEPT !.references[x] = IF kind = "retain" THEN @ + 1 ELSE @ - 1]
  BY <1>6, <1>8 DEF Effect
<1>10. Effect(state, events[n + 1])
         = [references |-> [tally EXCEPT ![x] = IF kind = "retain" THEN @ + 1 ELSE @ - 1], faulted |-> fault]
  BY <1>9
<1> QED BY <1>7, <1>10 DEF tally, next

\* The whole call.
LEMMA Performs ==
    ASSUME references \in [Objects -> Nat], NEW events \in Events, Safe(references, events),
           Perform(events)
    PROVE  /\ references' = Tally(references, events, Len(events))
           /\ faulted' = faulted
<1> DEFINE start == [references |-> references, faulted |-> faulted]
           N == Len(events)
           State(n) == [references |-> Tally(references, events, n), faulted |-> faulted]
<1>1. N \in Nat
  BY DEF Events
<1>2. PICK w : /\ w[0] = start
               /\ \A n \in 0..N - 1 : w[n + 1] = Effect(w[n], events[n + 1])
               /\ Outcome(start, events) = w[N]
  BY <1>1, OutcomeIs
<1>3. w[0] = State(0)
  <2>1. \A x \in Objects : references[x] = references[x] + Number(events, 0, "retain", x)
                                             - Number(events, 0, "release", x)
    <3> TAKE x \in Objects
    <3>1. Number(events, 0, "retain", x) = 0 /\ Number(events, 0, "release", x) = 0 /\ references[x] \in Nat
      BY NumberNext
    <3> QED BY <3>1
  <2>2. Tally(references, events, 0) = references
    BY <2>1 DEF Tally
  <2> QED BY <1>2, <2>2
<1>4. ASSUME NEW n \in 0..N - 1, w[n] = State(n) PROVE w[n + 1] = State(n + 1)
  <2>1. Effect(State(n), events[n + 1]) = State(n + 1)
    BY EventIs
  <2>2. w[n + 1] = Effect(w[n], events[n + 1])
    BY <1>2
  <2> QED BY <1>4, <2>1, <2>2
<1>5. 0..N \subseteq {n \in 0..N : w[n] = State(n)}
  <2> DEFINE T == {n \in 0..N : w[n] = State(n)}
  <2>1. 0 \in T
    BY <1>1, <1>3
  <2>2. \A n \in 0..N - 1 : n \in T => n + 1 \in T
    <3> SUFFICES ASSUME NEW n \in 0..N - 1, n \in T PROVE n + 1 \in T
      OBVIOUS
    <3>1. w[n + 1] = State(n + 1)
      BY <1>4
    <3>2. n + 1 \in 0..N
      BY <1>1
    <3> QED BY <3>1, <3>2
  <2> HIDE DEF T, N, State
  <2>3. 0..N \subseteq T
    BY <1>1, <2>1, <2>2, UpFrom
  <2> QED BY <2>3 DEF T
<1>6. w[N] = State(N)
  BY <1>1, <1>5
<1>7. Outcome(start, events) = State(N)
  BY <1>2, <1>6
<1> QED BY <1>7 DEF Perform

-----------------------------------------------------------------------------
(* Events of sequences of elements.                                         *)

\* A one-to-one map onto a set gives it as many elements.
LEMMA SameNumber ==
    ASSUME NEW S, IsFiniteSet(S), NEW T, NEW f \in [S -> T],
           \A a, b \in S : f[a] = f[b] => a = b, \A t \in T : \E s \in S : f[s] = t
    PROVE  IsFiniteSet(T) /\ Cardinality(T) = Cardinality(S)
<1>1. f \in Bijection(S, T)
  BY DEF Bijection, Injection, Surjection, IsInjective
<1> QED BY <1>1, FS_Bijection DEF ExistsBijection

\* The positions of an object in a sequence, and their number.
Where(elements, x) == {i \in 1..Len(elements) : elements[i] = x}
Count(elements, x) == Cardinality(Where(elements, x))

LEMMA WhereFinite ==
    ASSUME NEW elements, Len(elements) \in Nat, NEW x
    PROVE  IsFiniteSet(Where(elements, x)) /\ Count(elements, x) \in Nat
<1>1. IsFiniteSet(1..Len(elements))
  BY FS_Interval
<1>2. Where(elements, x) \subseteq 1..Len(elements)
  BY DEF Where
<1>3. IsFiniteSet(Where(elements, x))
  BY <1>1, <1>2, FS_Subset
<1> QED BY <1>3, FS_CardinalityType DEF Count

LEMMA NoneCounted == \A x : Count(<<>>, x) = 0
<1> TAKE x
<1>1. Where(<<>>, x) = {}
  BY DEF Where
<1> QED BY <1>1, FS_EmptySet DEF Count

\* The events of elements retained and then others released.
Counts(events, r, s) ==
    \A x \in Objects : /\ Number(events, Len(events), "retain", x) = Count(r, x)
                       /\ Number(events, Len(events), "release", x) = Count(s, x)

RetainsFirst(events, r) ==
    \A n \in 0..Len(events) - 1, x \in Objects :
        events[n + 1] = <<"retain", x>> =>
            Number(events, n, "release", x) = 0 /\ \E i \in 1..Len(r) : r[i] = x

LEMMA RetainsReleases ==
    ASSUME NEW r \in Seq(Objects), NEW s \in Seq(Objects)
    PROVE  LET events == Retains(r) \o Releases(s)
           IN  events \in Events /\ Counts(events, r, s) /\ RetainsFirst(events, r)
<1> DEFINE events == Retains(r) \o Releases(s)
<1>0. Len(r) \in Nat /\ Len(s) \in Nat
  OBVIOUS
<1>1. /\ Retains(r) \in Events /\ Len(Retains(r)) = Len(r)
      /\ \A i \in 1..Len(r) : Retains(r)[i] = <<"retain", r[i]>>
  BY DEF Retains, Events
<1>2. /\ Releases(s) \in Events /\ Len(Releases(s)) = Len(s)
      /\ \A i \in 1..Len(s) : Releases(s)[i] = <<"release", s[i]>>
  BY DEF Releases, Events
<1>3. /\ events \in Events /\ Len(events) = Len(r) + Len(s)
      /\ \A i \in 1..Len(r) + Len(s) :
            events[i] = IF i <= Len(r) THEN Retains(r)[i] ELSE Releases(s)[i - Len(r)]
  <2> DEFINE A == Retains(r)
             B == Releases(s)
  <2>1. A \in Events /\ B \in Events /\ Len(A) = Len(r) /\ Len(B) = Len(s) /\ events = A \o B
    BY <1>1, <1>2
  <2> HIDE DEF A, B
  <2>2. events \in Events /\ Len(events) = Len(A) + Len(B)
    BY <2>1 DEF Events
  <2>3. \A i \in 1..Len(A) + Len(B) : events[i] = IF i <= Len(A) THEN A[i] ELSE B[i - Len(A)]
    BY <2>1 DEF Events
  <2> QED BY <2>1, <2>2, <2>3 DEF A, B
<1> HIDE DEF events
<1>4. \A i \in 1..Len(r) : events[i] = <<"retain", r[i]>>
  BY <1>0, <1>1, <1>3
<1>5. \A i \in Len(r) + 1..Len(r) + Len(s) : events[i] = <<"release", s[i - Len(r)]>>
  <2> TAKE i \in Len(r) + 1..Len(r) + Len(s)
  <2>1. i \in 1..Len(r) + Len(s) /\ ~(i <= Len(r)) /\ i - Len(r) \in 1..Len(s)
    BY <1>0
  <2> QED BY <1>2, <1>3, <2>1
<1>6. ASSUME NEW x \in Objects
      PROVE  /\ Number(events, Len(events), "retain", x) = Count(r, x)
             /\ Number(events, Len(events), "release", x) = Count(s, x)
  <2>1. At(events, Len(events), "retain", x) = Where(r, x)
    <3>1. ASSUME NEW i \in 1..Len(r) + Len(s)
          PROVE  events[i] = <<"retain", x>> <=> i \in 1..Len(r) /\ r[i] = x
      <4>1. CASE i \in 1..Len(r)
        <5>1. events[i] = <<"retain", r[i]>>
          BY <1>4, <4>1
        <5> QED BY <4>1, <5>1
      <4>2. CASE i \in Len(r) + 1..Len(r) + Len(s)
        <5>1. events[i] = <<"release", s[i - Len(r)]>>
          BY <1>5, <4>2
        <5>2. i \notin 1..Len(r)
          BY <1>0, <4>2
        <5> QED BY <5>1, <5>2
      <4>3. i \in 1..Len(r) \/ i \in Len(r) + 1..Len(r) + Len(s)
        BY <1>0
      <4> QED BY <4>1, <4>2, <4>3
    <3>2. 1..Len(r) \subseteq 1..Len(r) + Len(s)
      BY <1>0
    <3> QED BY <1>3, <3>1, <3>2 DEF At, Where
  <2>2. Cardinality(At(events, Len(events), "release", x)) = Cardinality(Where(s, x))
    <3> DEFINE f == [i \in Where(s, x) |-> i + Len(r)]
               here == At(events, Len(events), "release", x)
    <3>1. ASSUME NEW i \in 1..Len(r) + Len(s)
          PROVE  events[i] = <<"release", x>> <=> i - Len(r) \in 1..Len(s) /\ s[i - Len(r)] = x
      <4>1. CASE i \in 1..Len(r)
        <5>1. events[i] = <<"retain", r[i]>>
          BY <1>4, <4>1
        <5>2. i - Len(r) \notin 1..Len(s)
          BY <1>0, <4>1
        <5> QED BY <5>1, <5>2
      <4>2. CASE i \in Len(r) + 1..Len(r) + Len(s)
        <5>1. i - Len(r) \in 1..Len(s)
          BY <1>0, <4>2
        <5>2. events[i] = <<"release", s[i - Len(r)]>>
          BY <1>5, <4>2
        <5> QED BY <5>1, <5>2
      <4>3. i \in 1..Len(r) \/ i \in Len(r) + 1..Len(r) + Len(s)
        BY <1>0
      <4> QED BY <4>1, <4>2, <4>3
    <3>2. ASSUME NEW i \in Where(s, x) PROVE f[i] \in here /\ f[i] = i + Len(r) /\ i \in Nat
      <4>1. i \in 1..Len(s) /\ s[i] = x /\ i + Len(r) \in 1..Len(r) + Len(s) /\ (i + Len(r)) - Len(r) = i
        BY <1>0 DEF Where
      <4>2. events[i + Len(r)] = <<"release", x>>
        BY <3>1, <4>1
      <4> QED BY <1>3, <4>1, <4>2 DEF At
    <3>3. ASSUME NEW i \in here PROVE \E j \in Where(s, x) : f[j] = i
      <4>1. i \in 1..Len(r) + Len(s) /\ events[i] = <<"release", x>>
        BY <1>3 DEF At
      <4>2. i - Len(r) \in Where(s, x)
        BY <3>1, <4>1 DEF Where
      <4>3. f[i - Len(r)] = i
        BY <1>0, <4>1, <4>2
      <4> HIDE DEF f
      <4> QED BY <4>2, <4>3
    <3>4. f \in [Where(s, x) -> here]
      BY <3>2
    <3>5. \A a, b \in Where(s, x) : f[a] = f[b] => a = b
      BY <1>0, <3>2
    <3>6. IsFiniteSet(Where(s, x))
      BY <1>0, WhereFinite
    <3> HIDE DEF f, here
    <3>7. Cardinality(here) = Cardinality(Where(s, x))
      BY <3>3, <3>4, <3>5, <3>6, SameNumber
    <3> QED BY <3>7 DEF here
  <2> QED BY <2>1, <2>2 DEF Number, Count
<1>7. ASSUME NEW n \in 0..Len(events) - 1, NEW x \in Objects, events[n + 1] = <<"retain", x>>
      PROVE  Number(events, n, "release", x) = 0 /\ \E i \in 1..Len(r) : r[i] = x
  <2>1. n + 1 \in 1..Len(r)
    <3> SUFFICES ASSUME n + 1 \in Len(r) + 1..Len(r) + Len(s) PROVE FALSE
      BY <1>0, <1>3
    <3>1. events[n + 1] = <<"release", s[n + 1 - Len(r)]>>
      BY <1>5
    <3> QED BY <1>7, <3>1
  <2>2. r[n + 1] = x
    BY <1>4, <1>7, <2>1
  <2>3. At(events, n, "release", x) = {}
    <3> SUFFICES ASSUME NEW i \in 1..n, events[i] = <<"release", x>> PROVE FALSE
      BY DEF At
    <3>1. i \in 1..Len(r)
      BY <1>0, <2>1
    <3>2. events[i] = <<"retain", r[i]>>
      BY <1>4, <3>1
    <3> QED BY <3>2
  <2> QED BY <2>1, <2>2, <2>3, FS_EmptySet DEF Number
<1> QED BY <1>3, <1>6, <1>7 DEF Counts, RetainsFirst, events

\* A call that retains elements that exist and then releases others that exist.
LEMMA Exchanges ==
    ASSUME references \in [Objects -> Nat], NEW r \in Seq(Objects), NEW s \in Seq(Objects),
           \A x \in Objects : Count(s, x) <= references[x],
           \A i \in 1..Len(r) : references[r[i]] # 0,
           Perform(Retains(r) \o Releases(s))
    PROVE  /\ references' = [x \in Objects |-> references[x] + Count(r, x) - Count(s, x)]
           /\ faulted' = faulted
<1> DEFINE events == Retains(r) \o Releases(s)
<1>1. events = Retains(r) \o Releases(s)
  OBVIOUS
<1> HIDE DEF events
<1>2. /\ events \in Events
      /\ \A x \in Objects : /\ Number(events, Len(events), "retain", x) = Count(r, x)
                            /\ Number(events, Len(events), "release", x) = Count(s, x)
      /\ \A n \in 0..Len(events) - 1, x \in Objects :
            events[n + 1] = <<"retain", x>> =>
               Number(events, n, "release", x) = 0 /\ \E i \in 1..Len(r) : r[i] = x
  <2>1. events \in Events /\ Counts(events, r, s) /\ RetainsFirst(events, r)
    BY <1>1, RetainsReleases
  <2> QED BY <2>1 DEF Counts, RetainsFirst
<1>3. Safe(references, events)
  <2>1. ASSUME NEW n \in 0..Len(events) - 1, NEW x \in Objects, events[n + 1] = <<"retain", x>>
        PROVE  Number(events, n, "release", x) < references[x]
    <3>1. Number(events, n, "release", x) = 0 /\ references[x] # 0 /\ references[x] \in Nat
      BY <1>2, <2>1
    <3> QED BY <3>1
  <2> QED BY <1>2, <2>1 DEF Safe
<1>4. references' = Tally(references, events, Len(events)) /\ faulted' = faulted
  BY <1>1, <1>2, <1>3, Performs
<1> QED BY <1>2, <1>4 DEF Tally

\* Only retained, or only released.
LEMMA OnlyRetains ==
    ASSUME references \in [Objects -> Nat], NEW r \in Seq(Objects),
           \A i \in 1..Len(r) : references[r[i]] # 0, Perform(Retains(r))
    PROVE  /\ references' = [x \in Objects |-> references[x] + Count(r, x)]
           /\ faulted' = faulted
<1> DEFINE s == <<>>
<1>1. s \in Seq(Objects) /\ \A x \in Objects : Count(s, x) = 0
  BY NoneCounted
<1>2. Retains(r) \o Releases(s) = Retains(r)
  BY DEF Retains, Releases
<1> HIDE DEF s
<1>3. /\ references' = [x \in Objects |-> references[x] + Count(r, x) - Count(s, x)]
      /\ faulted' = faulted
  <2>1. \A x \in Objects : Count(s, x) <= references[x]
    BY <1>1
  <2> QED BY <1>1, <1>2, <2>1, Exchanges
<1>4. \A x \in Objects : references[x] + Count(r, x) - Count(s, x) = references[x] + Count(r, x)
  <2> TAKE x \in Objects
  <2>1. references[x] \in Nat /\ Count(r, x) \in Nat /\ Count(s, x) = 0
    BY <1>1, WhereFinite
  <2> QED BY <2>1
<1> QED BY <1>3, <1>4

LEMMA OnlyReleases ==
    ASSUME references \in [Objects -> Nat], NEW s \in Seq(Objects),
           \A x \in Objects : Count(s, x) <= references[x], Perform(Releases(s))
    PROVE  /\ references' = [x \in Objects |-> references[x] - Count(s, x)]
           /\ faulted' = faulted
<1> DEFINE r == <<>>
<1>1. r \in Seq(Objects) /\ Len(r) = 0 /\ \A x \in Objects : Count(r, x) = 0
  BY NoneCounted
<1>2. Retains(r) \o Releases(s) = Releases(s)
  BY DEF Retains, Releases
<1> HIDE DEF r
<1>3. /\ references' = [x \in Objects |-> references[x] + Count(r, x) - Count(s, x)]
      /\ faulted' = faulted
  <2>1. Perform(Retains(r) \o Releases(s))
    BY <1>2
  <2>2. \A i \in 1..Len(r) : references[r[i]] # 0
    BY <1>1
  <2> QED BY <1>1, <2>1, <2>2, Exchanges
<1>4. \A x \in Objects : references[x] + Count(r, x) - Count(s, x) = references[x] - Count(s, x)
  <2> TAKE x \in Objects
  <2>1. references[x] \in Nat /\ Count(s, x) \in Nat /\ Count(r, x) = 0
    BY <1>1, WhereFinite
  <2> QED BY <2>1
<1> QED BY <1>3, <1>4

-----------------------------------------------------------------------------
(* The events of a fill: every old element is released, the value retained  *)
(* once for every place.                                                    *)

Fills(old, count, x) ==
    [i \in 1..2 * Len(old) |-> IF i % 2 = 1 THEN <<"release", old[(i + 1) \div 2]>> ELSE <<"retain", x>>]
        \o Retains(Times(count - Len(old), x))

LEMMA Halves ==
    /\ \A j \in Nat \ {0} : (2 * j - 1) % 2 = 1 /\ ((2 * j - 1) + 1) \div 2 = j /\ (2 * j) % 2 # 1
    /\ \A i \in Nat : i % 2 = 1 => (i + 1) \div 2 \in Nat \ {0} /\ i = 2 * ((i + 1) \div 2) - 1
    /\ \A i \in Nat \ {0} : i % 2 # 1 => i \div 2 \in Nat \ {0} /\ i = 2 * (i \div 2)
  OBVIOUS

LEMMA FillsIs ==
    ASSUME NEW old \in Seq(Objects), NEW count \in Nat, Len(old) <= count, NEW x \in Objects
    PROVE  LET events == Fills(old, count, x)
           IN  /\ events \in Events
               /\ \A y \in Objects : Number(events, Len(events), "release", y) = Count(old, y)
               /\ \A y \in Objects : Number(events, Len(events), "retain", y) = IF y = x THEN count ELSE 0
               /\ \A n \in 0..Len(events) - 1, y \in Objects : events[n + 1] = <<"retain", y>> => y = x
<1> DEFINE k == Len(old)
           A == [i \in 1..2 * k |-> IF i % 2 = 1 THEN <<"release", old[(i + 1) \div 2]>> ELSE <<"retain", x>>]
           B == Retains(Times(count - k, x))
           events == Fills(old, count, x)
<1>1. k \in Nat /\ count - k \in Nat /\ k <= count
  OBVIOUS
<1>2. /\ B \in Events /\ Len(B) = count - k
      /\ \A i \in 1..count - k : B[i] = <<"retain", x>>
  <2> DEFINE t == count - k
  <2>1. t \in Nat
    BY <1>1
  <2> HIDE DEF t
  <2>2. /\ Retains(Times(t, x)) \in Events /\ Len(Retains(Times(t, x))) = t
        /\ \A i \in 1..t : Retains(Times(t, x))[i] = <<"retain", x>>
    BY <2>1 DEF Retains, Times, Events
  <2> QED BY <2>2 DEF t
<1>3. /\ A \in Events /\ Len(A) = 2 * k
      /\ \A i \in 1..2 * k : /\ i % 2 = 1 => (i + 1) \div 2 \in 1..k /\ A[i] = <<"release", old[(i + 1) \div 2]>>
                             /\ i % 2 # 1 => A[i] = <<"retain", x>>
  <2>1. ASSUME NEW i \in 1..2 * k
        PROVE  /\ A[i] \in {"retain", "release"} \X Objects
               /\ i % 2 = 1 => (i + 1) \div 2 \in 1..k
    <3>1. i % 2 = 1 => (i + 1) \div 2 \in 1..k
      BY <1>1, Halves
    <3>2. i % 2 = 1 => old[(i + 1) \div 2] \in Objects
      BY <3>1
    <3> QED BY <3>1, <3>2
  <2>2. A \in Events
    <3>1. 2 * k \in Nat
      BY <1>1
    <3> HIDE DEF k
    <3> QED BY <2>1, <3>1 DEF Events
  <2> QED BY <1>1, <2>1, <2>2
<1>4. events = A \o B
  BY DEF Fills
<1> HIDE DEF A, B, events
<1>5. events \in Events /\ Len(events) = 2 * k + (count - k)
  <2>1. Len(A) = 2 * k /\ Len(B) = count - k /\ A \in Events /\ B \in Events
    BY <1>2, <1>3
  <2>2. events \in Events /\ Len(events) = Len(A) + Len(B)
    BY <1>4, <2>1, ConcatProperties, Zenon DEF Events
  <2> QED BY <2>1, <2>2
<1>6. \A i \in 1..2 * k + (count - k) : events[i] = IF i <= 2 * k THEN A[i] ELSE B[i - 2 * k]
  <2>1. Len(A) = 2 * k /\ Len(B) = count - k
    BY <1>2, <1>3
  <2>2. \A i \in 1..Len(A) + Len(B) : events[i] = IF i <= Len(A) THEN A[i] ELSE B[i - Len(A)]
    BY <1>2, <1>3, <1>4 DEF Events
  <2> QED BY <2>1, <2>2
<1> HIDE DEF k
<1>7. \A i \in 1..2 * k : /\ i % 2 = 1 => (i + 1) \div 2 \in 1..k /\ events[i] = <<"release", old[(i + 1) \div 2]>>
                          /\ i % 2 # 1 => events[i] = <<"retain", x>>
  <2> TAKE i \in 1..2 * k
  <2>1. i \in 1..2 * k + (count - k) /\ i <= 2 * k
    BY <1>1
  <2>2. events[i] = A[i]
    BY <1>6, <2>1
  <2> QED BY <1>3, <2>2
<1>8. \A i \in 2 * k + 1..k + count : events[i] = <<"retain", x>>
  <2> TAKE i \in 2 * k + 1..k + count
  <2>1. i \in 1..2 * k + (count - k) /\ ~(i <= 2 * k) /\ i - 2 * k \in 1..count - k
    BY <1>1
  <2>2. events[i] = B[i - 2 * k]
    BY <1>6, <2>1
  <2> QED BY <1>2, <2>1, <2>2
<1>9. Len(events) = k + count
  BY <1>1, <1>5
<1>10. ASSUME NEW y \in Objects PROVE Number(events, Len(events), "release", y) = Count(old, y)
  <2> DEFINE f == [j \in Where(old, y) |-> 2 * j - 1]
             here == At(events, Len(events), "release", y)
  <2>1. ASSUME NEW j \in Where(old, y) PROVE f[j] \in here /\ f[j] = 2 * j - 1 /\ j \in Nat
    <3>1. j \in 1..k /\ old[j] = y /\ j \in Nat \ {0}
      BY <1>1 DEF Where, k
    <3>2. 2 * j - 1 \in 1..2 * k /\ 2 * j - 1 \in 1..k + count
      BY <1>1, <3>1
    <3>3. (2 * j - 1) % 2 = 1 /\ ((2 * j - 1) + 1) \div 2 = j
      BY <3>1, Halves
    <3>4. events[2 * j - 1] = <<"release", old[j]>>
      BY <1>7, <3>2, <3>3
    <3> QED BY <1>9, <3>1, <3>2, <3>4 DEF At
  <2>2. ASSUME NEW i \in here PROVE \E j \in Where(old, y) : f[j] = i
    <3>1. i \in 1..k + count /\ events[i] = <<"release", y>>
      BY <1>9 DEF At
    <3>2. i \in 1..2 * k
      <4> SUFFICES ASSUME i \in 2 * k + 1..k + count PROVE FALSE
        BY <1>1, <3>1
      <4>1. events[i] = <<"retain", x>>
        BY <1>8
      <4> QED BY <3>1, <4>1
    <3>3. i % 2 = 1
      <4>1. i % 2 # 1 => events[i] = <<"retain", x>>
        BY <1>7, <3>2
      <4> QED BY <3>1, <4>1
    <3>4. (i + 1) \div 2 \in 1..k /\ events[i] = <<"release", old[(i + 1) \div 2]>>
      BY <1>7, <3>2, <3>3
    <3>5. (i + 1) \div 2 \in Where(old, y)
      BY <3>1, <3>4 DEF Where, k
    <3>6. i = 2 * ((i + 1) \div 2) - 1
      BY <3>2, <3>3, <1>1, Halves
    <3> QED BY <3>5, <3>6
  <2>3. f \in [Where(old, y) -> here]
    BY <2>1
  <2>4. \A a, b \in Where(old, y) : f[a] = f[b] => a = b
    <3> SUFFICES ASSUME NEW a \in Where(old, y), NEW b \in Where(old, y), f[a] = f[b] PROVE a = b
      OBVIOUS
    <3>1. a \in Nat /\ b \in Nat /\ 2 * a - 1 = 2 * b - 1
      BY <2>1
    <3> QED BY <3>1
  <2>5. IsFiniteSet(Where(old, y))
    BY <1>1, WhereFinite DEF k
  <2> HIDE DEF f, here
  <2>6. Cardinality(here) = Cardinality(Where(old, y))
    BY <2>2, <2>3, <2>4, <2>5, SameNumber
  <2> QED BY <2>6 DEF here, Number, Count
<1>11. ASSUME NEW i \in 1..k + count, NEW y \in Objects, events[i] = <<"retain", y>>
       PROVE  y = x /\ (i <= 2 * k => i % 2 # 1)
  <2>1. CASE i \in 1..2 * k
    <3>1. i % 2 # 1
      <4>1. i % 2 = 1 => events[i] = <<"release", old[(i + 1) \div 2]>>
        BY <1>7, <2>1
      <4> QED BY <1>11, <4>1
    <3>2. events[i] = <<"retain", x>>
      BY <1>7, <2>1, <3>1
    <3> QED BY <1>11, <3>1, <3>2
  <2>2. CASE i \in 2 * k + 1..k + count
    <3>1. events[i] = <<"retain", x>>
      BY <1>8, <2>2
    <3>2. ~(i <= 2 * k)
      BY <1>1, <2>2
    <3> QED BY <1>11, <3>1, <3>2
  <2>3. i \in 1..2 * k \/ i \in 2 * k + 1..k + count
    BY <1>1
  <2> QED BY <2>1, <2>2, <2>3
<1>12. ASSUME NEW y \in Objects, y # x PROVE Number(events, Len(events), "retain", y) = 0
  <2>1. At(events, Len(events), "retain", y) = {}
    BY <1>9, <1>11, <1>12 DEF At
  <2> QED BY <2>1, FS_EmptySet DEF Number
<1>13. Number(events, Len(events), "retain", x) = count
  <2> DEFINE f == [j \in 1..count |-> IF j <= k THEN 2 * j ELSE j + k]
             here == At(events, Len(events), "retain", x)
  <2>1. ASSUME NEW j \in 1..count PROVE f[j] \in here
    <3>1. CASE j <= k
      <4>1. 2 * j \in 1..2 * k /\ 2 * j \in 1..k + count /\ j \in Nat \ {0}
        BY <1>1, <3>1
      <4>2. (2 * j) % 2 # 1
        BY <4>1, Halves
      <4>3. events[2 * j] = <<"retain", x>>
        BY <1>7, <4>1, <4>2
      <4> QED BY <1>9, <3>1, <4>1, <4>3 DEF At
    <3>2. CASE ~(j <= k)
      <4>1. j + k \in 2 * k + 1..k + count /\ j + k \in 1..k + count
        BY <1>1, <3>2
      <4>2. events[j + k] = <<"retain", x>>
        BY <1>8, <4>1
      <4> QED BY <1>9, <3>2, <4>1, <4>2 DEF At
    <3> QED BY <3>1, <3>2
  <2>2. ASSUME NEW i \in here PROVE \E j \in 1..count : f[j] = i
    <3>1. i \in 1..k + count /\ events[i] = <<"retain", x>>
      BY <1>9 DEF At
    <3>2. CASE i <= 2 * k
      <4>1. i % 2 # 1 /\ i \in Nat \ {0}
        BY <1>1, <1>11, <3>1, <3>2
      <4>2. i \div 2 \in Nat \ {0} /\ i = 2 * (i \div 2)
        BY <4>1, Halves
      <4> DEFINE j == i \div 2
      <4>3. j \in Nat \ {0} /\ i = 2 * j
        BY <4>2
      <4> HIDE DEF j
      <4>4. j \in 1..count /\ j <= k
        BY <1>1, <3>2, <4>3
      <4> QED BY <4>3, <4>4
    <3>3. CASE ~(i <= 2 * k)
      <4>1. i - k \in 1..count /\ ~(i - k <= k) /\ (i - k) + k = i
        BY <1>1, <3>1, <3>3
      <4>2. f[i - k] = (i - k) + k
        BY <4>1
      <4> HIDE DEF f
      <4> QED BY <4>1, <4>2
    <3> QED BY <3>2, <3>3
  <2>3. f \in [1..count -> here]
    BY <2>1
  <2>4. \A a, b \in 1..count : f[a] = f[b] => a = b
    <3> SUFFICES ASSUME NEW a \in 1..count, NEW b \in 1..count, f[a] = f[b] PROVE a = b
      OBVIOUS
    <3>1. (IF a <= k THEN 2 * a ELSE a + k) = (IF b <= k THEN 2 * b ELSE b + k)
      OBVIOUS
    <3> HIDE DEF f
    <3> QED BY <1>1, <3>1
  <2>5. IsFiniteSet(1..count) /\ Cardinality(1..count) = count
    BY FS_Interval
  <2> HIDE DEF f, here
  <2>6. Cardinality(here) = Cardinality(1..count)
    BY <2>2, <2>3, <2>4, <2>5, SameNumber
  <2> QED BY <2>5, <2>6 DEF here, Number
<1>14. \A n \in 0..Len(events) - 1, y \in Objects : events[n + 1] = <<"retain", y>> => y = x
  <2> TAKE n \in 0..Len(events) - 1, y \in Objects
  <2>1. n + 1 \in 1..k + count
    BY <1>1, <1>9
  <2> QED BY <1>11, <2>1
<1> QED BY <1>5, <1>10, <1>12, <1>13, <1>14 DEF events

\* A fill with a value that the program holds throughout.
LEMMA FillPerforms ==
    ASSUME references \in [Objects -> Nat], NEW old \in Seq(Objects), NEW count \in Nat,
           Len(old) <= count, NEW x \in Objects,
           \A y \in Objects : Count(old, y) <= references[y], Count(old, x) < references[x],
           Perform(Fills(old, count, x))
    PROVE  /\ references' = [y \in Objects |-> references[y] + (IF y = x THEN count ELSE 0) - Count(old, y)]
           /\ faulted' = faulted
<1> DEFINE events == Fills(old, count, x)
<1>1. events \in Events
  BY FillsIs
<1>2. \A y \in Objects : Number(events, Len(events), "release", y) = Count(old, y)
  BY FillsIs
<1>3. \A y \in Objects : Number(events, Len(events), "retain", y) = IF y = x THEN count ELSE 0
  BY FillsIs
<1>4. \A n \in 0..Len(events) - 1, y \in Objects : events[n + 1] = <<"retain", y>> => y = x
  BY FillsIs
<1>5. Perform(events)
  OBVIOUS
<1> HIDE DEF events
<1>6. ASSUME NEW n \in 0..Len(events) - 1 PROVE Number(events, n, "release", x) < references[x]
  <2>1. n \in Nat /\ Len(events) \in Nat /\ n <= Len(events)
    BY <1>1 DEF Events
  <2>2. Number(events, n, "release", x) <= Number(events, Len(events), "release", x)
    BY <2>1, NumberGrows
  <2>3. Number(events, n, "release", x) \in Nat
    BY <2>1, NumberNext
  <2>4. Count(old, x) \in Nat /\ references[x] \in Nat
    BY WhereFinite
  <2>5. Number(events, Len(events), "release", x) = Count(old, x)
    BY <1>2
  <2> QED BY <2>2, <2>3, <2>4, <2>5
<1>7. Safe(references, events)
  BY <1>2, <1>4, <1>6 DEF Safe
<1>8. references' = Tally(references, events, Len(events)) /\ faulted' = faulted
  BY <1>1, <1>5, <1>7, Performs
<1> QED BY <1>2, <1>3, <1>8 DEF Tally

-----------------------------------------------------------------------------
(* The Buffers and the places that refer to an object.                      *)

BufferShape == [open : BOOLEAN, count : 0..MaxCount, cells : Seq(Objects \cup {Junk})]

\* Buffers whose live elements lie in their storage and were stored; only open ones have any.
Shaped(bufs) ==
    /\ bufs \in [Buffers -> BufferShape]
    /\ \A b \in Buffers :
          /\ bufs[b].count <= Len(bufs[b].cells)
          /\ \A i \in 1..bufs[b].count : bufs[b].cells[i] \in Objects
          /\ bufs[b].open \/ bufs[b].count = 0

\* Places, with the Buffers as an argument.
PlacesIn(bufs, x) ==
    {place \in Buffers \X (1..MaxCount) :
        place[2] <= bufs[place[1]].count /\ bufs[place[1]].cells[place[2]] = x}

\* Every count is what the program holds and the live elements that refer to the object.
BufferInv ==
    /\ references \in [Objects -> Nat] /\ held \in [Objects -> 0..MaxHeld]
    /\ Shaped(buffer) /\ faulted = FALSE
    /\ \A x \in Objects : references[x] = held[x] + Cardinality(PlacesIn(buffer, x))

LEMMA PlacesFinite ==
    ASSUME NEW bufs, NEW x
    PROVE  IsFiniteSet(PlacesIn(bufs, x)) /\ Cardinality(PlacesIn(bufs, x)) \in Nat
<1>1. IsFiniteSet(Buffers) /\ IsFiniteSet(1..MaxCount)
  BY BoundsAssumption, FS_Interval
<1>2. IsFiniteSet(Buffers \X (1..MaxCount))
  BY <1>1, FS_Product
<1>3. PlacesIn(bufs, x) \subseteq Buffers \X (1..MaxCount)
  BY DEF PlacesIn
<1>4. IsFiniteSet(PlacesIn(bufs, x))
  BY <1>2, <1>3, FS_Subset
<1> QED BY <1>4, FS_CardinalityType

\* Membership, without the pair.
LEMMA PlaceIs ==
    ASSUME NEW bufs, NEW x, NEW b \in Buffers, NEW i \in Nat
    PROVE  <<b, i>> \in PlacesIn(bufs, x) <=>
              i \in 1..MaxCount /\ i <= bufs[b].count /\ bufs[b].cells[i] = x
  BY DEF PlacesIn

LEMMA PlacesArePairs ==
    ASSUME NEW bufs, NEW x, NEW place \in PlacesIn(bufs, x)
    PROVE  \E b \in Buffers, i \in 1..MaxCount : place = <<b, i>>
  BY DEF PlacesIn

\* Part of a set replaced by another of new elements.
LEMMA Replaced ==
    ASSUME NEW S, IsFiniteSet(S), NEW out, out \subseteq S, NEW in, IsFiniteSet(in),
           in \cap (S \ out) = {}
    PROVE  Cardinality((S \ out) \cup in) = Cardinality(S) - Cardinality(out) + Cardinality(in)
<1>1. IsFiniteSet(S \ out) /\ Cardinality(S \ out) = Cardinality(S) - Cardinality(S \cap out)
  BY FS_Difference
<1>2. S \cap out = out
  OBVIOUS
<1>3. (S \ out) \cap in = {}
  OBVIOUS
<1>4. Cardinality((S \ out) \cup in) = Cardinality(S \ out) + Cardinality(in) - Cardinality((S \ out) \cap in)
  BY <1>1, FS_Union
<1>5. Cardinality({}) = 0
  BY FS_EmptySet
<1>6. IsFiniteSet(out)
  BY FS_Subset
<1>7. Cardinality(S) \in Nat /\ Cardinality(out) \in Nat /\ Cardinality(in) \in Nat
  BY <1>6, FS_CardinalityType
<1>8. Cardinality(S \ out) = Cardinality(S) - Cardinality(out)
  BY <1>1, <1>2
<1>9. Cardinality((S \ out) \cap in) = 0
  BY <1>3, <1>5
<1> QED BY <1>4, <1>7, <1>8, <1>9

\* The live elements of a range, and the places that hold an object in it.
Between(bufs, b, first, last, x) ==
    {place \in PlacesIn(bufs, x) : place[1] = b /\ place[2] \in first + 1..last}

LEMMA ElementsAre ==
    ASSUME Shaped(buffer), NEW b \in Buffers, NEW first \in Nat, NEW last \in Nat,
           first <= last, last <= buffer[b].count
    PROVE  /\ Elements(b, first, last) \in Seq(Objects)
           /\ Len(Elements(b, first, last)) = last - first
           /\ \A i \in 1..last - first : Elements(b, first, last)[i] = buffer[b].cells[first + i]
           /\ \A x \in Objects :
                 Cardinality(Between(buffer, b, first, last, x)) = Count(Elements(b, first, last), x)
<1> DEFINE cells == buffer[b].cells
           part == Elements(b, first, last)
<1>1. /\ cells \in Seq(Objects \cup {Junk}) /\ buffer[b].count \in 0..MaxCount /\ MaxCount \in Nat
      /\ buffer[b].count <= Len(cells) /\ \A i \in 1..buffer[b].count : cells[i] \in Objects
  BY BoundsAssumption DEF Shaped, BufferShape
<1>2. part = SubSeq(cells, first + 1, last)
  BY DEF Elements
<1> HIDE DEF cells, part
<1>3. /\ Len(part) = last - first
      /\ \A i \in 1..last - first : part[i] = cells[first + i]
      /\ part = [i \in 1..last - first |-> cells[first + i]]
  <2>1. /\ last - first \in Nat /\ last <= Len(cells)
        /\ \A i \in 1..last - first : (first + 1) + i - 1 = first + i
    BY <1>1
  <2>2. part = [i \in 1..last - first |-> cells[first + i]]
    BY <1>1, <1>2, <2>1
  <2> QED BY <2>1, <2>2
<1>4. part \in Seq(Objects)
  <2>1. \A i \in 1..last - first : cells[first + i] \in Objects
    BY <1>1
  <2>2. last - first \in Nat
    OBVIOUS
  <2> QED BY <1>3, <2>1, <2>2
<1>5. ASSUME NEW x \in Objects
      PROVE  Cardinality(Between(buffer, b, first, last, x)) = Count(part, x)
  <2> DEFINE f == [i \in Where(part, x) |-> <<b, first + i>>]
             here == Between(buffer, b, first, last, x)
  <2>1. ASSUME NEW i \in Where(part, x) PROVE f[i] \in here /\ f[i] = <<b, first + i>> /\ i \in Nat
    <3>1. i \in 1..last - first /\ part[i] = x
      BY <1>3 DEF Where
    <3>2. first + i \in 1..MaxCount /\ first + i <= buffer[b].count /\ first + i \in first + 1..last
      BY <1>1, <3>1
    <3>3. cells[first + i] = x
      BY <1>3, <3>1
    <3>4. <<b, first + i>> \in PlacesIn(buffer, x)
      BY <3>2, <3>3, PlaceIs DEF cells
    <3> QED BY <3>1, <3>2, <3>4 DEF Between
  <2>2. ASSUME NEW place \in here PROVE \E i \in Where(part, x) : f[i] = place
    <3>1. place \in PlacesIn(buffer, x) /\ place[1] = b /\ place[2] \in first + 1..last
      BY DEF Between
    <3>2. PICK c \in Buffers, n \in 1..MaxCount : place = <<c, n>>
      BY <3>1, PlacesArePairs
    <3>3. c = b /\ n \in first + 1..last /\ n \in Nat
      BY <3>1, <3>2
    <3>4. cells[n] = x
      BY <3>1, <3>2, <3>3, PlaceIs DEF cells
    <3>5. n - first \in 1..last - first /\ first + (n - first) = n
      BY <3>3
    <3>6. n - first \in Where(part, x)
      BY <1>3, <3>4, <3>5 DEF Where
    <3>7. f[n - first] = <<b, n>>
      BY <3>5, <3>6
    <3> HIDE DEF f
    <3> QED BY <3>2, <3>3, <3>6, <3>7
  <2>3. f \in [Where(part, x) -> here]
    BY <2>1
  <2>4. \A i, j \in Where(part, x) : f[i] = f[j] => i = j
    <3> SUFFICES ASSUME NEW i \in Where(part, x), NEW j \in Where(part, x), f[i] = f[j] PROVE i = j
      OBVIOUS
    <3>1. <<b, first + i>> = <<b, first + j>> /\ i \in Nat /\ j \in Nat
      BY <2>1
    <3>2. first + i = first + j
      BY <3>1
    <3> QED BY <3>1, <3>2
  <2>5. IsFiniteSet(Where(part, x))
    BY <1>3, <1>4, WhereFinite
  <2> HIDE DEF f, here
  <2>6. Cardinality(here) = Cardinality(Where(part, x))
    BY <2>2, <2>3, <2>4, <2>5, SameNumber
  <2> QED BY <2>6 DEF here, Count
<1> QED BY <1>3, <1>4, <1>5 DEF part, cells

\* The places that new elements from index first on take.
Placed(b, first, new, x) == {<<b, first + i>> : i \in Where(new, x)}

LEMMA NewPlaces ==
    ASSUME NEW b, NEW first \in Nat, NEW new \in Seq(Objects), NEW x
    PROVE  /\ IsFiniteSet(Placed(b, first, new, x))
           /\ Cardinality(Placed(b, first, new, x)) = Count(new, x)
<1> DEFINE in == {<<b, first + i>> : i \in Where(new, x)}
           f == [i \in Where(new, x) |-> <<b, first + i>>]
<1>1. \A i \in Where(new, x) : i \in Nat
  BY DEF Where
<1>2. f \in [Where(new, x) -> in] /\ \A place \in in : \E i \in Where(new, x) : f[i] = place
  OBVIOUS
<1>3. \A i, j \in Where(new, x) : f[i] = f[j] => i = j
  <2> SUFFICES ASSUME NEW i \in Where(new, x), NEW j \in Where(new, x), f[i] = f[j] PROVE i = j
    OBVIOUS
  <2>1. <<b, first + i>> = <<b, first + j>>
    OBVIOUS
  <2>2. first + i = first + j
    BY <2>1
  <2> QED BY <1>1, <2>2
<1>4. IsFiniteSet(Where(new, x))
  BY WhereFinite
<1> HIDE DEF f, in
<1>5. IsFiniteSet(in) /\ Cardinality(in) = Cardinality(Where(new, x))
  BY <1>2, <1>3, <1>4, SameNumber
<1> QED BY <1>5 DEF in, Count, Placed

\* One Buffer with new elements from index first on: those they overwrite go, they come.
Writes(after, b, first, new) ==
    LET count == Greater(buffer[b].count, first + Len(new))
    IN  /\ after \in [Buffers -> BufferShape]
        /\ \A c \in Buffers : c # b => after[c] = buffer[c]
        /\ first <= buffer[b].count
        /\ after[b].open /\ after[b].count = count /\ count <= Len(after[b].cells)
        /\ \A i \in 1..count :
              after[b].cells[i] = IF i \in first + 1..first + Len(new) THEN new[i - first]
                                  ELSE buffer[b].cells[i]

\* The elements in the way of new ones from index first on.
Overwritten(b, first, new) == Elements(b, first, Lesser(first + Len(new), buffer[b].count))

LEMMA WritesIs ==
    ASSUME Shaped(buffer), NEW b \in Buffers, NEW first \in Nat, NEW new \in Seq(Objects), NEW after,
           Writes(after, b, first, new)
    PROVE  /\ Shaped(after)
           /\ \A x \in Objects :
                 Cardinality(PlacesIn(after, x))
                   = Cardinality(PlacesIn(buffer, x)) - Count(Overwritten(b, first, new), x) + Count(new, x)
           /\ Overwritten(b, first, new) \in Seq(Objects)
<1> DEFINE old == buffer[b].count
           len == Len(new)
           count == Greater(old, first + len)
           last == Lesser(first + len, old)
           cells == after[b].cells
           before == buffer[b].cells
<1>1. /\ old \in Nat /\ len \in Nat /\ first <= old /\ MaxCount \in Nat /\ count \in 0..MaxCount
      /\ count <= Len(cells) /\ after[b].count = count
      /\ \A i \in 1..old : before[i] \in Objects
      /\ \A i \in 1..len : new[i] \in Objects
      /\ \A i \in 1..count : cells[i] = IF i \in first + 1..first + len THEN new[i - first] ELSE before[i]
  BY BoundsAssumption DEF Shaped, BufferShape, Writes
<1>2. /\ count \in Nat /\ old <= count /\ first + len <= count /\ (count = old \/ count = first + len)
      /\ last \in Nat /\ first <= last /\ last <= old /\ last <= first + len
      /\ (last = old \/ last = first + len)
  BY <1>1 DEF Greater, Lesser
<1> HIDE DEF old, len, count, last, cells, before
<1>3. \A i \in 1..count : i \notin first + 1..first + len => i \in 1..old
  BY <1>1, <1>2
<1>4. \A i \in first + 1..first + len : i - first \in 1..len /\ i \in 1..count
  BY <1>1, <1>2
<1>5. \A i \in 1..count : cells[i] \in Objects
  <2> TAKE i \in 1..count
  <2>1. CASE i \in first + 1..first + len
    BY <1>1, <1>4, <2>1
  <2>2. CASE i \notin first + 1..first + len
    BY <1>1, <1>3, <2>2
  <2> QED BY <2>1, <2>2
<1>6. Shaped(after)
  <2> SUFFICES ASSUME NEW c \in Buffers
               PROVE  /\ after[c].count <= Len(after[c].cells)
                      /\ \A i \in 1..after[c].count : after[c].cells[i] \in Objects
                      /\ after[c].open \/ after[c].count = 0
    BY DEF Shaped, Writes
  <2>1. CASE c = b
    BY <1>1, <1>5, <2>1 DEF Writes, cells
  <2>2. CASE c # b
    BY <2>2 DEF Writes, Shaped
  <2> QED BY <2>1, <2>2
<1>7. Overwritten(b, first, new) = Elements(b, first, last)
  BY DEF Overwritten, last, len, old
<1>8. last <= buffer[b].count
  BY <1>2 DEF old
<1>9. ASSUME NEW x \in Objects
      PROVE  Cardinality(PlacesIn(after, x))
               = Cardinality(PlacesIn(buffer, x)) - Count(Elements(b, first, last), x) + Count(new, x)
  <2> DEFINE S == PlacesIn(buffer, x)
             T == PlacesIn(after, x)
             out == Between(buffer, b, first, last, x)
             in == Placed(b, first, new, x)
  <2>1. IsFiniteSet(in) /\ Cardinality(in) = Count(new, x)
    BY NewPlaces
  <2>2. Cardinality(out) = Count(Elements(b, first, last), x)
    BY <1>2, <1>8, ElementsAre
  <2>3. IsFiniteSet(S) /\ out \subseteq S
    BY PlacesFinite DEF Between
  <2>4. ASSUME NEW i \in 1..MaxCount PROVE <<b, i>> \in in <=> i \in first + 1..first + len /\ new[i - first] = x
    <3>1. ASSUME <<b, i>> \in in PROVE i \in first + 1..first + len /\ new[i - first] = x
      <4>1. PICK j \in Where(new, x) : <<b, i>> = <<b, first + j>>
        BY <3>1 DEF Placed
      <4>2. j \in 1..len /\ new[j] = x /\ i = first + j
        BY <4>1 DEF Where, len
      <4>3. i - first = j /\ i \in first + 1..first + len
        BY <1>1, <4>2
      <4> QED BY <4>2, <4>3
    <3>2. ASSUME i \in first + 1..first + len, new[i - first] = x PROVE <<b, i>> \in in
      <4>1. i - first \in Where(new, x) /\ first + (i - first) = i
        BY <1>4, <3>2 DEF Where, len
      <4> QED BY <4>1 DEF Placed
    <3> QED BY <3>1, <3>2
  <2>5. ASSUME NEW i \in 1..MaxCount PROVE <<b, i>> \in out <=> <<b, i>> \in S /\ i \in first + 1..last
    BY DEF Between
  <2>6. ASSUME NEW i \in 1..MaxCount PROVE /\ <<b, i>> \in T <=> i <= count /\ cells[i] = x
                                           /\ <<b, i>> \in S <=> i <= old /\ before[i] = x
    <3>1. i \in Nat /\ after[b].count = count
      BY <1>1
    <3>2. <<b, i>> \in T <=> i <= after[b].count /\ after[b].cells[i] = x
      BY <3>1 DEF PlacesIn
    <3>3. <<b, i>> \in S <=> i <= buffer[b].count /\ buffer[b].cells[i] = x
      BY <3>1 DEF PlacesIn
    <3> QED BY <3>1, <3>2, <3>3 DEF cells, before, old
  <2>7. ASSUME NEW c \in Buffers, c # b, NEW i \in 1..MaxCount
        PROVE  /\ <<c, i>> \in T <=> <<c, i>> \in S
               /\ <<c, i>> \notin in /\ <<c, i>> \notin out
    <3>1. after[c] = buffer[c] /\ i \in Nat
      BY <1>1, <2>7 DEF Writes
    <3>2. <<c, i>> \in T <=> <<c, i>> \in S
      BY <3>1 DEF PlacesIn
    <3>3. <<c, i>> \notin out
      BY <2>7 DEF Between
    <3>4. <<c, i>> \notin in
      BY <2>7 DEF Placed
    <3> QED BY <3>2, <3>3, <3>4
  <2>8. \A place \in in : \E i \in 1..MaxCount : place = <<b, i>>
    <3> TAKE place \in in
    <3>1. PICK j \in Where(new, x) : place = <<b, first + j>>
      BY DEF Placed
    <3>2. first + j \in 1..MaxCount
      BY <1>1, <1>2 DEF Where, len
    <3> QED BY <3>1, <3>2
  <2>9. ASSUME NEW i \in 1..MaxCount
        PROVE  <<b, i>> \in T <=> (<<b, i>> \in S /\ <<b, i>> \notin out) \/ <<b, i>> \in in
    <3>1. CASE i \in first + 1..first + len
      <4>1. i <= count /\ cells[i] = new[i - first]
        BY <1>1, <1>4, <3>1
      <4>2. i <= old => i \in first + 1..last
        BY <1>1, <1>2, <3>1
      <4> QED BY <2>4, <2>5, <2>6, <3>1, <4>1, <4>2
    <3>2. CASE i \notin first + 1..first + len
      <4>1. i \notin first + 1..last
        BY <1>1, <1>2, <3>2
      <4>2. i <= count => i <= old /\ cells[i] = before[i]
        <5> HAVE i <= count
        <5>1. i \in 1..count
          BY <1>1
        <5>2. i \in 1..old
          BY <1>3, <3>2, <5>1
        <5>3. cells[i] = before[i]
          BY <1>1, <3>2, <5>1
        <5> QED BY <5>2, <5>3
      <4>3. i <= old => i <= count
        BY <1>1, <1>2
      <4> QED BY <2>4, <2>5, <2>6, <3>2, <4>1, <4>2, <4>3
    <3> QED BY <3>1, <3>2
  <2>10. \A place \in S \cup T \cup in : \E c \in Buffers, i \in 1..MaxCount : place = <<c, i>>
    BY <2>8, PlacesArePairs
  <2>11. in \cap (S \ out) = {}
    <3> SUFFICES ASSUME NEW i \in 1..MaxCount, <<b, i>> \in in, <<b, i>> \in S PROVE <<b, i>> \in out
      BY <2>8
    <3>1. i \in first + 1..first + len /\ i <= old
      BY <2>4, <2>6
    <3>2. i \in first + 1..last
      BY <1>1, <1>2, <3>1
    <3> QED BY <2>5, <3>2
  <2> HIDE DEF S, T, in, out
  <2>12. T = (S \ out) \cup in
    <3>1. ASSUME NEW c \in Buffers, NEW i \in 1..MaxCount
          PROVE  <<c, i>> \in T <=> <<c, i>> \in (S \ out) \cup in
      BY <2>7, <2>9
    <3> QED BY <2>10, <3>1
  <2>13. Cardinality((S \ out) \cup in) = Cardinality(S) - Cardinality(out) + Cardinality(in)
    BY <2>1, <2>3, <2>11, Replaced
  <2> QED BY <2>1, <2>2, <2>12, <2>13 DEF S, T
<1>10. Elements(b, first, last) \in Seq(Objects)
  BY <1>2, <1>8, ElementsAre
<1> QED BY <1>6, <1>7, <1>9, <1>10

\* One Buffer cut to its first n elements.
Cuts(after, b, n) ==
    /\ after \in [Buffers -> BufferShape]
    /\ \A c \in Buffers : c # b => after[c] = buffer[c]
    /\ n <= buffer[b].count /\ after[b].count = n /\ n <= Len(after[b].cells)
    /\ after[b].open \/ n = 0
    /\ \A i \in 1..n : after[b].cells[i] = buffer[b].cells[i]

LEMMA CutsIs ==
    ASSUME Shaped(buffer), NEW b \in Buffers, NEW n \in Nat, NEW after, Cuts(after, b, n)
    PROVE  /\ Shaped(after)
           /\ \A x \in Objects :
                 Cardinality(PlacesIn(after, x))
                   = Cardinality(PlacesIn(buffer, x)) - Count(Elements(b, n, buffer[b].count), x)
           /\ Elements(b, n, buffer[b].count) \in Seq(Objects)
<1> DEFINE old == buffer[b].count
<1>1. old \in Nat /\ n <= old /\ old \in 0..MaxCount /\ MaxCount \in Nat /\ old <= buffer[b].count
  BY BoundsAssumption DEF Shaped, BufferShape, Cuts
<1>0. /\ Elements(b, n, old) \in Seq(Objects)
      /\ \A x \in Objects :
            Cardinality(Between(buffer, b, n, old, x)) = Count(Elements(b, n, old), x)
  <2> HIDE DEF old
  <2> QED BY <1>1, ElementsAre
<1>2. Shaped(after)
  <2> SUFFICES ASSUME NEW c \in Buffers
               PROVE  /\ after[c].count <= Len(after[c].cells)
                      /\ \A i \in 1..after[c].count : after[c].cells[i] \in Objects
                      /\ after[c].open \/ after[c].count = 0
    BY DEF Shaped, Cuts
  <2>1. CASE c = b
    <3>1. \A i \in 1..n : i \in 1..old
      BY <1>1
    <3> QED BY <2>1, <3>1 DEF Cuts, Shaped
  <2>2. CASE c # b
    BY <2>2 DEF Cuts, Shaped
  <2> QED BY <2>1, <2>2
<1>3. ASSUME NEW x \in Objects
      PROVE  Cardinality(PlacesIn(after, x))
               = Cardinality(PlacesIn(buffer, x)) - Count(Elements(b, n, old), x)
  <2> DEFINE S == PlacesIn(buffer, x)
             T == PlacesIn(after, x)
             out == Between(buffer, b, n, old, x)
  <2>1. Cardinality(out) = Count(Elements(b, n, old), x)
    BY <1>0
  <2>2. IsFiniteSet(S) /\ out \subseteq S
    BY PlacesFinite DEF Between
  <2>3. ASSUME NEW c \in Buffers, NEW i \in 1..MaxCount PROVE <<c, i>> \in T <=> <<c, i>> \in S \ out
    <3>1. CASE c = b
      <4>1. <<b, i>> \in T <=> i <= n /\ after[b].cells[i] = x
        BY DEF PlacesIn, Cuts
      <4>2. <<b, i>> \in S <=> i <= old /\ buffer[b].cells[i] = x
        BY DEF PlacesIn
      <4>3. <<b, i>> \in out <=> <<b, i>> \in S /\ i \in n + 1..old
        BY DEF Between
      <4>4. i <= n => i <= old /\ after[b].cells[i] = buffer[b].cells[i]
        <5> HAVE i <= n
        <5>1. i \in 1..n
          BY <1>1
        <5> QED BY <1>1, <5>1 DEF Cuts
      <4>5. i \in n + 1..old <=> ~(i <= n) /\ i <= old
        BY <1>1
      <4> HIDE DEF S, T, out, old
      <4> QED BY <3>1, <4>1, <4>2, <4>3, <4>4, <4>5
    <3>2. CASE c # b
      <4>1. after[c] = buffer[c]
        BY <3>2 DEF Cuts
      <4>2. <<c, i>> \in T <=> <<c, i>> \in S
        BY <4>1 DEF PlacesIn
      <4>3. <<c, i>> \notin out
        BY <3>2 DEF Between
      <4> QED BY <4>2, <4>3
    <3> QED BY <3>1, <3>2
  <2>4. \A place \in S \cup T : \E c \in Buffers, i \in 1..MaxCount : place = <<c, i>>
    BY PlacesArePairs
  <2> HIDE DEF S, T, out
  <2>5. T = (S \ out) \cup {}
    BY <2>2, <2>3, <2>4
  <2>6. Cardinality((S \ out) \cup {}) = Cardinality(S) - Cardinality(out) + Cardinality({})
    BY <2>2, FS_EmptySet, Replaced
  <2>7. Cardinality({}) = 0 /\ Cardinality(S) \in Nat /\ Cardinality(out) \in Nat
    BY <2>2, FS_EmptySet, FS_Subset, FS_CardinalityType
  <2> QED BY <2>1, <2>5, <2>6, <2>7 DEF S, T
<1> QED BY <1>0, <1>2, <1>3

\* Nothing between an index and itself.
LEMMA NothingBetween ==
    ASSUME Shaped(buffer), NEW b \in Buffers, NEW x \in Objects
    PROVE  Count(Elements(b, buffer[b].count, buffer[b].count), x) = 0
<1> DEFINE n == buffer[b].count
           part == Elements(b, n, n)
<1>1. n \in Nat /\ n <= buffer[b].count /\ n - n = 0 /\ n <= n
  BY DEF Shaped, BufferShape
<1>2. Len(part) = 0
  <2> HIDE DEF n
  <2>1. Len(Elements(b, n, n)) = n - n
    BY <1>1, ElementsAre
  <2> QED BY <1>1, <2>1
<1> HIDE DEF part
<1>3. Where(part, x) = {}
  BY <1>2 DEF Where
<1> QED BY <1>3, FS_EmptySet DEF Count, part

\* Live elements are among the places that refer to their object.
LEMMA LiveCounted ==
    ASSUME BufferInv, NEW b \in Buffers, NEW first \in Nat, NEW last \in Nat,
           first <= last, last <= buffer[b].count
    PROVE  /\ \A x \in Objects : Count(Elements(b, first, last), x) <= Cardinality(PlacesIn(buffer, x))
           /\ \A x \in Objects : Count(Elements(b, first, last), x) <= references[x]
           /\ \A i \in 1..Len(Elements(b, first, last)) : references[Elements(b, first, last)[i]] # 0
<1> DEFINE part == Elements(b, first, last)
<1>1. Shaped(buffer)
  BY DEF BufferInv
<1>2. part \in Seq(Objects)
  BY <1>1, ElementsAre
<1>3. ASSUME NEW x \in Objects
      PROVE  /\ Count(part, x) <= Cardinality(PlacesIn(buffer, x))
             /\ Count(part, x) <= references[x]
             /\ Count(part, x) \in Nat
  <2>1. Cardinality(Between(buffer, b, first, last, x)) = Count(part, x)
    BY <1>1, ElementsAre
  <2>2. IsFiniteSet(PlacesIn(buffer, x)) /\ Cardinality(PlacesIn(buffer, x)) \in Nat
    BY PlacesFinite
  <2>3. Between(buffer, b, first, last, x) \subseteq PlacesIn(buffer, x)
    BY DEF Between
  <2>4. Cardinality(Between(buffer, b, first, last, x)) <= Cardinality(PlacesIn(buffer, x))
    BY <2>2, <2>3, FS_Subset
  <2>5. references[x] = held[x] + Cardinality(PlacesIn(buffer, x)) /\ held[x] \in Nat
    BY BoundsAssumption DEF BufferInv
  <2>6. Count(part, x) \in Nat
    BY <1>2, WhereFinite
  <2> HIDE DEF part
  <2> QED BY <2>1, <2>2, <2>4, <2>5, <2>6
<1> HIDE DEF part
<1>4. ASSUME NEW i \in 1..Len(part) PROVE references[part[i]] # 0
  <2>1. part[i] \in Objects /\ i \in Where(part, part[i])
    BY <1>2 DEF Where
  <2>2. IsFiniteSet(Where(part, part[i]))
    BY <1>2, WhereFinite
  <2>3. Count(part, part[i]) # 0
    BY <2>1, <2>2, FS_EmptySet DEF Count
  <2>4. Count(part, part[i]) \in Nat /\ Count(part, part[i]) <= references[part[i]]
    BY <1>3, <2>1
  <2>5. references[part[i]] \in Nat
    BY <2>1 DEF BufferInv
  <2> QED BY <2>3, <2>4, <2>5
<1> QED BY <1>3, <1>4 DEF part

\* One element, and the same one many times.
LEMMA TimesCounted ==
    ASSUME NEW n \in Nat, NEW x \in Objects
    PROVE  /\ Times(n, x) \in Seq(Objects) /\ Len(Times(n, x)) = n
           /\ \A i \in 1..n : Times(n, x)[i] = x
           /\ \A y \in Objects : Count(Times(n, x), y) = IF y = x THEN n ELSE 0
<1> DEFINE t == Times(n, x)
<1>1. t \in Seq(Objects) /\ Len(t) = n /\ \A i \in 1..n : t[i] = x
  BY DEF Times
<1> HIDE DEF t
<1>2. Where(t, x) = 1..n /\ \A y \in Objects : y # x => Where(t, y) = {}
  BY <1>1 DEF Where
<1>3. Cardinality(1..n) = n /\ Cardinality({}) = 0
  BY FS_Interval, FS_EmptySet
<1>4. \A y \in Objects : Count(t, y) = IF y = x THEN n ELSE 0
  BY <1>2, <1>3 DEF Count
<1> QED BY <1>1, <1>4 DEF t

LEMMA OneCounted ==
    ASSUME NEW x \in Objects
    PROVE  /\ <<x>> \in Seq(Objects) /\ Len(<<x>>) = 1 /\ <<x>>[1] = x
           /\ \A y \in Objects : Count(<<x>>, y) = IF y = x THEN 1 ELSE 0
<1>1. <<x>> = Times(1, x)
  BY DEF Times
<1>2. \A y \in Objects : Count(Times(1, x), y) = IF y = x THEN 1 ELSE 0
  BY TimesCounted
<1> QED BY <1>1, <1>2

-----------------------------------------------------------------------------
(* The operations keep the invariant.                                       *)

\* Counts that add up again are numbers, and the invariant holds.
LEMMA Balanced ==
    ASSUME Shaped(buffer'), faulted' = FALSE, held' \in [Objects -> 0..MaxHeld],
           references' = [x \in Objects |-> references'[x]],
           \A x \in Objects : references'[x] = held'[x] + Cardinality(PlacesIn(buffer', x))
    PROVE  BufferInv'
<1>1. ASSUME NEW x \in Objects PROVE references'[x] \in Nat
  <2>1. held'[x] \in 0..MaxHeld /\ MaxHeld \in Nat
    BY BoundsAssumption
  <2>2. Cardinality(PlacesIn(buffer', x)) \in Nat
    BY PlacesFinite
  <2>3. references'[x] = held'[x] + Cardinality(PlacesIn(buffer', x))
    OBVIOUS
  <2> QED BY <2>1, <2>2, <2>3
<1>2. references' \in [Objects -> Nat]
  BY <1>1
<1> QED BY <1>2 DEF BufferInv

\* What the invariant says of one object.
LEMMA Adds ==
    ASSUME BufferInv, NEW x \in Objects
    PROVE  /\ references[x] \in Nat /\ held[x] \in 0..MaxHeld /\ held[x] \in Nat /\ MaxHeld \in Nat
           /\ Cardinality(PlacesIn(buffer, x)) \in Nat
           /\ references[x] = held[x] + Cardinality(PlacesIn(buffer, x))
           /\ held[x] <= references[x]
<1>1. /\ references[x] \in Nat /\ held[x] \in 0..MaxHeld /\ MaxHeld \in Nat
      /\ references[x] = held[x] + Cardinality(PlacesIn(buffer, x))
  BY BoundsAssumption DEF BufferInv
<1>2. Cardinality(PlacesIn(buffer, x)) \in Nat
  BY PlacesFinite
<1> QED BY <1>1, <1>2

LEMMA CreateKept ==
    ASSUME BufferInv, NEW x \in Objects, Create(x)
    PROVE  BufferInv'
<1>1. /\ references[x] = 0 /\ references' = [references EXCEPT ![x] = 1]
      /\ held' = [held EXCEPT ![x] = 1] /\ buffer' = buffer /\ faulted' = faulted
  BY DEF Create
<1>2. /\ references \in [Objects -> Nat] /\ held \in [Objects -> 0..MaxHeld] /\ faulted = FALSE /\ Shaped(buffer)
  BY DEF BufferInv
<1>3. held' \in [Objects -> 0..MaxHeld]
  BY <1>1, <1>2, BoundsAssumption
<1>4. ASSUME NEW y \in Objects PROVE references'[y] = held'[y] + Cardinality(PlacesIn(buffer', y))
  <2>1. /\ references[y] = held[y] + Cardinality(PlacesIn(buffer, y)) /\ held[y] \in Nat
        /\ Cardinality(PlacesIn(buffer, y)) \in Nat
    BY Adds
  <2>2. /\ references'[y] = IF y = x THEN 1 ELSE references[y]
        /\ held'[y] = IF y = x THEN 1 ELSE held[y]
    BY <1>1, <1>2
  <2> QED BY <1>1, <2>1, <2>2
<1>5. references' = [y \in Objects |-> references'[y]]
  BY <1>1, <1>2
<1> QED BY <1>1, <1>2, <1>3, <1>4, <1>5, Balanced

LEMMA KeepKept ==
    ASSUME BufferInv, NEW x \in Objects, Keep(x)
    PROVE  BufferInv'
<1>1. /\ held[x] \in 1..MaxHeld - 1 /\ Perform(Retains(<<x>>))
      /\ held' = [held EXCEPT ![x] = @ + 1] /\ buffer' = buffer
  BY DEF Keep
<1>2. /\ references \in [Objects -> Nat] /\ held \in [Objects -> 0..MaxHeld] /\ faulted = FALSE /\ Shaped(buffer)
  BY DEF BufferInv
<1>3. references[x] # 0
  BY <1>1, Adds
<1>4. references' = [y \in Objects |-> references[y] + Count(<<x>>, y)] /\ faulted' = faulted
  <2>1. <<x>> \in Seq(Objects) /\ \A i \in 1..Len(<<x>>) : references[<<x>>[i]] # 0
    BY <1>3
  <2> QED BY <1>1, <1>2, <2>1, OnlyRetains
<1>5. held' \in [Objects -> 0..MaxHeld]
  BY <1>1, <1>2, BoundsAssumption
<1>6. ASSUME NEW y \in Objects PROVE references'[y] = held'[y] + Cardinality(PlacesIn(buffer', y))
  <2>1. /\ references[y] = held[y] + Cardinality(PlacesIn(buffer, y)) /\ held[y] \in Nat
        /\ Cardinality(PlacesIn(buffer, y)) \in Nat
    BY Adds
  <2>2. references'[y] = references[y] + Count(<<x>>, y) /\ Count(<<x>>, y) = IF y = x THEN 1 ELSE 0
    BY <1>4, OneCounted
  <2>3. held'[y] = IF y = x THEN held[y] + 1 ELSE held[y]
    BY <1>1, <1>2
  <2> QED BY <1>1, <2>1, <2>2, <2>3
<1>7. references' = [y \in Objects |-> references'[y]]
  BY <1>4
<1> QED BY <1>1, <1>2, <1>4, <1>5, <1>6, <1>7, Balanced

\* The program's reference goes.
LEMMA MovesIs ==
    ASSUME BufferInv, NEW x \in Objects, held[x] > 0, Moves(x)
    PROVE  /\ held' \in [Objects -> 0..MaxHeld]
           /\ \A y \in Objects : held'[y] = IF y = x THEN held[y] - 1 ELSE held[y]
<1>1. held \in [Objects -> 0..MaxHeld] /\ held' = [held EXCEPT ![x] = @ - 1] /\ MaxHeld \in Nat
  BY BoundsAssumption DEF BufferInv, Moves
<1> QED BY <1>1

LEMMA DiscardKept ==
    ASSUME BufferInv, NEW x \in Objects, Discard(x)
    PROVE  BufferInv'
<1>1. held[x] > 0 /\ Perform(Releases(<<x>>)) /\ Moves(x) /\ buffer' = buffer
  BY DEF Discard
<1>2. /\ references \in [Objects -> Nat] /\ faulted = FALSE /\ Shaped(buffer)
  BY DEF BufferInv
<1>3. \A y \in Objects : Count(<<x>>, y) <= references[y]
  <2> TAKE y \in Objects
  <2>1. Count(<<x>>, y) = IF y = x THEN 1 ELSE 0
    BY OneCounted
  <2>2. references[y] \in Nat /\ held[y] \in Nat /\ held[y] <= references[y]
    BY Adds
  <2> QED BY <1>1, <2>1, <2>2
<1>4. references' = [y \in Objects |-> references[y] - Count(<<x>>, y)] /\ faulted' = faulted
  <2>1. <<x>> \in Seq(Objects)
    OBVIOUS
  <2> QED BY <1>1, <1>2, <1>3, <2>1, OnlyReleases
<1>5. /\ held' \in [Objects -> 0..MaxHeld]
      /\ \A y \in Objects : held'[y] = IF y = x THEN held[y] - 1 ELSE held[y]
  BY <1>1, MovesIs
<1>6. ASSUME NEW y \in Objects PROVE references'[y] = held'[y] + Cardinality(PlacesIn(buffer', y))
  <2>1. /\ references[y] = held[y] + Cardinality(PlacesIn(buffer, y)) /\ held[y] \in Nat
        /\ Cardinality(PlacesIn(buffer, y)) \in Nat
    BY Adds
  <2>2. references'[y] = references[y] - Count(<<x>>, y) /\ Count(<<x>>, y) = IF y = x THEN 1 ELSE 0
    BY <1>4, OneCounted
  <2>3. held'[y] = IF y = x THEN held[y] - 1 ELSE held[y]
    BY <1>5
  <2> QED BY <1>1, <2>1, <2>2, <2>3
<1>7. references' = [y \in Objects |-> references'[y]]
  BY <1>4
<1> QED BY <1>1, <1>2, <1>4, <1>5, <1>6, <1>7, Balanced

\* Storage for more elements, the old ones first and the new ones over them.
LEMMA ReservedIs ==
    ASSUME NEW cells \in Seq(Objects \cup {Junk}), NEW n \in Nat
    PROVE  /\ Reserved(cells, n) \in Seq(Objects \cup {Junk})
           /\ Len(Reserved(cells, n)) = Greater(n, Len(cells))
           /\ \A i \in 1..Len(cells) : Reserved(cells, n)[i] = cells[i]
<1> DEFINE Cell == Objects \cup {Junk}
           m == Greater(n, Len(cells))
<1>1. Len(cells) \in Nat /\ DOMAIN cells = 1..Len(cells)
  OBVIOUS
<1>2. m \in Nat /\ Len(cells) <= m
  BY <1>1 DEF Greater
<1>3. Reserved(cells, n) = [i \in 1..m |-> IF i \in 1..Len(cells) THEN cells[i] ELSE Junk]
  BY <1>1 DEF Reserved
<1> HIDE DEF m
<1>4. \A i \in 1..m : (IF i \in 1..Len(cells) THEN cells[i] ELSE Junk) \in Cell
  OBVIOUS
<1>5. Reserved(cells, n) \in Seq(Cell) /\ Len(Reserved(cells, n)) = m
  BY <1>2, <1>3, <1>4
<1>6. \A i \in 1..Len(cells) : i \in 1..m
  BY <1>1, <1>2
<1> QED BY <1>3, <1>5, <1>6 DEF m

LEMMA StoredIs ==
    ASSUME NEW cells \in Seq(Objects \cup {Junk}), NEW first \in Nat, NEW new \in Seq(Objects)
    PROVE  /\ Stored(cells, first, new) \in Seq(Objects \cup {Junk})
           /\ Len(Stored(cells, first, new)) = Len(cells)
           /\ \A i \in 1..Len(cells) :
                 Stored(cells, first, new)[i] = IF i \in first + 1..first + Len(new) THEN new[i - first]
                                                ELSE cells[i]
<1> DEFINE Cell == Objects \cup {Junk}
<1>1. Len(cells) \in Nat /\ Len(new) \in Nat /\ DOMAIN cells = 1..Len(cells)
  OBVIOUS
<1>2. \A i \in 1..Len(cells) :
        (IF i \in first + 1..first + Len(new) THEN new[i - first] ELSE cells[i]) \in Cell
  <2> TAKE i \in 1..Len(cells)
  <2>1. CASE i \in first + 1..first + Len(new)
    <3>1. i - first \in 1..Len(new)
      BY <1>1, <2>1
    <3> QED BY <2>1, <3>1
  <2>2. CASE i \notin first + 1..first + Len(new)
    BY <2>2
  <2> QED BY <2>1, <2>2
<1>3. Stored(cells, first, new)
        = [i \in 1..Len(cells) |-> IF i \in first + 1..first + Len(new) THEN new[i - first] ELSE cells[i]]
  BY <1>1 DEF Stored
<1>4. Stored(cells, first, new) \in Seq(Cell) /\ Len(Stored(cells, first, new)) = Len(cells)
  BY <1>1, <1>2, <1>3
<1> QED BY <1>3, <1>4

\* One Buffer's count and cells set.
LEMMA BufferSet ==
    ASSUME Shaped(buffer), NEW b \in Buffers, NEW count \in 0..MaxCount,
           NEW cells \in Seq(Objects \cup {Junk}), SetBuffer(b, count, cells)
    PROVE  /\ buffer' \in [Buffers -> BufferShape]
           /\ \A c \in Buffers : c # b => buffer'[c] = buffer[c]
           /\ buffer'[b].open = buffer[b].open /\ buffer'[b].count = count /\ buffer'[b].cells = cells
<1>1. buffer \in [Buffers -> BufferShape]
  BY DEF Shaped
<1>2. buffer[b] \in BufferShape
  BY <1>1
<1> DEFINE new == [buffer[b] EXCEPT !.count = count, !.cells = cells]
<1>3. new \in BufferShape /\ new.open = buffer[b].open /\ new.count = count /\ new.cells = cells
  BY <1>2 DEF BufferShape
<1>4. buffer' = [buffer EXCEPT ![b] = new]
  BY <1>1 DEF SetBuffer
<1> HIDE DEF new
<1> QED BY <1>1, <1>3, <1>4

\* A range of a Buffer set to new elements.
LEMMA RangeSet ==
    ASSUME Shaped(buffer), NEW b \in Buffers, buffer[b].open, NEW first \in Nat,
           NEW new \in Seq(Objects), first <= buffer[b].count, first + Len(new) <= MaxCount,
           SetRange(b, first, new)
    PROVE  Writes(buffer', b, first, new)
<1> DEFINE old == buffer[b].count
           cells == buffer[b].cells
           count == Greater(old, first + Len(new))
           reserved == Reserved(cells, count)
           stored == Stored(reserved, first, new)
<1>1. /\ old \in 0..MaxCount /\ old <= Len(cells) /\ cells \in Seq(Objects \cup {Junk})
      /\ MaxCount \in Nat /\ Len(new) \in Nat /\ Len(cells) \in Nat
  BY BoundsAssumption DEF Shaped, BufferShape
<1>2. SetBuffer(b, count, stored)
  BY DEF SetRange
<1>3. count \in 0..MaxCount /\ count \in Nat /\ first + Len(new) <= count
  BY <1>1 DEF Greater
<1> HIDE DEF old, cells, count
<1>4. /\ reserved \in Seq(Objects \cup {Junk}) /\ Len(reserved) = Greater(count, Len(cells))
      /\ \A i \in 1..Len(cells) : reserved[i] = cells[i]
  BY <1>1, <1>3, ReservedIs
<1> HIDE DEF reserved
<1>5. /\ stored \in Seq(Objects \cup {Junk}) /\ Len(stored) = Len(reserved)
      /\ \A i \in 1..Len(reserved) : stored[i] = IF i \in first + 1..first + Len(new) THEN new[i - first]
                                                 ELSE reserved[i]
  BY <1>4, StoredIs
<1> HIDE DEF stored
<1>6. /\ buffer' \in [Buffers -> BufferShape]
      /\ \A c \in Buffers : c # b => buffer'[c] = buffer[c]
      /\ buffer'[b].open = buffer[b].open /\ buffer'[b].count = count /\ buffer'[b].cells = stored
  BY <1>2, <1>3, <1>5, BufferSet
<1>7. count <= Len(stored) /\ Len(reserved) \in Nat
  BY <1>1, <1>3, <1>4, <1>5 DEF Greater
<1>8. ASSUME NEW i \in 1..count
      PROVE  stored[i] = IF i \in first + 1..first + Len(new) THEN new[i - first] ELSE cells[i]
  <2>1. i \in 1..Len(reserved)
    BY <1>3, <1>5, <1>7
  <2>2. i \notin first + 1..first + Len(new) => i \in 1..Len(cells)
    BY <1>1, <1>3 DEF count, Greater, old
  <2> QED BY <1>4, <1>5, <2>1, <2>2
<1> QED BY <1>6, <1>7, <1>8 DEF Writes, count, cells, old

\* Counts that follow what a range lost and got.
LEMMA WritesKept ==
    ASSUME BufferInv, NEW b \in Buffers, NEW first \in Nat, NEW new \in Seq(Objects),
           Writes(buffer', b, first, new), faulted' = faulted, held' \in [Objects -> 0..MaxHeld],
           references' = [x \in Objects |-> references'[x]],
           \A x \in Objects : references'[x] = held'[x] + Cardinality(PlacesIn(buffer, x))
                                               - Count(Overwritten(b, first, new), x) + Count(new, x)
    PROVE  BufferInv'
<1>1. Shaped(buffer) /\ faulted = FALSE
  BY DEF BufferInv
<1>2. Shaped(buffer')
  BY <1>1, WritesIs
<1>3. Overwritten(b, first, new) \in Seq(Objects)
  BY <1>1, WritesIs
<1>4. ASSUME NEW x \in Objects PROVE references'[x] = held'[x] + Cardinality(PlacesIn(buffer', x))
  <2>1. Cardinality(PlacesIn(buffer', x))
          = Cardinality(PlacesIn(buffer, x)) - Count(Overwritten(b, first, new), x) + Count(new, x)
    BY <1>1, WritesIs
  <2>2. /\ Count(Overwritten(b, first, new), x) \in Nat /\ Count(new, x) \in Nat
        /\ Cardinality(PlacesIn(buffer, x)) \in Nat
    <3>1. Len(Overwritten(b, first, new)) \in Nat /\ Len(new) \in Nat
      BY <1>3
    <3>2. Count(Overwritten(b, first, new), x) \in Nat
      BY <3>1, WhereFinite
    <3>3. Count(new, x) \in Nat
      BY <3>1, WhereFinite
    <3> QED BY <3>2, <3>3, PlacesFinite
  <2>3. held'[x] \in Nat
    BY BoundsAssumption
  <2> QED BY <2>1, <2>2, <2>3
<1> QED BY <1>1, <1>2, <1>4, Balanced

\* What is overwritten lies among the live elements.
LEMMA OverwrittenIs ==
    ASSUME BufferInv, NEW b \in Buffers, NEW first \in Nat, NEW new, Len(new) \in Nat, first <= buffer[b].count
    PROVE  /\ Overwritten(b, first, new) \in Seq(Objects)
           /\ Len(Overwritten(b, first, new)) <= Len(new)
           /\ \A x \in Objects : /\ Count(Overwritten(b, first, new), x) <= references[x]
                                 /\ Count(Overwritten(b, first, new), x) <= Cardinality(PlacesIn(buffer, x))
                                 /\ Count(Overwritten(b, first, new), x) \in Nat
<1> DEFINE last == Lesser(first + Len(new), buffer[b].count)
<1>1. Shaped(buffer) /\ buffer[b].count \in Nat
  BY DEF BufferInv, Shaped, BufferShape
<1>2. last \in Nat /\ first <= last /\ last <= buffer[b].count /\ last - first <= Len(new)
  BY <1>1 DEF Lesser
<1>3. Overwritten(b, first, new) = Elements(b, first, last)
  BY DEF Overwritten
<1> HIDE DEF last
<1>4. Elements(b, first, last) \in Seq(Objects) /\ Len(Elements(b, first, last)) = last - first
  BY <1>1, <1>2, ElementsAre
<1>5. \A x \in Objects : /\ Count(Elements(b, first, last), x) <= references[x]
                         /\ Count(Elements(b, first, last), x) <= Cardinality(PlacesIn(buffer, x))
  BY <1>2, LiveCounted
<1>6. \A x \in Objects : Count(Elements(b, first, last), x) \in Nat
  BY <1>4, WhereFinite
<1> QED BY <1>2, <1>3, <1>4, <1>5, <1>6

LEMMA NewMoveKept ==
    ASSUME BufferInv, NEW b \in Buffers, NEW x \in Objects, NewMove(b, x)
    PROVE  BufferInv'
<1> DEFINE n == buffer[b].count
<1>1. Shaped(buffer) /\ n \in Nat /\ n + 1 \in Nat /\ n <= n
  BY DEF BufferInv, Shaped, BufferShape
<1>2. /\ buffer[b].open /\ held[x] > 0 /\ n < MaxCount /\ Moves(x)
      /\ SetBuffer(b, n + 1, Stored(Reserved(buffer[b].cells, n + 1), n, <<x>>))
      /\ references' = references /\ faulted' = faulted
  BY DEF NewMove
<1>3. Len(<<x>>) = 1 /\ <<x>> \in Seq(Objects)
  OBVIOUS
<1>4. SetRange(b, n, <<x>>)
  <2>1. Greater(n, n + 1) = n + 1
    BY <1>1 DEF Greater
  <2> QED BY <1>2, <1>3, <2>1 DEF SetRange
<1>5. n + Len(<<x>>) <= MaxCount
  BY <1>1, <1>2, <1>3, BoundsAssumption
<1>6. Writes(buffer', b, n, <<x>>)
  BY <1>1, <1>2, <1>3, <1>4, <1>5, RangeSet
<1>7. Overwritten(b, n, <<x>>) = Elements(b, n, n)
  <2>1. Lesser(n + Len(<<x>>), n) = n
    BY <1>1, <1>3 DEF Lesser
  <2> QED BY <2>1 DEF Overwritten
<1>8. /\ held' \in [Objects -> 0..MaxHeld]
      /\ \A y \in Objects : held'[y] = IF y = x THEN held[y] - 1 ELSE held[y]
  BY <1>2, MovesIs
<1>9. references' = [y \in Objects |-> references'[y]]
  BY <1>2 DEF BufferInv
<1>10. ASSUME NEW y \in Objects
       PROVE  references'[y] = held'[y] + Cardinality(PlacesIn(buffer, y))
                               - Count(Overwritten(b, n, <<x>>), y) + Count(<<x>>, y)
  <2>1. Count(Overwritten(b, n, <<x>>), y) = 0
    BY <1>1, <1>7, NothingBetween
  <2>2. Count(<<x>>, y) = IF y = x THEN 1 ELSE 0
    BY OneCounted
  <2>3. /\ references[y] = held[y] + Cardinality(PlacesIn(buffer, y)) /\ held[y] \in Nat
        /\ Cardinality(PlacesIn(buffer, y)) \in Nat
    BY Adds
  <2> HIDE DEF n
  <2> QED BY <1>2, <1>8, <2>1, <2>2, <2>3
<1> HIDE DEF n
<1> QED BY <1>1, <1>2, <1>3, <1>6, <1>8, <1>9, <1>10, WritesKept

LEMMA ReplaceMoveKept ==
    ASSUME BufferInv, NEW b \in Buffers, NEW x \in Objects, NEW i \in 0..MaxCount - 1, ReplaceMove(b, i, x)
    PROVE  BufferInv'
<1> DEFINE count == buffer[b].count
           cells == buffer[b].cells
           old == Elements(b, i, i + 1)
<1>1. /\ Shaped(buffer) /\ references \in [Objects -> Nat] /\ faulted = FALSE
      /\ MaxCount \in Nat /\ i \in Nat /\ i + 1 \in Nat
  BY BoundsAssumption DEF BufferInv
<1>2. /\ count \in 0..MaxCount /\ count \in Nat /\ cells \in Seq(Objects \cup {Junk})
      /\ count <= Len(cells) /\ Len(cells) \in Nat
  BY <1>1 DEF Shaped, BufferShape
<1>3. /\ buffer[b].open /\ held[x] > 0 /\ i < count /\ Perform(Releases(old)) /\ Moves(x)
      /\ SetBuffer(b, count, Stored(cells, i, <<x>>))
  BY DEF ReplaceMove
<1>4. /\ <<x>> \in Seq(Objects) /\ Len(<<x>>) = 1
      /\ \A y \in Objects : Count(<<x>>, y) = IF y = x THEN 1 ELSE 0
  BY OneCounted
<1>5. i <= count /\ i <= i + 1 /\ i + 1 <= count
  BY <1>1, <1>2, <1>3
<1>6. old \in Seq(Objects) /\ (\A y \in Objects : Count(old, y) \in Nat /\ Count(old, y) <= references[y])
  <2>1. old \in Seq(Objects)
    BY <1>1, <1>5, ElementsAre
  <2>2. \A y \in Objects : Count(old, y) <= references[y]
    BY <1>1, <1>5, LiveCounted
  <2> HIDE DEF old
  <2>4. Len(old) \in Nat
    BY <2>1
  <2>3. \A y \in Objects : Count(old, y) \in Nat
    BY <2>4, WhereFinite
  <2> QED BY <2>1, <2>2, <2>3
<1>7. Overwritten(b, i, <<x>>) = old
  <2>1. Lesser(i + Len(<<x>>), count) = i + 1
    BY <1>1, <1>2, <1>4, <1>5 DEF Lesser
  <2> QED BY <2>1 DEF Overwritten
<1> HIDE DEF old
<1>8. references' = [y \in Objects |-> references[y] - Count(old, y)] /\ faulted' = faulted
  BY <1>1, <1>3, <1>6, OnlyReleases
<1>9. Writes(buffer', b, i, <<x>>)
  <2> DEFINE new == <<x>>
             stored == Stored(cells, i, new)
  <2>0. new \in Seq(Objects) /\ SetBuffer(b, count, stored)
    BY <1>3, <1>4
  <2> HIDE DEF new, cells, count
  <2>7. cells \in Seq(Objects \cup {Junk}) /\ i \in Nat /\ new \in Seq(Objects)
    BY <1>1, <1>2, <2>0
  <2>1. /\ stored \in Seq(Objects \cup {Junk}) /\ Len(stored) = Len(cells)
        /\ \A j \in 1..Len(cells) : stored[j] = IF j \in i + 1..i + Len(new) THEN new[j - i] ELSE cells[j]
    BY <2>7, StoredIs
  <2> HIDE DEF stored
  <2>2. /\ buffer' \in [Buffers -> BufferShape]
        /\ \A c \in Buffers : c # b => buffer'[c] = buffer[c]
        /\ buffer'[b].open = buffer[b].open /\ buffer'[b].count = count /\ buffer'[b].cells = stored
    BY <1>1, <1>2, <2>0, <2>1, BufferSet
  <2>3. Greater(count, i + Len(new)) = count
    BY <1>1, <1>2, <1>4, <1>5 DEF Greater, new
  <2>4. \A j \in 1..count : j \in 1..Len(cells)
    BY <1>2
  <2>5. count <= Len(stored)
    BY <1>2, <2>1
  <2>6. Writes(buffer', b, i, new)
    BY <1>3, <1>5, <2>1, <2>2, <2>3, <2>4, <2>5 DEF Writes, cells, count
  <2> QED BY <2>6 DEF new
<1>10. /\ held' \in [Objects -> 0..MaxHeld]
       /\ \A y \in Objects : held'[y] = IF y = x THEN held[y] - 1 ELSE held[y]
  BY <1>3, MovesIs
<1>11. references' = [y \in Objects |-> references'[y]]
  BY <1>8
<1>12. ASSUME NEW y \in Objects
       PROVE  references'[y] = held'[y] + Cardinality(PlacesIn(buffer, y))
                               - Count(Overwritten(b, i, <<x>>), y) + Count(<<x>>, y)
  <2>1. /\ references[y] = held[y] + Cardinality(PlacesIn(buffer, y)) /\ held[y] \in Nat
        /\ Cardinality(PlacesIn(buffer, y)) \in Nat
    BY Adds
  <2>2. references'[y] = references[y] - Count(old, y) /\ Count(old, y) \in Nat
    BY <1>6, <1>8
  <2>3. held'[y] = IF y = x THEN held[y] - 1 ELSE held[y]
    BY <1>10
  <2>4. Count(<<x>>, y) = IF y = x THEN 1 ELSE 0
    BY <1>4
  <2> QED BY <1>7, <2>1, <2>2, <2>3, <2>4
<1> QED BY <1>1, <1>4, <1>8, <1>9, <1>10, <1>11, <1>12, WritesKept

LEMMA GetKept ==
    ASSUME BufferInv, NEW b \in Buffers, NEW i \in 0..MaxCount - 1, Get(b, i)
    PROVE  BufferInv'
<1> DEFINE x == buffer[b].cells[i + 1]
<1>1. /\ references \in [Objects -> Nat] /\ held \in [Objects -> 0..MaxHeld] /\ faulted = FALSE /\ Shaped(buffer)
      /\ MaxCount \in Nat /\ MaxHeld \in Nat /\ i \in Nat
  BY BoundsAssumption DEF BufferInv
<1>2. /\ i < buffer[b].count /\ buffer' = buffer /\ Perform(Retains(<<x>>))
      /\ x \in Objects => held[x] < MaxHeld
      /\ held' = IF x \in Objects THEN [held EXCEPT ![x] = @ + 1] ELSE held
  BY DEF Get
<1>3. buffer[b].count \in 0..MaxCount /\ i + 1 \in 1..buffer[b].count /\ i + 1 \in 1..MaxCount
  <2>1. buffer[b].count \in 0..MaxCount
    BY <1>1 DEF Shaped, BufferShape
  <2> QED BY <1>1, <1>2, <2>1
<1>4. x \in Objects /\ i + 1 <= buffer[b].count
  BY <1>1, <1>3 DEF Shaped
<1>5. <<b, i + 1>> \in PlacesIn(buffer, x)
  BY <1>3, <1>4 DEF PlacesIn
<1> HIDE DEF x
<1>6. references[x] # 0
  <2>1. Cardinality(PlacesIn(buffer, x)) # 0
    <3>1. IsFiniteSet(PlacesIn(buffer, x))
      BY PlacesFinite
    <3> QED BY <1>5, <3>1, FS_EmptySet
  <2>2. /\ held[x] \in Nat /\ Cardinality(PlacesIn(buffer, x)) \in Nat
        /\ references[x] = held[x] + Cardinality(PlacesIn(buffer, x))
    BY <1>4, Adds
  <2> QED BY <2>1, <2>2
<1>7. references' = [y \in Objects |-> references[y] + Count(<<x>>, y)] /\ faulted' = faulted
  <2>1. <<x>> \in Seq(Objects) /\ \A j \in 1..Len(<<x>>) : references[<<x>>[j]] # 0
    BY <1>4, <1>6
  <2> QED BY <1>1, <1>2, <2>1, OnlyRetains
<1>8. /\ held' \in [Objects -> 0..MaxHeld]
      /\ \A y \in Objects : held'[y] = IF y = x THEN held[y] + 1 ELSE held[y]
  BY <1>1, <1>2, <1>4
<1>9. ASSUME NEW y \in Objects PROVE references'[y] = held'[y] + Cardinality(PlacesIn(buffer', y))
  <2>1. /\ references[y] = held[y] + Cardinality(PlacesIn(buffer, y)) /\ held[y] \in Nat
        /\ Cardinality(PlacesIn(buffer, y)) \in Nat
    BY Adds
  <2>2. references'[y] = references[y] + Count(<<x>>, y) /\ Count(<<x>>, y) = IF y = x THEN 1 ELSE 0
    BY <1>4, <1>7, OneCounted
  <2> QED BY <1>2, <1>8, <2>1, <2>2
<1>10. references' = [y \in Objects |-> references'[y]]
  BY <1>7
<1> QED BY <1>1, <1>2, <1>7, <1>8, <1>9, <1>10, Balanced

\* A new Buffer has no live elements.
LEMMA MakeKept ==
    ASSUME BufferInv, NEW b \in Buffers, NEW n \in 0..MaxCount, Make(b, n)
    PROVE  BufferInv'
<1> DEFINE made == [open |-> TRUE, count |-> 0, cells |-> Times(n, Junk)]
<1>1. /\ Shaped(buffer) /\ references \in [Objects -> Nat] /\ held \in [Objects -> 0..MaxHeld] /\ faulted = FALSE
      /\ MaxCount \in Nat /\ n \in Nat
  BY BoundsAssumption DEF BufferInv
<1>2. /\ ~buffer[b].open /\ buffer' = [buffer EXCEPT ![b] = made]
      /\ references' = references /\ held' = held /\ faulted' = faulted
  BY DEF Make
<1>3. Times(n, Junk) \in Seq(Objects \cup {Junk}) /\ Len(Times(n, Junk)) = n
  BY <1>1 DEF Times
<1>4. made \in BufferShape /\ made.open /\ made.count = 0 /\ made.cells = Times(n, Junk)
  BY <1>1, <1>3 DEF BufferShape
<1> HIDE DEF made
<1>5. buffer \in [Buffers -> BufferShape] /\ buffer[b].count = 0
  BY <1>1, <1>2 DEF Shaped
<1>6. Cuts(buffer', b, 0)
  <2>1. /\ buffer' \in [Buffers -> BufferShape] /\ buffer'[b] = made
        /\ \A c \in Buffers : c # b => buffer'[c] = buffer[c]
    BY <1>2, <1>4, <1>5
  <2> QED BY <1>1, <1>3, <1>4, <1>5, <2>1 DEF Cuts
<1>7. /\ Shaped(buffer')
      /\ \A x \in Objects : Cardinality(PlacesIn(buffer', x))
                              = Cardinality(PlacesIn(buffer, x)) - Count(Elements(b, 0, buffer[b].count), x)
  BY <1>1, <1>6, CutsIs
<1>8. ASSUME NEW x \in Objects PROVE references'[x] = held'[x] + Cardinality(PlacesIn(buffer', x))
  <2>1. Count(Elements(b, 0, buffer[b].count), x) = 0
    BY <1>1, <1>5, NothingBetween
  <2>2. /\ references[x] = held[x] + Cardinality(PlacesIn(buffer, x))
        /\ Cardinality(PlacesIn(buffer, x)) \in Nat
    BY Adds
  <2>3. Cardinality(PlacesIn(buffer', x)) = Cardinality(PlacesIn(buffer, x))
    BY <1>7, <2>1, <2>2
  <2> QED BY <1>2, <2>2, <2>3
<1>9. references' = [x \in Objects |-> references'[x]]
  BY <1>1, <1>2
<1> QED BY <1>1, <1>2, <1>7, <1>8, <1>9, Balanced

\* Counts that follow what a Buffer lost.
LEMMA CutsKept ==
    ASSUME BufferInv, NEW b \in Buffers, NEW n \in Nat, Cuts(buffer', b, n), faulted' = faulted, held' = held,
           references' = [x \in Objects |-> references[x] - Count(Elements(b, n, buffer[b].count), x)]
    PROVE  BufferInv'
<1> DEFINE lost == Elements(b, n, buffer[b].count)
<1>1. Shaped(buffer) /\ faulted = FALSE /\ held \in [Objects -> 0..MaxHeld]
  BY DEF BufferInv
<1>2. lost \in Seq(Objects)
  BY <1>1, CutsIs
<1>3. Shaped(buffer')
  BY <1>1, CutsIs
<1>4. \A x \in Objects : Cardinality(PlacesIn(buffer', x)) = Cardinality(PlacesIn(buffer, x)) - Count(lost, x)
  BY <1>1, CutsIs
<1>5. references' = [x \in Objects |-> references[x] - Count(lost, x)]
  OBVIOUS
<1> HIDE DEF lost
<1>6. ASSUME NEW x \in Objects PROVE references'[x] = held'[x] + Cardinality(PlacesIn(buffer', x))
  <2>1. Len(lost) \in Nat
    BY <1>2
  <2>2. Count(lost, x) \in Nat
    BY <2>1, WhereFinite
  <2>3. /\ references[x] = held[x] + Cardinality(PlacesIn(buffer, x)) /\ held[x] \in Nat
        /\ Cardinality(PlacesIn(buffer, x)) \in Nat
    BY Adds
  <2>4. references'[x] = references[x] - Count(lost, x) /\ held'[x] = held[x]
    BY <1>5
  <2>5. Cardinality(PlacesIn(buffer', x)) = Cardinality(PlacesIn(buffer, x)) - Count(lost, x)
    BY <1>4
  <2> QED BY <2>2, <2>3, <2>4, <2>5
<1>7. references' = [x \in Objects |-> references'[x]]
  BY <1>5
<1>8. held' \in [Objects -> 0..MaxHeld] /\ faulted' = FALSE
  BY <1>1
<1> QED BY <1>3, <1>6, <1>7, <1>8, Balanced

LEMMA TruncateKept ==
    ASSUME BufferInv, NEW b \in Buffers, NEW n \in 0..MaxCount, Truncate(b, n)
    PROVE  BufferInv'
<1> DEFINE lost == Elements(b, n, buffer[b].count)
           cut == [buffer[b] EXCEPT !.count = n]
<1>1. Shaped(buffer) /\ references \in [Objects -> Nat] /\ n \in Nat /\ MaxCount \in Nat
  BY BoundsAssumption DEF BufferInv
<1>2. /\ buffer[b].open /\ n < buffer[b].count /\ Perform(Releases(lost)) /\ held' = held
      /\ buffer' = [buffer EXCEPT ![b].count = n]
  BY DEF Truncate
<1>3. /\ buffer \in [Buffers -> BufferShape] /\ buffer[b] \in BufferShape
      /\ buffer[b].count \in Nat /\ buffer[b].count <= Len(buffer[b].cells) /\ Len(buffer[b].cells) \in Nat
  BY <1>1 DEF Shaped, BufferShape
<1>4. n <= buffer[b].count /\ n <= Len(buffer[b].cells) /\ buffer[b].count <= buffer[b].count
  BY <1>1, <1>2, <1>3
<1>5. Cuts(buffer', b, n)
  <2>1. cut \in BufferShape /\ cut.open = buffer[b].open /\ cut.count = n /\ cut.cells = buffer[b].cells
    BY <1>3 DEF BufferShape
  <2>2. buffer' = [buffer EXCEPT ![b] = cut]
    BY <1>2, <1>3
  <2> HIDE DEF cut
  <2>3. /\ buffer' \in [Buffers -> BufferShape] /\ buffer'[b] = cut
        /\ \A c \in Buffers : c # b => buffer'[c] = buffer[c]
    BY <1>3, <2>1, <2>2
  <2> QED BY <1>2, <1>4, <2>1, <2>3 DEF Cuts
<1>6. lost \in Seq(Objects)
  BY <1>1, <1>3, <1>4, ElementsAre
<1>7. \A x \in Objects : Count(lost, x) <= references[x]
  BY <1>1, <1>3, <1>4, LiveCounted
<1> HIDE DEF lost
<1>8. references' = [x \in Objects |-> references[x] - Count(lost, x)] /\ faulted' = faulted
  BY <1>1, <1>2, <1>6, <1>7, OnlyReleases
<1> QED BY <1>1, <1>2, <1>5, <1>8, CutsKept DEF lost

LEMMA DestroyKept ==
    ASSUME BufferInv, NEW b \in Buffers, Destroy(b)
    PROVE  BufferInv'
<1> DEFINE lost == Elements(b, 0, buffer[b].count)
<1>1. Shaped(buffer) /\ references \in [Objects -> Nat] /\ MaxCount \in Nat
  BY BoundsAssumption DEF BufferInv
<1>2. /\ buffer[b].open /\ Perform(Releases(lost)) /\ held' = held
      /\ buffer' = [buffer EXCEPT ![b] = Closed]
  BY DEF Destroy, Live
<1>3. buffer \in [Buffers -> BufferShape] /\ buffer[b].count \in Nat
  BY <1>1 DEF Shaped, BufferShape
<1>4. 0 <= buffer[b].count /\ buffer[b].count <= buffer[b].count /\ 0 \in Nat
  BY <1>3
<1>5. Cuts(buffer', b, 0)
  <2>1. Closed \in BufferShape /\ Closed.open = FALSE /\ Closed.count = 0 /\ Len(Closed.cells) = 0
    BY <1>1 DEF BufferShape, Closed
  <2>2. /\ buffer' \in [Buffers -> BufferShape] /\ buffer'[b] = Closed
        /\ \A c \in Buffers : c # b => buffer'[c] = buffer[c]
    BY <1>2, <1>3, <2>1
  <2> QED BY <1>4, <2>1, <2>2 DEF Cuts
<1>6. lost \in Seq(Objects)
  BY <1>1, <1>3, <1>4, ElementsAre
<1>7. \A x \in Objects : Count(lost, x) <= references[x]
  BY <1>1, <1>3, <1>4, LiveCounted
<1> HIDE DEF lost
<1>8. references' = [x \in Objects |-> references[x] - Count(lost, x)] /\ faulted' = faulted
  BY <1>1, <1>2, <1>6, <1>7, OnlyReleases
<1> QED BY <1>2, <1>4, <1>5, <1>8, CutsKept DEF lost

LEMMA ReserveElementsKept ==
    ASSUME BufferInv, NEW b \in Buffers, NEW n \in 0..MaxCount, ReserveElements(b, n)
    PROVE  BufferInv'
<1> DEFINE count == buffer[b].count
           cells == buffer[b].cells
           more == Reserved(cells, n)
           grown == [buffer[b] EXCEPT !.cells = more]
<1>1. Shaped(buffer) /\ references \in [Objects -> Nat] /\ n \in Nat /\ MaxCount \in Nat
  BY BoundsAssumption DEF BufferInv
<1>2. /\ buffer[b].open /\ buffer' = [buffer EXCEPT ![b].cells = Reserved(@, n)]
      /\ references' = references /\ held' = held /\ faulted' = faulted
  BY DEF ReserveElements
<1>3. /\ buffer \in [Buffers -> BufferShape] /\ buffer[b] \in BufferShape /\ count \in Nat /\ count <= Len(cells)
      /\ cells \in Seq(Objects \cup {Junk}) /\ Len(cells) \in Nat
  BY <1>1 DEF Shaped, BufferShape
<1>4. /\ more \in Seq(Objects \cup {Junk}) /\ Len(more) = Greater(n, Len(cells))
      /\ \A i \in 1..Len(cells) : more[i] = cells[i]
  <2> HIDE DEF cells
  <2> QED BY <1>1, <1>3, ReservedIs
<1> HIDE DEF more
<1>5. count <= Len(more) /\ \A i \in 1..count : more[i] = cells[i]
  <2> HIDE DEF count, cells
  <2>1. Len(cells) <= Len(more) /\ Len(more) \in Nat
    BY <1>1, <1>3, <1>4 DEF Greater
  <2>2. \A i \in 1..count : i \in 1..Len(cells)
    BY <1>3
  <2> QED BY <1>3, <1>4, <2>1, <2>2
<1>6. Cuts(buffer', b, count)
  <2>1. grown \in BufferShape /\ grown.open = buffer[b].open /\ grown.count = count /\ grown.cells = more
    BY <1>3, <1>4 DEF BufferShape
  <2>2. buffer' = [buffer EXCEPT ![b] = grown]
    BY <1>2, <1>3 DEF more
  <2> HIDE DEF grown
  <2>3. /\ buffer' \in [Buffers -> BufferShape] /\ buffer'[b] = grown
        /\ \A c \in Buffers : c # b => buffer'[c] = buffer[c]
    BY <1>3, <2>1, <2>2
  <2>4. count <= count
    BY <1>3
  <2> QED BY <1>2, <1>5, <2>1, <2>3, <2>4 DEF Cuts
<1>7. references' = [x \in Objects |-> references[x] - Count(Elements(b, count, count), x)]
  <2>1. \A x \in Objects : Count(Elements(b, count, count), x) = 0 /\ references[x] \in Nat
    BY <1>1, NothingBetween
  <2>2. \A x \in Objects : references[x] = references[x] - Count(Elements(b, count, count), x)
    BY <2>1
  <2> QED BY <1>1, <1>2, <2>2
<1> QED BY <1>2, <1>3, <1>6, <1>7, CutsKept

\* Live elements that a call takes from a Buffer.
LEMMA SourceIs ==
    ASSUME BufferInv, NEW source \in Buffers, NEW first \in Nat, NEW count \in Nat,
           first + count <= buffer[source].count
    PROVE  /\ Elements(source, first, first + count) \in Seq(Objects)
           /\ Len(Elements(source, first, first + count)) = count
           /\ \A i \in 1..Len(Elements(source, first, first + count)) :
                 references[Elements(source, first, first + count)[i]] # 0
           /\ \A x \in Objects : Count(Elements(source, first, first + count), x) \in Nat
<1> DEFINE last == first + count
           new == Elements(source, first, last)
<1>1. Shaped(buffer) /\ last \in Nat /\ first <= last /\ last <= buffer[source].count /\ last - first = count
  BY DEF BufferInv
<1> HIDE DEF last
<1>2. new \in Seq(Objects)
  BY <1>1, ElementsAre
<1>3. Len(new) = count
  BY <1>1, ElementsAre
<1>4. \A i \in 1..Len(new) : references[new[i]] # 0
  BY <1>1, LiveCounted
<1> HIDE DEF new
<1>5. \A x \in Objects : Count(new, x) \in Nat
  BY <1>3, WhereFinite
<1> QED BY <1>2, <1>3, <1>4, <1>5 DEF new, last

LEMMA AppendValuesKept ==
    ASSUME BufferInv, NEW b \in Buffers, NEW source \in Buffers, NEW first \in 0..MaxCount,
           NEW count \in 0..MaxCount, AppendValues(b, source, first, count)
    PROVE  BufferInv'
<1> DEFINE n == buffer[b].count
           new == Elements(source, first, first + count)
<1>1. /\ Shaped(buffer) /\ references \in [Objects -> Nat] /\ held \in [Objects -> 0..MaxHeld]
      /\ n \in Nat /\ n <= n /\ first \in Nat /\ count \in Nat /\ MaxCount \in Nat
  BY BoundsAssumption DEF BufferInv, Shaped, BufferShape
<1>2. /\ buffer[b].open /\ n + count <= MaxCount /\ first + count <= buffer[source].count
      /\ Perform(Retains(new)) /\ SetRange(b, n, new) /\ held' = held
  BY DEF AppendValues, AppendSource
<1>3. /\ new \in Seq(Objects) /\ Len(new) = count /\ \A i \in 1..Len(new) : references[new[i]] # 0
      /\ \A x \in Objects : Count(new, x) \in Nat
  BY <1>1, <1>2, SourceIs
<1> HIDE DEF new
<1>4. references' = [x \in Objects |-> references[x] + Count(new, x)] /\ faulted' = faulted
  BY <1>1, <1>2, <1>3, OnlyRetains
<1>5. Writes(buffer', b, n, new)
  BY <1>1, <1>2, <1>3, RangeSet
<1>6. Overwritten(b, n, new) = Elements(b, n, n)
  <2>1. Lesser(n + Len(new), n) = n
    BY <1>1, <1>3 DEF Lesser
  <2> QED BY <2>1 DEF Overwritten
<1>7. ASSUME NEW x \in Objects
      PROVE  references'[x] = held'[x] + Cardinality(PlacesIn(buffer, x))
                              - Count(Overwritten(b, n, new), x) + Count(new, x)
  <2>1. Count(Overwritten(b, n, new), x) = 0
    BY <1>1, <1>6, NothingBetween
  <2>2. /\ references[x] = held[x] + Cardinality(PlacesIn(buffer, x)) /\ held[x] \in Nat
        /\ Cardinality(PlacesIn(buffer, x)) \in Nat
    BY Adds
  <2>3. references'[x] = references[x] + Count(new, x) /\ Count(new, x) \in Nat /\ held'[x] = held[x]
    BY <1>2, <1>3, <1>4
  <2> HIDE DEF n
  <2> QED BY <2>1, <2>2, <2>3
<1>8. references' = [x \in Objects |-> references'[x]] /\ held' \in [Objects -> 0..MaxHeld]
  BY <1>1, <1>2, <1>4
<1> HIDE DEF n
<1> QED BY <1>1, <1>3, <1>4, <1>5, <1>7, <1>8, WritesKept

LEMMA CopyManagedKept ==
    ASSUME BufferInv, NEW b \in Buffers, NEW source \in Buffers, NEW offset \in 0..MaxCount,
           NEW first \in 0..MaxCount, NEW count \in 0..MaxCount, CopyManaged(b, offset, source, first, count)
    PROVE  BufferInv'
<1> DEFINE new == Elements(source, first, first + count)
           old == Overwritten(b, offset, new)
<1>1. /\ Shaped(buffer) /\ references \in [Objects -> Nat] /\ held \in [Objects -> 0..MaxHeld]
      /\ offset \in Nat /\ first \in Nat /\ count \in Nat /\ MaxCount \in Nat
  BY BoundsAssumption DEF BufferInv
<1>2. /\ buffer[b].open /\ offset <= buffer[b].count /\ offset + count <= MaxCount
      /\ first + count <= buffer[source].count
      /\ Perform(Retains(new) \o Releases(Elements(b, offset, Lesser(offset + count, buffer[b].count))))
      /\ SetRange(b, offset, new) /\ held' = held
  BY DEF CopyManaged, CopyEvents, Extends
<1>3. /\ new \in Seq(Objects) /\ Len(new) = count /\ \A i \in 1..Len(new) : references[new[i]] # 0
      /\ \A x \in Objects : Count(new, x) \in Nat
  BY <1>1, <1>2, SourceIs
<1> HIDE DEF new
<1>4. Perform(Retains(new) \o Releases(old))
  BY <1>2, <1>3 DEF Overwritten
<1>5. old \in Seq(Objects) /\ \A x \in Objects : Count(old, x) <= references[x] /\ Count(old, x) \in Nat
  BY <1>1, <1>2, <1>3, OverwrittenIs
<1> HIDE DEF old
<1>6. references' = [x \in Objects |-> references[x] + Count(new, x) - Count(old, x)] /\ faulted' = faulted
  BY <1>1, <1>3, <1>4, <1>5, Exchanges
<1>7. Writes(buffer', b, offset, new)
  BY <1>1, <1>2, <1>3, RangeSet
<1>8. ASSUME NEW x \in Objects
      PROVE  references'[x] = held'[x] + Cardinality(PlacesIn(buffer, x))
                              - Count(Overwritten(b, offset, new), x) + Count(new, x)
  <2>1. /\ references[x] = held[x] + Cardinality(PlacesIn(buffer, x)) /\ held[x] \in Nat
        /\ Cardinality(PlacesIn(buffer, x)) \in Nat
    BY Adds
  <2>2. /\ references'[x] = references[x] + Count(new, x) - Count(old, x) /\ Count(new, x) \in Nat
        /\ Count(old, x) \in Nat /\ held'[x] = held[x]
    BY <1>2, <1>3, <1>5, <1>6
  <2>3. references'[x] = held'[x] + Cardinality(PlacesIn(buffer, x)) - Count(old, x) + Count(new, x)
    BY <2>1, <2>2
  <2> QED BY <2>3 DEF old
<1>9. references' = [x \in Objects |-> references'[x]] /\ held' \in [Objects -> 0..MaxHeld]
  BY <1>1, <1>2, <1>6
<1> QED BY <1>1, <1>3, <1>6, <1>7, <1>8, <1>9, WritesKept

LEMMA FillManagedKept ==
    ASSUME BufferInv, NEW b \in Buffers, NEW x \in Objects, NEW offset \in 0..MaxCount,
           NEW count \in 0..MaxCount, FillManaged(b, offset, count, x)
    PROVE  BufferInv'
<1> DEFINE new == Times(count, x)
           old == Overwritten(b, offset, new)
<1>1. /\ Shaped(buffer) /\ references \in [Objects -> Nat] /\ held \in [Objects -> 0..MaxHeld]
      /\ offset \in Nat /\ count \in Nat /\ MaxCount \in Nat
  BY BoundsAssumption DEF BufferInv
<1>2. /\ buffer[b].open /\ offset <= buffer[b].count /\ offset + count <= MaxCount /\ held[x] > 0
      /\ Perform(FillEvents(b, offset, count, x)) /\ SetRange(b, offset, new) /\ held' = held
  BY DEF FillManaged, Extends
<1>3. /\ new \in Seq(Objects) /\ Len(new) = count
      /\ \A y \in Objects : Count(new, y) = IF y = x THEN count ELSE 0
  BY <1>1, TimesCounted
<1> HIDE DEF new
<1>4. Perform(Fills(old, count, x))
  BY <1>2, <1>3 DEF FillEvents, Fills, Overwritten
<1>5. /\ old \in Seq(Objects) /\ Len(old) <= count
      /\ \A y \in Objects : /\ Count(old, y) <= references[y] /\ Count(old, y) \in Nat
                            /\ Count(old, y) <= Cardinality(PlacesIn(buffer, y))
  BY <1>1, <1>2, <1>3, OverwrittenIs
<1> HIDE DEF old
<1>6. Count(old, x) < references[x]
  <2>1. /\ references[x] = held[x] + Cardinality(PlacesIn(buffer, x)) /\ held[x] \in Nat
        /\ Cardinality(PlacesIn(buffer, x)) \in Nat /\ Count(old, x) \in Nat
        /\ Count(old, x) <= Cardinality(PlacesIn(buffer, x))
    BY <1>5, Adds
  <2> QED BY <1>2, <2>1
<1>7. /\ references' = [y \in Objects |-> references[y] + (IF y = x THEN count ELSE 0) - Count(old, y)]
      /\ faulted' = faulted
  BY <1>1, <1>4, <1>5, <1>6, FillPerforms
<1>8. Writes(buffer', b, offset, new)
  BY <1>1, <1>2, <1>3, RangeSet
<1>9. ASSUME NEW y \in Objects
      PROVE  references'[y] = held'[y] + Cardinality(PlacesIn(buffer, y))
                              - Count(Overwritten(b, offset, new), y) + Count(new, y)
  <2>1. /\ references[y] = held[y] + Cardinality(PlacesIn(buffer, y)) /\ held[y] \in Nat
        /\ Cardinality(PlacesIn(buffer, y)) \in Nat
    BY Adds
  <2>2. /\ references'[y] = references[y] + Count(new, y) - Count(old, y) /\ Count(new, y) \in Nat
        /\ Count(old, y) \in Nat /\ held'[y] = held[y]
    BY <1>1, <1>2, <1>3, <1>5, <1>7
  <2>3. references'[y] = held'[y] + Cardinality(PlacesIn(buffer, y)) - Count(old, y) + Count(new, y)
    BY <2>1, <2>2
  <2> QED BY <2>3 DEF old
<1>10. references' = [y \in Objects |-> references'[y]] /\ held' \in [Objects -> 0..MaxHeld]
  BY <1>1, <1>2, <1>7
<1> QED BY <1>1, <1>3, <1>7, <1>8, <1>9, <1>10, WritesKept

LEMMA FillMoveKept ==
    ASSUME BufferInv, NEW b \in Buffers, NEW x \in Objects, NEW offset \in 0..MaxCount,
           NEW count \in 0..MaxCount, FillMove(b, offset, count, x)
    PROVE  BufferInv'
<1> DEFINE new == Times(count, x)
           kept == Times(count - 1, x)
           old == Overwritten(b, offset, new)
<1>1. /\ Shaped(buffer) /\ references \in [Objects -> Nat] /\ held \in [Objects -> 0..MaxHeld]
      /\ offset \in Nat /\ count \in Nat /\ MaxCount \in Nat
  BY BoundsAssumption DEF BufferInv
<1>2. /\ buffer[b].open /\ held[x] > 0 /\ Moves(x)
      /\ \/ count = 0 /\ Perform(Releases(<<x>>)) /\ buffer' = buffer
         \/ /\ count > 0 /\ offset <= buffer[b].count /\ offset + count <= MaxCount
            /\ Perform(Retains(kept) \o Releases(Elements(b, offset, Lesser(offset + count, buffer[b].count))))
            /\ SetRange(b, offset, new)
  BY DEF FillMove, Extends, MoveRetains
<1>3. CASE count = 0
  <2>1. Discard(x)
    BY <1>2, <1>3 DEF Discard
  <2> QED BY <2>1, DiscardKept
<1>4. CASE count > 0
  <2>1. /\ new \in Seq(Objects) /\ Len(new) = count
        /\ \A y \in Objects : Count(new, y) = IF y = x THEN count ELSE 0
    BY <1>1, TimesCounted
  <2>2. /\ kept \in Seq(Objects) /\ Len(kept) = count - 1 /\ (\A i \in 1..count - 1 : kept[i] = x)
        /\ \A y \in Objects : Count(kept, y) = IF y = x THEN count - 1 ELSE 0
    <3>1. count - 1 \in Nat
      BY <1>1, <1>4
    <3> QED BY <3>1, TimesCounted
  <2> HIDE DEF new, kept
  <2>3. Perform(Retains(kept) \o Releases(old))
    BY <1>2, <1>4, <2>1 DEF Overwritten
  <2>4. old \in Seq(Objects) /\ \A y \in Objects : Count(old, y) <= references[y] /\ Count(old, y) \in Nat
    BY <1>1, <1>2, <1>4, <2>1, OverwrittenIs
  <2> HIDE DEF old
  <2>5. \A i \in 1..Len(kept) : references[kept[i]] # 0
    <3>1. /\ references[x] = held[x] + Cardinality(PlacesIn(buffer, x)) /\ held[x] \in Nat
          /\ Cardinality(PlacesIn(buffer, x)) \in Nat
      BY Adds
    <3>2. references[x] # 0
      BY <1>2, <3>1
    <3> QED BY <2>2, <3>2
  <2>6. references' = [y \in Objects |-> references[y] + Count(kept, y) - Count(old, y)] /\ faulted' = faulted
    BY <1>1, <2>2, <2>3, <2>4, <2>5, Exchanges
  <2>7. Writes(buffer', b, offset, new)
    BY <1>1, <1>2, <1>4, <2>1, RangeSet
  <2>8. /\ held' \in [Objects -> 0..MaxHeld]
        /\ \A y \in Objects : held'[y] = IF y = x THEN held[y] - 1 ELSE held[y]
    BY <1>2, MovesIs
  <2>9. ASSUME NEW y \in Objects
        PROVE  references'[y] = held'[y] + Cardinality(PlacesIn(buffer, y))
                                - Count(Overwritten(b, offset, new), y) + Count(new, y)
    <3>1. /\ references[y] = held[y] + Cardinality(PlacesIn(buffer, y)) /\ held[y] \in Nat
          /\ Cardinality(PlacesIn(buffer, y)) \in Nat
      BY Adds
    <3>2. references'[y] = references[y] + Count(kept, y) - Count(old, y) /\ Count(old, y) \in Nat
      BY <2>4, <2>6
    <3>3. /\ Count(new, y) = IF y = x THEN count ELSE 0
          /\ Count(kept, y) = IF y = x THEN count - 1 ELSE 0
          /\ held'[y] = IF y = x THEN held[y] - 1 ELSE held[y]
      BY <2>1, <2>2, <2>8
    <3>4. references'[y] = held'[y] + Cardinality(PlacesIn(buffer, y)) - Count(old, y) + Count(new, y)
      BY <1>1, <3>1, <3>2, <3>3
    <3> QED BY <3>4 DEF old
  <2>10. references' = [y \in Objects |-> references'[y]]
    BY <2>6
  <2> QED BY <1>1, <2>1, <2>6, <2>7, <2>8, <2>9, <2>10, WritesKept
<1> QED BY <1>1, <1>3, <1>4

\* New objects that are the elements of a new Buffer: each occurs once.
LEMMA OnceCounted ==
    ASSUME NEW count \in Nat, NEW xs \in [1..count -> Objects], IsInjective(xs)
    PROVE  /\ xs \in Seq(Objects) /\ Len(xs) = count
           /\ \A y \in Objects : Count(xs, y) = IF y \in Range(xs) THEN 1 ELSE 0
<1>1. xs \in Seq(Objects) /\ Len(xs) = count /\ DOMAIN xs = 1..count
  OBVIOUS
<1>2. ASSUME NEW y \in Objects PROVE Count(xs, y) = IF y \in Range(xs) THEN 1 ELSE 0
  <2>1. CASE y \in Range(xs)
    <3>1. PICK i \in 1..count : xs[i] = y
      BY <1>1, <2>1 DEF Range
    <3>2. Where(xs, y) = {i}
      BY <1>1, <3>1 DEF Where, IsInjective
    <3> QED BY <2>1, <3>2, FS_Singleton DEF Count
  <2>2. CASE y \notin Range(xs)
    <3>1. Where(xs, y) = {}
      BY <1>1, <2>2 DEF Where, Range
    <3> QED BY <2>2, <3>1, FS_EmptySet DEF Count
  <2> QED BY <2>1, <2>2
<1> QED BY <1>1, <1>2

LEMMA FromArgumentsKept ==
    ASSUME BufferInv, NEW b \in Buffers, NEW count \in 0..MaxCount, FromArguments(b, count)
    PROVE  BufferInv'
<1>1. /\ Shaped(buffer) /\ references \in [Objects -> Nat] /\ held \in [Objects -> 0..MaxHeld]
      /\ count \in Nat /\ MaxCount \in Nat
  BY BoundsAssumption DEF BufferInv
<1>2. ~buffer[b].open /\ held' = held /\ faulted' = faulted
  BY DEF FromArguments
<1>3. PICK xs \in [1..count -> {x \in Objects : references[x] = 0}] :
         /\ IsInjective(xs)
         /\ references' = [x \in Objects |-> IF x \in Range(xs) THEN 1 ELSE references[x]]
         /\ buffer' = [buffer EXCEPT ![b] = [open |-> TRUE, count |-> count, cells |-> xs]]
  BY DEF FromArguments
<1>4. xs \in [1..count -> Objects] /\ \A y \in Range(xs) : references[y] = 0
  BY DEF Range
<1>5. /\ xs \in Seq(Objects) /\ Len(xs) = count
      /\ \A y \in Objects : Count(xs, y) = IF y \in Range(xs) THEN 1 ELSE 0
  BY <1>1, <1>3, <1>4, OnceCounted
<1>6. buffer \in [Buffers -> BufferShape] /\ buffer[b].count = 0
  BY <1>1, <1>2 DEF Shaped
<1> DEFINE made == [open |-> TRUE, count |-> count, cells |-> xs]
<1>7. made \in BufferShape /\ made.open /\ made.count = count /\ made.cells = xs
  <2>1. xs \in Seq(Objects \cup {Junk})
    <3>1. xs \in [1..count -> Objects \cup {Junk}]
      BY <1>4
    <3> QED BY <1>1, <3>1
  <2> QED BY <2>1 DEF BufferShape
<1>8. buffer' = [buffer EXCEPT ![b] = made]
  BY <1>3
<1> HIDE DEF made
<1>9. Writes(buffer', b, 0, xs)
  <2>1. /\ buffer' \in [Buffers -> BufferShape] /\ buffer'[b] = made
        /\ \A c \in Buffers : c # b => buffer'[c] = buffer[c]
    BY <1>6, <1>7, <1>8
  <2>2. Greater(buffer[b].count, 0 + Len(xs)) = count
    BY <1>1, <1>5, <1>6 DEF Greater
  <2>3. \A i \in 1..count : i \in 0 + 1..0 + Len(xs) /\ i - 0 = i
    BY <1>1, <1>5
  <2>4. 0 <= buffer[b].count /\ count <= Len(made.cells)
    BY <1>1, <1>5, <1>6, <1>7
  <2> QED BY <1>7, <2>1, <2>2, <2>3, <2>4 DEF Writes
<1>10. Overwritten(b, 0, xs) = Elements(b, buffer[b].count, buffer[b].count)
  <2>1. Lesser(0 + Len(xs), 0) = 0
    BY <1>1, <1>5 DEF Lesser
  <2> QED BY <1>6, <2>1 DEF Overwritten
<1>11. ASSUME NEW y \in Objects
       PROVE  references'[y] = held'[y] + Cardinality(PlacesIn(buffer, y))
                               - Count(Overwritten(b, 0, xs), y) + Count(xs, y)
  <2>1. Count(Overwritten(b, 0, xs), y) = 0
    BY <1>1, <1>10, NothingBetween
  <2>2. /\ references[y] = held[y] + Cardinality(PlacesIn(buffer, y)) /\ held[y] \in Nat
        /\ Cardinality(PlacesIn(buffer, y)) \in Nat
    BY Adds
  <2>3. /\ references'[y] = IF y \in Range(xs) THEN 1 ELSE references[y]
        /\ y \in Range(xs) => references[y] = 0
        /\ Count(xs, y) = IF y \in Range(xs) THEN 1 ELSE 0
        /\ held'[y] = held[y]
    BY <1>2, <1>3, <1>4, <1>5
  <2> QED BY <2>1, <2>2, <2>3
<1>12. references' = [y \in Objects |-> references'[y]] /\ held' \in [Objects -> 0..MaxHeld]
  BY <1>1, <1>2, <1>3
<1>13. 0 \in Nat /\ xs \in Seq(Objects) /\ faulted' = faulted
  BY <1>2, <1>5
<1> QED BY <1>9, <1>11, <1>12, <1>13, WritesKept

-----------------------------------------------------------------------------
(* The invariant of the program.                                            *)

LEMMA BufferInitial == Init => BufferInv
<1> SUFFICES ASSUME Init PROVE BufferInv
  OBVIOUS
<1>1. MaxHeld \in Nat /\ MaxCount \in Nat /\ 0 \in 0..MaxHeld /\ 0 \in 0..MaxCount
  BY BoundsAssumption
<1>2. /\ references = [x \in Objects |-> 0] /\ held = [x \in Objects |-> 0]
      /\ buffer = [b \in Buffers |-> Closed] /\ faulted = FALSE
  BY DEF Init
<1>3. Closed \in BufferShape /\ Closed.count = 0 /\ Len(Closed.cells) = 0
  BY <1>1 DEF BufferShape, Closed
<1>4. Shaped(buffer)
  <2>1. \A i \in 1..0 : FALSE
    OBVIOUS
  <2>2. 0 <= 0
    OBVIOUS
  <2> QED BY <1>2, <1>3, <2>1, <2>2 DEF Shaped
<1>5. ASSUME NEW x \in Objects PROVE references[x] = held[x] + Cardinality(PlacesIn(buffer, x))
  <2>1. PlacesIn(buffer, x) = {}
    <3> SUFFICES ASSUME NEW place \in Buffers \X (1..MaxCount), place[2] <= buffer[place[1]].count PROVE FALSE
      BY DEF PlacesIn
    <3>1. place[1] \in Buffers /\ place[2] \in 1..MaxCount
      OBVIOUS
    <3>2. buffer[place[1]].count = 0
      BY <1>2, <1>3, <3>1
    <3> QED BY <1>1, <3>1, <3>2
  <2> QED BY <1>2, <2>1, FS_EmptySet
<1>6. references \in [Objects -> Nat] /\ held \in [Objects -> 0..MaxHeld]
  BY <1>1, <1>2
<1> QED BY <1>2, <1>4, <1>5, <1>6 DEF BufferInv

LEMMA BufferStep == BufferInv /\ [Next]_vars => BufferInv'
<1> SUFFICES ASSUME BufferInv, [Next]_vars PROVE BufferInv'
  OBVIOUS
<1>1. ASSUME NEW x \in Objects, Create(x) PROVE BufferInv'
  BY <1>1, CreateKept
<1>2. ASSUME NEW x \in Objects, Keep(x) PROVE BufferInv'
  BY <1>2, KeepKept
<1>3. ASSUME NEW x \in Objects, Discard(x) PROVE BufferInv'
  BY <1>3, DiscardKept
<1>4. ASSUME NEW b \in Buffers, Destroy(b) PROVE BufferInv'
  BY <1>4, DestroyKept
<1>5. ASSUME NEW b \in Buffers, NEW n \in 0..MaxCount,
             Make(b, n) \/ FromArguments(b, n) \/ Truncate(b, n) \/ ReserveElements(b, n)
      PROVE  BufferInv'
  BY <1>5, MakeKept, FromArgumentsKept, TruncateKept, ReserveElementsKept
<1>6. ASSUME NEW b \in Buffers, NEW x \in Objects, NewMove(b, x) PROVE BufferInv'
  BY <1>6, NewMoveKept
<1>7. ASSUME NEW b \in Buffers, NEW x \in Objects, NEW i \in 0..MaxCount - 1, ReplaceMove(b, i, x)
      PROVE  BufferInv'
  BY <1>7, ReplaceMoveKept
<1>8. ASSUME NEW b \in Buffers, NEW i \in 0..MaxCount - 1, Get(b, i) PROVE BufferInv'
  BY <1>8, GetKept
<1>9. ASSUME NEW b \in Buffers, NEW x \in Objects, NEW offset \in 0..MaxCount, NEW count \in 0..MaxCount,
             FillManaged(b, offset, count, x) \/ FillMove(b, offset, count, x)
      PROVE  BufferInv'
  BY <1>9, FillManagedKept, FillMoveKept
<1>10. ASSUME NEW b \in Buffers, NEW source \in Buffers, NEW offset \in 0..MaxCount,
              NEW first \in 0..MaxCount, NEW count \in 0..MaxCount,
              CopyManaged(b, offset, source, first, count)
       PROVE  BufferInv'
  BY <1>10, CopyManagedKept
<1>11. ASSUME NEW b \in Buffers, NEW source \in Buffers, NEW first \in 0..MaxCount,
              NEW count \in 0..MaxCount, AppendValues(b, source, first, count)
       PROVE  BufferInv'
  BY <1>11, AppendValuesKept
<1>12. CASE UNCHANGED vars
  <2>1. references' = references /\ held' = held /\ buffer' = buffer /\ faulted' = faulted
    BY <1>12 DEF vars
  <2> QED BY <2>1 DEF BufferInv
<1> QED BY <1>1, <1>2, <1>3, <1>4, <1>5, <1>6, <1>7, <1>8, <1>9, <1>10, <1>11, <1>12 DEF Next

LEMMA BufferAlways == Spec => []BufferInv
<1> QED BY BufferInitial, BufferStep, PTL DEF Spec

\* Types hold in every reachable state, and a Buffer's count always lies within its storage
\* (buffer.c: truncate and reserve; buffer_range.c: the extends).
THEOREM TypesKept == Spec => []TypeOK
<1>1. BufferInv => TypeOK
  BY DEF BufferInv, Shaped, BufferShape, TypeOK
<1> QED BY <1>1, BufferAlways, PTL

\* However the program interleaves the operations on its Buffers, and however their ranges
\* overlap, an object's count is what the program holds plus one for each live element: the
\* retains and releases of buffer_range.c lose none and repeat none.
THEOREM ReferencesMatch == Spec => []ReferencesMatchElements
<1>1. \A x : PlacesIn(buffer, x) = Places(x)
  BY DEF PlacesIn, Places
<1>2. BufferInv => ReferencesMatchElements
  BY <1>1 DEF BufferInv, ReferencesMatchElements
<1> QED BY <1>2, BufferAlways, PTL

\* No operation retains or releases an object destroyed by an earlier event, its own events
\* included, and every live element is one that some operation stored: never bytes that
\* mal_buffer_reserve left uninitialised.
THEOREM UsesOnlyLive == Spec => []ElementsUsable
<1>1. ASSUME BufferInv PROVE ElementsUsable
  <2>1. NothingUsedAfterDestruction
    BY <1>1 DEF BufferInv, NothingUsedAfterDestruction
  <2>2. ASSUME NEW b \in Buffers PROVE Junk \notin Range(Live(b))
    <3> DEFINE live == Live(b)
    <3>1. Shaped(buffer) /\ buffer[b].count \in Nat /\ 0 <= buffer[b].count /\ buffer[b].count <= buffer[b].count
      BY <1>1 DEF BufferInv, Shaped, BufferShape
    <3>2. live \in Seq(Objects)
      BY <3>1, ElementsAre DEF Live
    <3> HIDE DEF live
    <3>3. \A i \in DOMAIN live : live[i] \in Objects
      BY <3>2
    <3>4. Junk \notin Range(live)
      BY <3>3, BoundsAssumption DEF Range
    <3> QED BY <3>4 DEF live
  <2> QED BY <2>1, <2>2 DEF ElementsUsable, LiveElementsStored
<1> QED BY <1>1, BufferAlways, PTL
==============================================================================

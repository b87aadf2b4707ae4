------------------------- MODULE Requirements_proofs -------------------------
(***************************************************************************)
(* Lemmas about the files that requirements lead to: for any finite set of *)
(* paths they are the least set that holds the seed and is closed, so they *)
(* depend only on the texts of the files among them.                       *)
(***************************************************************************)
EXTENDS Requirements, FiniteSetTheorems, SequenceTheorems, WellFoundedInduction, TLAPS

\* A set of numbers that is not empty has a least one.
LEMMA LeastNatural ==
    ASSUME NEW T, T \subseteq Nat, T # {}
    PROVE  \E n \in T : \A m \in T : n <= m
<1> DEFINE Less == {ss \in Nat \X Nat : ss[1] < ss[2]}
<1>1. OpToRel(<, Nat) = Less
  BY Zenon DEF OpToRel
<1>2. IsWellFoundedOn(Less, Nat)
  BY <1>1, NatLessThanWellFounded, Zenon
<1>3. PICK n \in T : \A m \in T : ~ (<<m, n>> \in Less)
  <2> HIDE DEF Less
  <2> QED BY <1>2, WFMin
<1>4. ASSUME NEW m \in T PROVE n <= m
  <2>1. m \in Nat /\ n \in Nat /\ ~ (<<m, n>> \in Less)
    BY <1>3
  <2>2. ~ (m < n)
    BY <2>1
  <2> QED BY <2>1, <2>2
<1> QED BY <1>4

\* What holds of 0 and passes from each number to the next holds of all up to last.
LEMMA UpFrom ==
    ASSUME NEW last \in Nat, NEW T, 0 \in T, \A n \in 0..last - 1 : n \in T => n + 1 \in T
    PROVE  0..last \subseteq T
<1> DEFINE Missed == {n \in 0..last : n \notin T}
<1> SUFFICES ASSUME Missed # {} PROVE FALSE
  OBVIOUS
<1>1. PICK n \in Missed : \A m \in Missed : n <= m
  <2>1. Missed \subseteq Nat
    OBVIOUS
  <2> HIDE DEF Missed
  <2> QED BY <2>1, LeastNatural
<1>2. n \in 0..last /\ n # 0
  OBVIOUS
<1>3. n - 1 \in 0..last - 1 /\ ~(n <= n - 1) /\ (n - 1) + 1 = n
  BY <1>2
<1>4. n - 1 \in T
  BY <1>1, <1>3
<1> QED BY <1>3, <1>4
-----------------------------------------------------------------------------
(* Reachability.                                                            *)

\* A file that requires nothing outside paths, for every file of paths.
ClosedUnder(sources, paths) == \A path \in paths : Requires(sources, path) \cap MalFiles \subseteq paths

\* One round of ReachableFrom.
Nearer(sources, paths) == paths \cup UNION {Requires(sources, path) \cap MalFiles : path \in paths}

Round(sources, seed, f, n) == IF n = 0 THEN seed ELSE Nearer(sources, f[n - 1])

\* ReachableFrom is what the last of Cardinality(MalFiles) rounds gives.
LEMMA RoundsExist ==
    ASSUME NEW sources, NEW seed, NEW last \in Nat
    PROVE  \E f : f = [n \in 0..last |-> Round(sources, seed, f, n)]
<1> DEFINE T == {m \in 0..last : \E f : f = [n \in 0..m |-> Round(sources, seed, f, n)]}
<1>1. 0 \in T
  <2> DEFINE f == [n \in 0..0 |-> seed]
  <2>1. \A n \in 0..0 : Round(sources, seed, f, n) = seed
    BY DEF Round
  <2>2. f = [n \in 0..0 |-> Round(sources, seed, f, n)]
    BY <2>1
  <2> QED BY <2>2
<1>2. ASSUME NEW m \in 0..last - 1, m \in T PROVE m + 1 \in T
  <2>1. PICK f : f = [n \in 0..m |-> Round(sources, seed, f, n)]
    BY <1>2
  <2> DEFINE g == [n \in 0..m + 1 |-> IF n = m + 1 THEN Nearer(sources, f[m]) ELSE f[n]]
  <2>2. \A n \in 0..m + 1 : g[n] = Round(sources, seed, g, n)
    <3> SUFFICES ASSUME NEW n \in 0..m + 1 PROVE g[n] = Round(sources, seed, g, n)
      OBVIOUS
    <3>1. CASE n = m + 1
      <4>1. n # 0 /\ n - 1 = m /\ m \in 0..m + 1 /\ m # m + 1
        BY <3>1
      <4>2. g[m] = f[m] /\ g[n] = Nearer(sources, f[m])
        BY <3>1, <4>1
      <4> HIDE DEF g
      <4> QED BY <4>1, <4>2 DEF Round
    <3>2. CASE n # m + 1
      <4>1. n \in 0..m /\ (n # 0 => n - 1 \in 0..m + 1 /\ n - 1 # m + 1)
        BY <3>2
      <4>2. f[n] = Round(sources, seed, f, n)
        BY <2>1, <4>1
      <4>3. g[n] = f[n] /\ (n # 0 => g[n - 1] = f[n - 1])
        BY <3>2, <4>1
      <4> HIDE DEF g
      <4> QED BY <4>2, <4>3 DEF Round
    <3> QED BY <3>1, <3>2
  <2>3. g = [n \in 0..m + 1 |-> Round(sources, seed, g, n)]
    BY <2>2
  <2>4. m + 1 \in 0..last /\ \E h : h = [n \in 0..m + 1 |-> Round(sources, seed, h, n)]
    <3>1. m + 1 \in 0..last
      OBVIOUS
    <3> HIDE DEF g
    <3> QED BY <2>3, <3>1
  <2> QED BY <2>4
<1>3. 0..last \subseteq T
  <2> HIDE DEF T
  <2> QED BY <1>1, <1>2, UpFrom
<1>4. last \in T
  BY <1>3
<1> QED BY <1>4

\* The rounds: the last one is what is reachable.
LEMMA Rounds ==
    ASSUME NEW sources, NEW seed
    PROVE  /\ Cardinality(MalFiles) \in Nat
           /\ \E w : /\ w[0] = seed
                     /\ \A n \in 0..Cardinality(MalFiles) - 1 : w[n + 1] = Nearer(sources, w[n])
                     /\ ReachableFrom(sources, seed) = w[Cardinality(MalFiles)]
<1> DEFINE N == Cardinality(MalFiles)
           w == CHOOSE f : f = [n \in 0..N |-> Round(sources, seed, f, n)]
<1>1. N \in Nat
  BY TextsAssumption, FS_CardinalityType
<1>2. ReachableFrom(sources, seed) = w[N]
  BY DEF ReachableFrom, Round, Nearer
<1> HIDE DEF N
<1>3. w = [n \in 0..N |-> Round(sources, seed, w, n)]
  BY <1>1, RoundsExist
<1> HIDE DEF w
<1>4. \A n \in 0..N : w[n] = Round(sources, seed, w, n)
  BY <1>3
<1>5. w[0] = seed
  BY <1>1, <1>4 DEF Round
<1>6. ASSUME NEW n \in 0..N - 1 PROVE w[n + 1] = Nearer(sources, w[n])
  <2>1. n + 1 \in 0..N /\ n + 1 # 0 /\ (n + 1) - 1 = n
    BY <1>1
  <2> QED BY <1>4, <2>1 DEF Round
<1> QED BY <1>1, <1>2, <1>5, <1>6 DEF N

\* Reachable files are the seed's and closed: enough rounds were made.
LEMMA ReachableClosed ==
    ASSUME NEW sources, NEW seed, seed \subseteq MalFiles
    PROVE  /\ seed \subseteq ReachableFrom(sources, seed)
           /\ ReachableFrom(sources, seed) \subseteq MalFiles
           /\ ClosedUnder(sources, ReachableFrom(sources, seed))
<1> DEFINE N == Cardinality(MalFiles)
<1>1. PICK w : /\ w[0] = seed
               /\ \A n \in 0..N - 1 : w[n + 1] = Nearer(sources, w[n])
               /\ ReachableFrom(sources, seed) = w[N]
  BY Rounds
<1>2. N \in Nat /\ IsFiniteSet(MalFiles)
  BY Rounds, TextsAssumption
<1> DEFINE T == {n \in 0..N : /\ seed \subseteq w[n] /\ w[n] \subseteq MalFiles
                              /\ Cardinality(w[n]) >= n \/ ClosedUnder(sources, w[n])}
<1> HIDE DEF N
<1>3. 0 \in T
  <2>1. Cardinality(seed) \in Nat
    BY <1>2, FS_Subset, FS_CardinalityType
  <2> QED BY <1>1, <1>2, <2>1
<1>4. ASSUME NEW n \in 0..N - 1, n \in T PROVE n + 1 \in T
  <2> DEFINE a == w[n]
             b == w[n + 1]
  <2>1. /\ seed \subseteq a /\ a \subseteq MalFiles
        /\ Cardinality(a) >= n \/ ClosedUnder(sources, a)
        /\ b = Nearer(sources, a)
    BY <1>1, <1>4
  <2>2. n \in Nat /\ n + 1 \in 0..N
    BY <1>2
  <2> HIDE DEF a, b
  <2>3. a \subseteq b /\ b \subseteq MalFiles
    BY <2>1 DEF Nearer
  <2>4. CASE ClosedUnder(sources, a)
    <3>1. b = a
      BY <2>1, <2>4 DEF Nearer, ClosedUnder
    <3> QED BY <2>1, <2>2, <2>4, <3>1 DEF a, b
  <2>5. CASE ~ClosedUnder(sources, a)
    <3>1. a # b
      BY <2>1, <2>5 DEF Nearer, ClosedUnder
    <3>2. IsFiniteSet(b)
      BY <1>2, <2>3, FS_Subset
    <3>3. /\ IsFiniteSet(a) /\ Cardinality(a) \in Nat /\ Cardinality(b) \in Nat
          /\ Cardinality(a) < Cardinality(b) /\ Cardinality(a) >= n
      <4>1. IsFiniteSet(a) /\ Cardinality(a) <= Cardinality(b) /\ Cardinality(a) # Cardinality(b)
        BY <2>3, <3>1, <3>2, FS_Subset
      <4>2. Cardinality(a) \in Nat /\ Cardinality(b) \in Nat
        BY <3>2, <4>1, FS_CardinalityType
      <4> QED BY <2>1, <2>5, <4>1, <4>2
    <3>4. Cardinality(b) >= n + 1
      BY <2>2, <3>3
    <3> QED BY <2>1, <2>2, <2>3, <3>4 DEF a, b
  <2> QED BY <2>4, <2>5
<1>5. N \in T
  <2>1. 0..N \subseteq T
    <3> HIDE DEF T
    <3> QED BY <1>2, <1>3, <1>4, UpFrom
  <2> QED BY <1>2, <2>1
<1>6. CASE Cardinality(w[N]) >= N
  <2>1. w[N] = MalFiles
    <3>1. w[N] \subseteq MalFiles
      BY <1>5
    <3>2. /\ Cardinality(w[N]) \in Nat /\ IsFiniteSet(w[N])
          /\ Cardinality(w[N]) = Cardinality(MalFiles) => w[N] = MalFiles
          /\ Cardinality(w[N]) <= Cardinality(MalFiles)
      BY <1>2, <3>1, FS_Subset, FS_CardinalityType
    <3> QED BY <1>2, <1>6, <3>2 DEF N
  <2> QED BY <1>1, <1>5, <2>1 DEF ClosedUnder
<1>7. CASE ClosedUnder(sources, w[N])
  BY <1>1, <1>5, <1>7
<1> QED BY <1>5, <1>6, <1>7

\* And they are in every closed set that has the seed.
LEMMA ReachableLeast ==
    ASSUME NEW sources, NEW seed, NEW paths, seed \subseteq paths, ClosedUnder(sources, paths)
    PROVE  ReachableFrom(sources, seed) \subseteq paths
<1> DEFINE N == Cardinality(MalFiles)
<1>1. PICK w : /\ w[0] = seed
               /\ \A n \in 0..N - 1 : w[n + 1] = Nearer(sources, w[n])
               /\ ReachableFrom(sources, seed) = w[N]
  BY Rounds
<1>2. N \in Nat
  BY Rounds
<1> DEFINE T == {n \in 0..N : w[n] \subseteq paths}
<1> HIDE DEF N
<1>3. 0 \in T
  BY <1>1, <1>2
<1>4. ASSUME NEW n \in 0..N - 1, n \in T PROVE n + 1 \in T
  <2>1. w[n + 1] = Nearer(sources, w[n]) /\ w[n] \subseteq paths /\ n + 1 \in 0..N
    BY <1>1, <1>2, <1>4
  <2>2. w[n + 1] \subseteq paths
    BY <2>1 DEF Nearer, ClosedUnder
  <2> QED BY <2>1, <2>2
<1>5. N \in T
  <2>1. 0..N \subseteq T
    <3> HIDE DEF T
    <3> QED BY <1>2, <1>3, <1>4, UpFrom
  <2> QED BY <1>2, <2>1
<1> QED BY <1>1, <1>5

\* Only the texts of the reachable files matter.
LEMMA ReachableSame ==
    ASSUME NEW sources, NEW others, NEW seed, seed \subseteq MalFiles,
           \A path \in ReachableFrom(sources, seed) : others[path] = sources[path]
    PROVE  ReachableFrom(others, seed) = ReachableFrom(sources, seed)
<1> DEFINE here == ReachableFrom(sources, seed)
           there == ReachableFrom(others, seed)
<1>1. /\ seed \subseteq here /\ ClosedUnder(sources, here)
      /\ seed \subseteq there /\ ClosedUnder(others, there)
  BY ReachableClosed
<1>2. \A path \in here : Requires(others, path) = Requires(sources, path)
  BY DEF Requires, Readable
<1> HIDE DEF here, there
<1>3. ClosedUnder(others, here)
  BY <1>1, <1>2 DEF ClosedUnder
<1>4. there \subseteq here
  BY <1>1, <1>3, ReachableLeast DEF there
<1>5. ClosedUnder(sources, there)
  BY <1>1, <1>2, <1>4 DEF ClosedUnder
<1>6. here \subseteq there
  BY <1>1, <1>5, ReachableLeast DEF here
<1> QED BY <1>4, <1>6 DEF here, there

\* A program holds its root and whatever a file of it requires.
LEMMA ProgramIs ==
    ASSUME NEW src, NEW root \in MalFiles
    PROVE  /\ root \in Program(src, root) /\ Program(src, root) \subseteq MalFiles
           /\ ClosedUnder(src, Program(src, root))
<1> {root} \subseteq MalFiles
  OBVIOUS
<1> QED BY ReachableClosed DEF Program

\* Texts that agree on the files of a program have the same program and the same obstacles.
LEMMA SameProgram ==
    ASSUME NEW sources, NEW others, NEW onDisk, NEW root \in MalFiles,
           \A path \in Program(sources, root) : others[path] = sources[path]
    PROVE  /\ Program(others, root) = Program(sources, root)
           /\ Obstacles(others, onDisk, root) = Obstacles(sources, onDisk, root)
<1> DEFINE program == Program(sources, root)
<1>1. Program(others, root) = program
  <2>1. {root} \subseteq MalFiles
    OBVIOUS
  <2> QED BY <2>1, ReachableSame DEF Program
<1>2. ASSUME NEW path \in program
      PROVE  /\ Readable(others, path) <=> Readable(sources, path)
             /\ Requires(others, path) = Requires(sources, path)
             /\ OnCycle(others, path) <=> OnCycle(sources, path)
  <2> DEFINE seed == Requires(sources, path) \cap MalFiles
  <2>1. others[path] = sources[path]
    OBVIOUS
  <2>2. /\ Readable(others, path) <=> Readable(sources, path)
        /\ Requires(others, path) = Requires(sources, path)
    BY <2>1 DEF Readable, Requires
  <2>3. seed \subseteq program /\ ClosedUnder(sources, program)
    BY ProgramIs DEF ClosedUnder
  <2>4. ReachableFrom(sources, seed) \subseteq program
    <3> HIDE DEF seed, program
    <3> QED BY <2>3, ReachableLeast
  <2>5. \A other \in ReachableFrom(sources, seed) : others[other] = sources[other]
    BY <2>4
  <2>6. ReachableFrom(others, seed) = ReachableFrom(sources, seed)
    <3>1. seed \subseteq MalFiles
      OBVIOUS
    <3> HIDE DEF seed, program
    <3> QED BY <2>5, <3>1, ReachableSame
  <2> QED BY <2>2, <2>6 DEF OnCycle
<1> HIDE DEF program
<1>3. Obstacles(others, onDisk, root) = Obstacles(sources, onDisk, root)
  <2>1. ASSUME NEW path
        PROVE  path \in Obstacles(others, onDisk, root) <=> path \in Obstacles(sources, onDisk, root)
    <3>1. CASE path \in program
      BY <1>1, <1>2, <3>1 DEF Obstacles, program
    <3>2. CASE path \notin program
      BY <1>1, <3>2 DEF Obstacles, program
    <3> QED BY <3>1, <3>2
  <2>2. /\ \A path \in Obstacles(others, onDisk, root) : path \in Obstacles(sources, onDisk, root)
        /\ \A path \in Obstacles(sources, onDisk, root) : path \in Obstacles(others, onDisk, root)
    BY <2>1
  <2> QED BY <2>2
<1> QED BY <1>1, <1>3 DEF program
==============================================================================

----------------------- MODULE CompilerDriver_proofs -----------------------
(***************************************************************************)
(* A build loads, resolves and names its directory rightly for every       *)
(* program and any number of builds.  The loader's invariant accounts for  *)
(* each requirement of the files on its stack and ranks the loaded ones;   *)
(* the resolver's says that requirements lead down its stack and that a    *)
(* file is resolved after those it requires; the builds' says that no name *)
(* is taken twice and that only directories left behind make them retry.   *)
(* The last part is about the names of one file: constructs, scopes and    *)
(* lambdas nest, and a scope declares what its own lambda owns, so that a  *)
(* reference finds its owner and can be captured on the way to it.         *)
(***************************************************************************)
EXTENDS CompilerDriver, NameResolution, Requirements_proofs

(* Loading. *)

Paths == MalFiles \cup CFiles \cup OtherPaths
Frames == [path : MalFiles, id : Nat, rest : Seq(Paths), by : Nat]

\* The top frame after one of its requirements is taken.
LEMMA AdvancedIs ==
    ASSUME pending \in Seq(Frames), pending # <<>>, Top.rest # <<>>
    PROVE  /\ Len(pending) \in Nat \ {0} /\ Len(pending) \in DOMAIN pending
           /\ Top = pending[Len(pending)] /\ Top \in Frames
           /\ Advanced \in Seq(Frames) /\ Len(Advanced) = Len(pending)
           /\ DOMAIN Advanced = DOMAIN pending
           /\ \A i \in DOMAIN pending :
                 /\ Advanced[i].path = pending[i].path /\ Advanced[i].id = pending[i].id
                 /\ Advanced[i].by = pending[i].by
                 /\ i # Len(pending) => Advanced[i] = pending[i]
           /\ Advanced[Len(pending)].rest = Tail(Top.rest)
           /\ Head(Top.rest) \in Paths /\ Tail(Top.rest) \in Seq(Paths)
           /\ Range(Top.rest) = {Head(Top.rest)} \cup Range(Tail(Top.rest))
<1> DEFINE n == Len(pending)
<1>1. /\ n \in Nat \ {0} /\ n \in DOMAIN pending /\ DOMAIN pending = 1..n /\ Top = pending[n]
      /\ \A i \in DOMAIN pending : pending[i] \in Frames
  <2>1. n \in Nat /\ DOMAIN pending = 1..n /\ n # 0
    BY LenProperties, EmptySeq
  <2> QED BY <2>1, ElementOfSeq DEF Top, Last
<1>2. Top \in Frames /\ Top.rest \in Seq(Paths)
  BY <1>1 DEF Frames
<1>3. /\ Head(Top.rest) \in Paths /\ Tail(Top.rest) \in Seq(Paths)
      /\ Range(Top.rest) = {Head(Top.rest)} \cup Range(Tail(Top.rest))
  <2> DEFINE rest == Top.rest
  <2>1. /\ Head(rest) = rest[1] /\ rest[1] \in Paths /\ Tail(rest) \in Seq(Paths)
        /\ Len(rest) \in Nat \ {0} /\ DOMAIN rest = 1..Len(rest) /\ Len(Tail(rest)) = Len(rest) - 1
        /\ DOMAIN Tail(rest) = 1..Len(rest) - 1
        /\ \A i \in 1..Len(rest) - 1 : Tail(rest)[i] = rest[i + 1]
    <3>1. Len(rest) \in Nat /\ DOMAIN rest = 1..Len(rest) /\ Len(rest) # 0
      BY <1>2, LenProperties, EmptySeq
    <3>2. /\ Head(rest) \in Paths /\ Tail(rest) \in Seq(Paths) /\ Len(Tail(rest)) = Len(rest) - 1
          /\ \A i \in 1..Len(Tail(rest)) : Tail(rest)[i] = rest[i + 1]
      BY <1>2, HeadTailProperties
    <3>3. DOMAIN Tail(rest) = 1..Len(Tail(rest))
      BY <3>2, LenProperties
    <3>4. Head(rest) = rest[1]
      BY <1>2
    <3> QED BY <3>1, <3>2, <3>3, <3>4
  <2> HIDE DEF rest
  <2>2. \A x : x \in Range(Tail(rest)) => x \in Range(rest)
    <3> SUFFICES ASSUME NEW i \in 1..Len(rest) - 1 PROVE Tail(rest)[i] \in Range(rest)
      BY <2>1 DEF Range
    <3>1. i + 1 \in DOMAIN rest
      BY <2>1
    <3> QED BY <2>1, <3>1 DEF Range
  <2>3. \A x : x \in Range(rest) => x = Head(rest) \/ x \in Range(Tail(rest))
    <3> SUFFICES ASSUME NEW i \in 1..Len(rest), i # 1 PROVE rest[i] \in Range(Tail(rest))
      BY <2>1 DEF Range
    <3>1. i - 1 \in 1..Len(rest) - 1 /\ (i - 1) + 1 = i
      BY <2>1
    <3> QED BY <2>1, <3>1 DEF Range
  <2>4. Head(rest) \in Range(rest)
    BY <2>1 DEF Range
  <2>5. Range(rest) = {Head(rest)} \cup Range(Tail(rest))
    BY <2>2, <2>3, <2>4
  <2> QED BY <2>1, <2>5 DEF rest
<1>4. \A u \in Frames, x \in Seq(Paths) :
        /\ [u EXCEPT !.rest = x] \in Frames /\ [u EXCEPT !.rest = x].rest = x
        /\ [u EXCEPT !.rest = x].path = u.path /\ [u EXCEPT !.rest = x].id = u.id
        /\ [u EXCEPT !.rest = x].by = u.by
  BY DEF Frames
<1>5. Advanced = [pending EXCEPT ![n] = [Top EXCEPT !.rest = Tail(Top.rest)]]
  BY <1>1 DEF Advanced
<1> DEFINE y == [Top EXCEPT !.rest = Tail(Top.rest)]
<1>6. /\ y \in Frames /\ y.rest = Tail(Top.rest) /\ y.path = Top.path /\ y.id = Top.id
      /\ y.by = Top.by
  BY <1>2, <1>3, <1>4
<1> HIDE DEF y
<1>7. Advanced \in Seq(Frames) /\ Len(Advanced) = n /\ DOMAIN Advanced = DOMAIN pending
  <2>1. Advanced = [pending EXCEPT ![n] = y]
    BY <1>5 DEF y
  <2>2. n \in 1..Len(pending)
    BY <1>1
  <2>3. Advanced \in Seq(Frames) /\ Len(Advanced) = Len(pending)
    BY <1>6, <2>1, <2>2, ExceptSeq
  <2> QED BY <2>1, <2>3
<1>8. Advanced[n] = y /\ \A i \in DOMAIN pending : i # n => Advanced[i] = pending[i]
  BY <1>1, <1>5 DEF y
<1> HIDE DEF n
<1> QED BY <1>1, <1>2, <1>3, <1>6, <1>7, <1>8 DEF n

\* A requirement added to those of a file, once.
LEMMA EdgeAdded ==
    ASSUME NEW reqs \in Seq(Seq(Nat)), NEW id \in DOMAIN reqs, NEW target \in Nat,
           IsInjective(reqs[id])
    PROVE  /\ WithEdge(reqs, id, target) \in Seq(Seq(Nat))
           /\ Len(WithEdge(reqs, id, target)) = Len(reqs)
           /\ DOMAIN WithEdge(reqs, id, target) = DOMAIN reqs
           /\ \A k \in DOMAIN reqs : k # id => WithEdge(reqs, id, target)[k] = reqs[k]
           /\ IsInjective(WithEdge(reqs, id, target)[id])
           /\ Range(WithEdge(reqs, id, target)[id]) = Range(reqs[id]) \cup {target}
<1> DEFINE e == reqs[id]
           after == WithEdge(reqs, id, target)
<1>1. e \in Seq(Nat) /\ id \in 1..Len(reqs)
  BY ElementOfSeq, LenProperties
<1>2. CASE target \in Range(e)
  BY <1>2 DEF WithEdge
<1>3. CASE target \notin Range(e)
  <2>1. after = [reqs EXCEPT ![id] = Append(e, target)]
    BY <1>3 DEF WithEdge
  <2>2. /\ Append(e, target) \in Seq(Nat) /\ Len(Append(e, target)) = Len(e) + 1
        /\ \A i \in 1..Len(e) : Append(e, target)[i] = e[i]
        /\ Append(e, target)[Len(e) + 1] = target
    BY <1>1, AppendProperties
  <2>3. Len(e) \in Nat /\ DOMAIN e = 1..Len(e) /\ DOMAIN Append(e, target) = 1..Len(e) + 1
    BY <1>1, <2>2, LenProperties
  <2> HIDE DEF e, after
  <2>4. after \in Seq(Seq(Nat)) /\ Len(after) = Len(reqs)
    BY <1>1, <2>1, <2>2, ExceptSeq
  <2>5. DOMAIN after = DOMAIN reqs /\ after[id] = Append(e, target)
        /\ \A k \in DOMAIN reqs : k # id => after[k] = reqs[k]
    BY <2>1
  <2>6. \A i \in 1..Len(e) + 1 : i = Len(e) + 1 \/ i \in 1..Len(e)
    BY <2>3
  <2>7. 1..Len(e) \subseteq 1..Len(e) + 1 /\ Len(e) + 1 \in 1..Len(e) + 1
    BY <2>3
  <2>8. Range(Append(e, target)) = Range(e) \cup {target}
    <3>1. \A x : x \in Range(Append(e, target)) => x \in Range(e) \cup {target}
      BY <2>2, <2>3, <2>6 DEF Range
    <3>2. \A x : x \in Range(e) \cup {target} => x \in Range(Append(e, target))
      BY <2>2, <2>3, <2>7 DEF Range
    <3> QED BY <3>1, <3>2
  <2>9. IsInjective(Append(e, target))
    <3> SUFFICES ASSUME NEW a \in 1..Len(e) + 1, NEW b \in 1..Len(e) + 1,
                        Append(e, target)[a] = Append(e, target)[b]
                 PROVE  a = b
      BY <2>3 DEF IsInjective
    <3>1. \A i \in 1..Len(e) : e[i] # target
      BY <1>3, <2>3 DEF Range
    <3>2. \A i, j \in 1..Len(e) : e[i] = e[j] => i = j
      BY <2>3 DEF IsInjective, e
    <3> QED BY <2>2, <2>6, <3>1, <3>2
  <2> QED BY <2>4, <2>5, <2>8, <2>9 DEF e, after
<1> QED BY <1>2, <1>3
-----------------------------------------------------------------------------
(* The invariant of the loader.                                             *)

Edges(fs, reqs, id) == {fs[k] : k \in Range(reqs[id])}
Above(stack, i) == IF i < Len(stack) THEN {stack[i + 1].path} ELSE {}

States == {Unseen, Loading} \cup {Loaded(id) : id \in Nat}

LoadTyped ==
    /\ sources \in [MalFiles -> Texts \cup {Missing}] /\ onDisk \subseteq CFiles
    /\ files \in Seq(MalFiles) /\ cSources \in Seq(CFiles)
    /\ requirements \in Seq(Seq(Nat)) /\ Len(requirements) = Len(files)
    /\ \A id \in DOMAIN files : requirements[id] \in Seq(DOMAIN files)
    /\ DOMAIN states = MalFiles /\ states \in [MalFiles -> States]
    /\ \A path \in MalFiles :
          states[path] \in {Unseen, Loading} \cup {Loaded(id) : id \in DOMAIN files}
    /\ pending \in Seq(Frames)
    /\ \A i \in DOMAIN pending :
          pending[i].id \in DOMAIN files /\ pending[i].by \in {0} \cup DOMAIN files
    /\ outcome \in Errors \cup {"waiting", "loading", "loaded"}

\* Nothing is loaded before the root is begun, which stays the first file.
RootBegun ==
    /\ outcome = "waiting" => files = <<>> /\ pending = <<>> /\ cSources = <<>>
    /\ outcome \in {"loading", "loaded"} => files # <<>> /\ files[1] = Root
    /\ outcome = "loaded" => pending = <<>>

PathsOnce ==
    /\ IsInjective(files)
    /\ \A path \in MalFiles : states[path] = Unseen <=> path \notin Range(files)

FrameOk(src, fs, st, stack, i) ==
    /\ fs[stack[i].id] = stack[i].path /\ st[stack[i].path] = Loading
    /\ Readable(src, stack[i].path)
    /\ IF i = 1 THEN stack[i].by = 0 /\ stack[i].path = Root
       ELSE stack[i].by = stack[i - 1].id /\ stack[i].path \in Requires(src, stack[i - 1].path)

\* The stack is the path of requirements to the file that is loading.
StackHolds ==
    /\ \A i \in DOMAIN pending : FrameOk(sources, files, states, pending, i)
    /\ \A i, j \in DOMAIN pending : pending[i].path = pending[j].path => i = j
    /\ \A path \in MalFiles : states[path] = Loading => \E i \in DOMAIN pending : pending[i].path = path

\* What a file on the stack requires is an edge already, or on top of it, or still to come.
Account(src, fs, reqs, cs, stack, i) ==
    /\ IsInjective(reqs[stack[i].id])
    /\ Requires(src, stack[i].path) \cap MalFiles
         = Edges(fs, reqs, stack[i].id) \cup (Range(stack[i].rest) \cap MalFiles) \cup Above(stack, i)
    /\ Range(stack[i].rest) \subseteq Requires(src, stack[i].path)
    /\ Requires(src, stack[i].path) \cap CFiles \subseteq Range(cs) \cup Range(stack[i].rest)
    /\ Requires(src, stack[i].path) \cap OtherPaths \subseteq Range(stack[i].rest)

Accounts == \A i \in DOMAIN pending : Account(sources, files, requirements, cSources, pending, i)

\* Of a loaded file nothing is left to come.
Settled(src, fs, reqs, cs, st, path) ==
    /\ Readable(src, path)
    /\ st[path].id \in DOMAIN fs /\ fs[st[path].id] = path
    /\ IsInjective(reqs[st[path].id])
    /\ Edges(fs, reqs, st[path].id) = Requires(src, path) \cap MalFiles
    /\ Requires(src, path) \cap CFiles \subseteq Range(cs)
    /\ Requires(src, path) \cap OtherPaths = {}

LoadedSettled ==
    \A path \in MalFiles :
        states[path].kind = "loaded" => Settled(sources, files, requirements, cSources, states, path)

\* An edge leads to a loaded file.
EdgesLoaded ==
    \A id \in DOMAIN files : \A path \in Edges(files, requirements, id) : states[path].kind = "loaded"

\* Loaded files were loaded in an order in which every file comes after those it requires.
InRank(src, st, rank, top, path) ==
    /\ rank[path] < top
    /\ \A other \in Requires(src, path) \cap MalFiles :
          st[other].kind = "loaded" /\ rank[other] < rank[path]

Ranked ==
    \E top \in Nat, rank \in [MalFiles -> Nat] :
        \A path \in MalFiles : states[path].kind = "loaded" => InRank(sources, states, rank, top, path)

Linked ==
    /\ IsInjective(cSources) /\ Range(cSources) \subseteq onDisk
    /\ \A c \in Range(cSources) : \E path \in Range(files) : c \in Requires(sources, path)

Reached == Range(files) \subseteq Program(sources, Root)

ErrorsTrue ==
    outcome \in Errors =>
        ~Loadable(sources, onDisk, Root) /\ Explains(outcome, sources, onDisk, Root)

LoadInv ==
    /\ LoadTyped /\ RootBegun /\ PathsOnce /\ StackHolds /\ Accounts /\ LoadedSettled
    /\ EdgesLoaded /\ Ranked /\ Linked /\ Reached /\ ErrorsTrue

\* The states of a path are told apart by their kinds.
LEMMA Kinds ==
    /\ Unseen.kind = "unseen" /\ Loading.kind = "loading" /\ Unseen # Loading
    /\ \A id : Loaded(id).kind = "loaded" /\ Loaded(id).id = id /\ Loaded(id) # Unseen /\ Loaded(id) # Loading
  BY DEF Unseen, Loading, Loaded

\* Nothing is loaded at first.
LEMMA LoadInitial == InitLoad => LoadInv
<1> SUFFICES ASSUME InitLoad PROVE LoadInv
  OBVIOUS
<1>1. /\ sources \in [MalFiles -> Texts \cup {Missing}] /\ onDisk \subseteq CFiles
      /\ files = <<>> /\ requirements = <<>> /\ pending = <<>> /\ cSources = <<>>
      /\ outcome = "waiting" /\ states = [path \in MalFiles |-> Unseen]
  BY DEF InitLoad
<1>2. /\ \A S : <<>> \in Seq(S)
      /\ Len(<<>>) = 0 /\ DOMAIN <<>> = {} /\ Range(<<>>) = {}
  <2>1. Len(<<>>) = 0 /\ DOMAIN <<>> = {}
    OBVIOUS
  <2> QED BY <2>1 DEF Range
<1>3. \A path \in MalFiles : states[path] = Unseen
  BY <1>1
<1>4. LoadTyped
  <2>1. states \in [MalFiles -> States]
    BY <1>1 DEF States
  <2> QED BY <1>1, <1>2, <1>3, <2>1 DEF LoadTyped
<1>5. RootBegun /\ ErrorsTrue
  BY <1>1 DEF RootBegun, ErrorsTrue, Errors
<1>6. PathsOnce
  BY <1>1, <1>2, <1>3 DEF PathsOnce, IsInjective
<1>7. StackHolds /\ Accounts
  BY <1>1, <1>2, <1>3, Kinds DEF StackHolds, Accounts
<1>8. \A path \in MalFiles : states[path].kind # "loaded"
  BY <1>3, Kinds
<1>9. LoadedSettled /\ EdgesLoaded
  BY <1>1, <1>2, <1>8 DEF LoadedSettled, EdgesLoaded
<1>10. Ranked
  <2>1. 0 \in Nat /\ [path \in MalFiles |-> 0] \in [MalFiles -> Nat]
    OBVIOUS
  <2> QED BY <1>8, <2>1 DEF Ranked
<1>11. Linked /\ Reached
  BY <1>1, <1>2 DEF Linked, Reached, IsInjective
<1> QED BY <1>4, <1>5, <1>6, <1>7, <1>9, <1>10, <1>11 DEF LoadInv

-----------------------------------------------------------------------------
(* A failing load changes its outcome only.                                 *)

\* An error that the program has may be reported at any time.
LEMMA FailKept ==
    ASSUME LoadInv, outcome \in {"waiting", "loading"}, NEW error \in Errors, Fail(error),
           ~Loadable(sources, onDisk, Root), Explains(error, sources, onDisk, Root)
    PROVE  LoadInv'
<1>1. /\ outcome' = error
      /\ UNCHANGED <<sources, onDisk, files, requirements, states, pending, cSources>>
  BY DEF Fail
<1>2. LoadTyped'
  BY <1>1 DEF LoadInv, LoadTyped
<1>3. RootBegun'
  BY <1>1 DEF RootBegun, Errors
<1>4. ErrorsTrue'
  BY <1>1 DEF ErrorsTrue
<1>5. (PathsOnce /\ StackHolds /\ Accounts /\ LoadedSettled)'
  BY <1>1 DEF LoadInv, PathsOnce, StackHolds, Accounts, LoadedSettled
<1>6. (EdgesLoaded /\ Ranked /\ Linked /\ Reached)'
  BY <1>1 DEF LoadInv, EdgesLoaded, Ranked, Linked, Reached
<1> QED BY <1>2, <1>3, <1>4, <1>5, <1>6 DEF LoadInv

\* An obstacle of a file of the program keeps the program from being loaded.
LEMMA ObstacleStops ==
    ASSUME NEW src, NEW disk, NEW path \in Program(src, Root),
           \/ ~Readable(src, path) \/ OnCycle(src, path)
           \/ ~(Requires(src, path) \cap CFiles \subseteq disk)
           \/ Requires(src, path) \cap OtherPaths # {}
    PROVE  ~Loadable(src, disk, Root)
  BY DEF Loadable, Obstacles
-----------------------------------------------------------------------------
(* A file is begun: it is the last one, without edges, on top of the stack. *)

\* What begin leaves of the graph.
LEMMA BeginShape ==
    ASSUME LoadTyped, NEW path \in MalFiles, NEW below \in Seq(Frames), NEW by \in Nat,
           Readable(sources, path), Begin(path, by, below)
    PROVE  LET n == Len(files) + 1
               m == Len(below) + 1
           IN
           /\ n \in Nat \ {0} /\ n \notin DOMAIN files /\ DOMAIN files = 1..n - 1
           /\ files' \in Seq(MalFiles) /\ Len(files') = n /\ DOMAIN files' = DOMAIN files \cup {n}
           /\ files'[n] = path /\ \A k \in DOMAIN files : files'[k] = files[k]
           /\ requirements' \in Seq(Seq(Nat)) /\ Len(requirements') = n
           /\ requirements'[n] = <<>>
           /\ \A k \in DOMAIN files : requirements'[k] = requirements[k]
           /\ m \in Nat \ {0} /\ m \notin DOMAIN below
           /\ pending' \in Seq(Frames) /\ Len(pending') = m /\ DOMAIN pending' = DOMAIN below \cup {m}
           /\ pending'[m].path = path /\ pending'[m].id = n /\ pending'[m].by = by
           /\ Range(pending'[m].rest) = Requires(sources, path)
           /\ \A i \in DOMAIN below : pending'[i] = below[i]
           /\ states' \in [MalFiles -> States]
           /\ DOMAIN states' = MalFiles /\ states'[path] = Loading
           /\ \A other \in MalFiles : other # path => states'[other] = states[other]
           /\ outcome' = "loading" /\ sources' = sources /\ onDisk' = onDisk /\ cSources' = cSources
<1> DEFINE n == Len(files) + 1
           m == Len(below) + 1
           text == sources[path]
           frame == [path |-> path, id |-> n, rest |-> text.requires, by |-> by]
<1>1. /\ text # Missing /\ text.header
      /\ files' = Append(files, path) /\ requirements' = Append(requirements, <<>>)
      /\ states' = [states EXCEPT ![path] = Loading] /\ pending' = Append(below, frame)
      /\ outcome' = "loading" /\ sources' = sources /\ onDisk' = onDisk /\ cSources' = cSources
  BY DEF Begin, Readable
<1>2. text.requires \in Seq(Paths) /\ Requires(sources, path) = Range(text.requires)
  <2>1. text \in Texts
    BY <1>1 DEF LoadTyped
  <2> QED BY <2>1, TextsAssumption DEF Paths, Requires
<1>3. files \in Seq(MalFiles) /\ requirements \in Seq(Seq(Nat)) /\ Len(requirements) = Len(files)
      /\ DOMAIN states = MalFiles /\ states \in [MalFiles -> States]
  BY DEF LoadTyped
<1>4. /\ Len(files) \in Nat /\ DOMAIN files = 1..Len(files) /\ Len(below) \in Nat
      /\ DOMAIN below = 1..Len(below)
  BY <1>3, LenProperties
<1>5. n \in Nat \ {0} /\ n \notin DOMAIN files /\ DOMAIN files = 1..n - 1
      /\ m \in Nat \ {0} /\ m \notin DOMAIN below
  BY <1>4
<1>6. frame \in Frames /\ frame.path = path /\ frame.id = n /\ frame.by = by
      /\ frame.rest = text.requires
  BY <1>2, <1>5 DEF Frames
<1>7. /\ files' \in Seq(MalFiles) /\ Len(files') = n /\ files'[n] = path
      /\ \A k \in 1..Len(files) : files'[k] = files[k]
  BY <1>1, <1>3, AppendProperties
<1>8. /\ requirements' \in Seq(Seq(Nat)) /\ Len(requirements') = n /\ requirements'[n] = <<>>
      /\ \A k \in 1..Len(files) : requirements'[k] = requirements[k]
  <2>1. <<>> \in Seq(Nat)
    OBVIOUS
  <2> QED BY <1>1, <1>3, <2>1, AppendProperties
<1> HIDE DEF frame
<1>9. /\ pending' \in Seq(Frames) /\ Len(pending') = m /\ pending'[m] = frame
      /\ \A i \in 1..Len(below) : pending'[i] = below[i]
  BY <1>1, <1>6, AppendProperties
<1>10. DOMAIN files' = DOMAIN files \cup {n} /\ DOMAIN pending' = DOMAIN below \cup {m}
  <2>1. DOMAIN files' = 1..n /\ DOMAIN pending' = 1..m
    BY <1>7, <1>9, LenProperties
  <2>2. \A l \in Nat : 1..l + 1 = (1..l) \cup {l + 1}
    OBVIOUS
  <2> QED BY <1>4, <2>1, <2>2
<1>11. Range(pending'[m].rest) = Requires(sources, path)
  BY <1>2, <1>6, <1>9
<1>12. states' \in [MalFiles -> States]
  BY <1>1, <1>3 DEF States
<1> QED BY <1>1, <1>3, <1>4, <1>5, <1>6, <1>7, <1>8, <1>9, <1>10, <1>11, <1>12

\* A file's edges stay when files are added behind those they lead to.
LEMMA EdgesSame ==
    ASSUME NEW fs, NEW fs2, NEW reqs, NEW reqs2, NEW id, Range(reqs[id]) \subseteq DOMAIN fs,
           \A k \in DOMAIN fs : fs2[k] = fs[k], reqs2[id] = reqs[id]
    PROVE  Edges(fs2, reqs2, id) = Edges(fs, reqs, id)
  BY DEF Edges

\* The edges of a file lead to files.
LEMMA EdgesTyped ==
    ASSUME LoadTyped, NEW id \in DOMAIN files
    PROVE  /\ requirements[id] \in Seq(DOMAIN files) /\ Range(requirements[id]) \subseteq DOMAIN files
           /\ Edges(files, requirements, id) \subseteq MalFiles
           /\ Edges(files, requirements, id) \subseteq Range(files)
           /\ id \in DOMAIN requirements /\ id \in Nat
<1>1. requirements[id] \in Seq(DOMAIN files) /\ files \in Seq(MalFiles)
      /\ Len(requirements) = Len(files) /\ requirements \in Seq(Seq(Nat))
  BY DEF LoadTyped
<1>2. Range(requirements[id]) \subseteq DOMAIN files
  <2>1. DOMAIN requirements[id] = 1..Len(requirements[id])
    BY <1>1, LenProperties
  <2> QED BY <1>1, <2>1, ElementOfSeq DEF Range
<1>3. \A k \in DOMAIN files : files[k] \in MalFiles /\ files[k] \in Range(files)
  <2>1. DOMAIN files = 1..Len(files)
    BY <1>1, LenProperties
  <2> QED BY <1>1, <2>1, ElementOfSeq DEF Range
<1>4. id \in DOMAIN requirements /\ id \in Nat
  <2>1. DOMAIN files = 1..Len(files) /\ DOMAIN requirements = 1..Len(requirements) /\ Len(files) \in Nat
    BY <1>1, LenProperties
  <2> QED BY <1>1, <2>1
<1> QED BY <1>1, <1>2, <1>3, <1>4 DEF Edges

\* A file whose path is new is put on top of the stack.
LEMMA BeginKept ==
    ASSUME LoadInv, NEW path \in MalFiles, NEW below, NEW by, NEW size,
           Readable(sources, path), states[path] = Unseen, Begin(path, by, below),
           path \in Program(sources, Root),
           (path = Root /\ files = <<>>) \/ outcome = "loading",
           below \in Seq(Frames), DOMAIN below = DOMAIN pending,
           size = Len(pending), size = Len(below),
           \A i \in DOMAIN pending :
              /\ below[i].path = pending[i].path /\ below[i].id = pending[i].id
              /\ below[i].by = pending[i].by
              /\ i # size => below[i] = pending[i],
           IF size = 0 THEN by = 0 /\ path = Root
           ELSE /\ by = pending[size].id
                /\ Range(pending[size].rest) = {path} \cup Range(below[size].rest)
    PROVE  LoadInv'
<1> DEFINE n == Len(files) + 1
           m == Len(below) + 1
<1>1. /\ LoadTyped /\ RootBegun /\ PathsOnce /\ StackHolds /\ Accounts /\ LoadedSettled
      /\ EdgesLoaded /\ Ranked /\ Linked /\ Reached
  BY DEF LoadInv
<1>2. /\ DOMAIN pending = 1..size /\ size \in Nat /\ files \in Seq(MalFiles)
      /\ DOMAIN files = 1..Len(files) /\ Len(files) \in Nat
      /\ size # 0 => size \in DOMAIN pending
  <2>1. DOMAIN pending = 1..size /\ size \in Nat /\ files \in Seq(MalFiles)
    BY <1>1, LenProperties DEF LoadTyped
  <2>2. DOMAIN files = 1..Len(files) /\ Len(files) \in Nat
    BY <2>1, LenProperties
  <2> QED BY <2>1, <2>2
<1>3. by \in Nat
  <2>1. CASE size = 0
    BY <2>1
  <2>2. CASE size # 0
    <3>1. pending[size].id \in DOMAIN files
      BY <1>1, <1>2, <2>2 DEF LoadTyped
    <3> QED BY <1>2, <2>2, <3>1
  <2> QED BY <2>1, <2>2
<1>0. m = size + 1 /\ n = Len(files) + 1 /\ m = Len(below) + 1
  OBVIOUS
<1>4. /\ n \in Nat \ {0} /\ n \notin DOMAIN files /\ DOMAIN files = 1..n - 1
      /\ files' \in Seq(MalFiles) /\ Len(files') = n /\ DOMAIN files' = DOMAIN files \cup {n}
      /\ files'[n] = path /\ \A k \in DOMAIN files : files'[k] = files[k]
      /\ requirements' \in Seq(Seq(Nat)) /\ Len(requirements') = n
      /\ requirements'[n] = <<>>
      /\ \A k \in DOMAIN files : requirements'[k] = requirements[k]
  BY <1>1, <1>3, BeginShape
<1>5. /\ m \in Nat \ {0} /\ m \notin DOMAIN below
      /\ pending' \in Seq(Frames) /\ Len(pending') = m /\ DOMAIN pending' = DOMAIN below \cup {m}
      /\ pending'[m].path = path /\ pending'[m].id = n /\ pending'[m].by = by
      /\ Range(pending'[m].rest) = Requires(sources, path)
      /\ \A i \in DOMAIN below : pending'[i] = below[i]
  BY <1>1, <1>3, BeginShape
<1>6. /\ states' \in [MalFiles -> States]
      /\ DOMAIN states' = MalFiles /\ states'[path] = Loading
      /\ \A other \in MalFiles : other # path => states'[other] = states[other]
      /\ outcome' = "loading" /\ sources' = sources /\ onDisk' = onDisk /\ cSources' = cSources
  BY <1>1, <1>3, BeginShape
<1>7. m = size + 1
  BY <1>0
<1> HIDE DEF n, m
<1>8. path \notin Range(files) /\ \A k \in DOMAIN files : files[k] # path
  <2>1. path \notin Range(files)
    BY <1>1 DEF PathsOnce
  <2> QED BY <2>1 DEF Range
<1>9. Range(files') = Range(files) \cup {path}
  <2>1. \A x : x \in Range(files') => x \in Range(files) \cup {path}
    BY <1>4 DEF Range
  <2>2. path \in Range(files')
    BY <1>4 DEF Range
  <2>3. ASSUME NEW k \in DOMAIN files PROVE files[k] \in Range(files')
    <3>1. k \in DOMAIN files' /\ files'[k] = files[k]
      BY <1>4
    <3> QED BY <3>1 DEF Range
  <2>4. \A x : x \in Range(files) \cup {path} => x \in Range(files')
    BY <2>2, <2>3 DEF Range
  <2> QED BY <2>1, <2>4
<1>10. \A i \in DOMAIN pending : pending[i].path # path /\ states[pending[i].path] = Loading
                                  /\ pending[i].path \in MalFiles
  <2> SUFFICES ASSUME NEW i \in DOMAIN pending
               PROVE  pending[i].path # path /\ states[pending[i].path] = Loading
                      /\ pending[i].path \in MalFiles
    OBVIOUS
  <2>1. states[pending[i].path] = Loading
    BY <1>1 DEF StackHolds, FrameOk
  <2>2. pending[i] \in Frames
    BY <1>1, <1>2, ElementOfSeq DEF LoadTyped
  <2> QED BY <2>1, <2>2, Kinds DEF Frames
<1>11. \A other \in MalFiles :
         states'[other].kind = "loaded" <=> other # path /\ states[other].kind = "loaded"
  BY <1>6, Kinds
<1>12. \A k \in DOMAIN files : Edges(files', requirements', k) = Edges(files, requirements, k)
  <2> SUFFICES ASSUME NEW k \in DOMAIN files
               PROVE  Edges(files', requirements', k) = Edges(files, requirements, k)
    OBVIOUS
  <2>1. Range(requirements[k]) \subseteq DOMAIN files
    BY <1>1, EdgesTyped
  <2>2. requirements'[k] = requirements[k] /\ \A l \in DOMAIN files : files'[l] = files[l]
    BY <1>4
  <2> QED BY <2>1, <2>2 DEF Edges
<1>13. Edges(files', requirements', n) = {} /\ IsInjective(requirements'[n])
  <2>1. DOMAIN <<>> = {}
    OBVIOUS
  <2> QED BY <1>4, <2>1 DEF Edges, Range, IsInjective
<1>14. LoadTyped'
  <2>1. \A id \in DOMAIN files' : requirements'[id] \in Seq(DOMAIN files')
    <3>1. \A id \in DOMAIN files : requirements[id] \in Seq(DOMAIN files')
      BY <1>1, <1>4, SeqMonotonic DEF LoadTyped
    <3>2. <<>> \in Seq(DOMAIN files')
      OBVIOUS
    <3> QED BY <1>4, <3>1, <3>2
  <2>2. \A other \in MalFiles :
          states'[other] \in {Unseen, Loading} \cup {Loaded(id) : id \in DOMAIN files'}
    <3>1. DOMAIN files \subseteq DOMAIN files'
      BY <1>4
    <3>2. \A other \in MalFiles :
            states[other] \in {Unseen, Loading} \cup {Loaded(id) : id \in DOMAIN files}
      BY <1>1 DEF LoadTyped
    <3>3. \A other \in MalFiles : states'[other] = Loading \/ states'[other] = states[other]
      BY <1>6
    <3> QED BY <3>1, <3>2, <3>3
  <2>3. \A i \in DOMAIN pending' :
          pending'[i].id \in DOMAIN files' /\ pending'[i].by \in {0} \cup DOMAIN files'
    <3>1. \A i \in DOMAIN pending :
            pending[i].id \in DOMAIN files /\ pending[i].by \in {0} \cup DOMAIN files
      BY <1>1 DEF LoadTyped
    <3>2. by \in {0} \cup DOMAIN files
      BY <1>2, <3>1
    <3> SUFFICES ASSUME NEW i \in DOMAIN pending'
                 PROVE  pending'[i].id \in DOMAIN files' /\ pending'[i].by \in {0} \cup DOMAIN files'
      OBVIOUS
    <3>3. CASE i \in DOMAIN pending
      <4>1. pending'[i].id = pending[i].id /\ pending'[i].by = pending[i].by
        BY <1>5, <3>3
      <4> QED BY <1>4, <3>1, <3>3, <4>1
    <3>4. CASE i = m
      BY <1>4, <1>5, <3>2, <3>4
    <3> QED BY <1>5, <3>3, <3>4
  <2>4. (sources \in [MalFiles -> Texts \cup {Missing}] /\ onDisk \subseteq CFiles)'
        /\ cSources' \in Seq(CFiles) /\ Len(requirements') = Len(files')
    BY <1>1, <1>4, <1>6 DEF LoadTyped
  <2> QED BY <1>4, <1>5, <1>6, <2>1, <2>2, <2>3, <2>4 DEF LoadTyped
<1>15. RootBegun'
  <2>1. files'[1] = Root
    <3>1. CASE path = Root /\ files = <<>>
      BY <1>0, <1>4, <3>1
    <3>2. CASE outcome = "loading"
      <4>1. files # <<>> /\ files[1] = Root
        BY <1>1, <3>2 DEF RootBegun
      <4>2. 1 \in DOMAIN files
        BY <1>2, <4>1, EmptySeq
      <4> QED BY <1>4, <4>1, <4>2
    <3> QED BY <3>1, <3>2
  <2>2. files' # <<>>
    BY <1>4
  <2> QED BY <1>6, <2>1, <2>2 DEF RootBegun
<1>16. PathsOnce'
  <2>1. IsInjective(files')
    BY <1>1, <1>4, <1>8 DEF PathsOnce, IsInjective
  <2>2. \A other \in MalFiles : states'[other] = Unseen <=> other \notin Range(files')
    BY <1>1, <1>6, <1>9, Kinds DEF PathsOnce
  <2> QED BY <2>1, <2>2 DEF PathsOnce
<1>17. StackHolds'
  <2>1. ASSUME NEW i \in DOMAIN pending PROVE FrameOk(sources, files', states', pending', i)
    <3>1. FrameOk(sources, files, states, pending, i)
      BY <1>1 DEF StackHolds
    <3>2. /\ pending'[i].path = pending[i].path /\ pending'[i].id = pending[i].id
          /\ pending'[i].by = pending[i].by
      BY <1>5
    <3>3. pending[i].id \in DOMAIN files
      BY <1>1 DEF LoadTyped
    <3>4. files'[pending[i].id] = files[pending[i].id] /\ states'[pending[i].path] = Loading
      BY <1>4, <1>6, <1>10, <3>3
    <3>5. i # 1 => /\ pending'[i - 1].path = pending[i - 1].path
                   /\ pending'[i - 1].id = pending[i - 1].id
      <4>1. i # 1 => i - 1 \in DOMAIN pending
        BY <1>2
      <4> QED BY <1>5, <4>1
    <3> QED BY <3>1, <3>2, <3>4, <3>5 DEF FrameOk
  <2>2. FrameOk(sources, files', states', pending', m)
    <3>1. /\ files'[pending'[m].id] = pending'[m].path /\ states'[pending'[m].path] = Loading
          /\ Readable(sources, pending'[m].path)
      BY <1>4, <1>5, <1>6
    <3>2. IF m = 1 THEN pending'[m].by = 0 /\ pending'[m].path = Root
          ELSE /\ pending'[m].by = pending'[m - 1].id
               /\ pending'[m].path \in Requires(sources, pending'[m - 1].path)
      <4>1. CASE size = 0
        BY <1>5, <1>7, <4>1
      <4>2. CASE size # 0
        <5>1. m # 1 /\ m - 1 = size /\ size \in DOMAIN pending
          BY <1>2, <1>7, <4>2
        <5>2. /\ pending'[size].id = pending[size].id /\ pending'[size].path = pending[size].path
          BY <1>5, <5>1
        <5>3. path \in Range(pending[size].rest) /\ by = pending[size].id
          BY <4>2
        <5>4. Range(pending[size].rest) \subseteq Requires(sources, pending[size].path)
          BY <1>1, <5>1 DEF Accounts, Account
        <5> QED BY <1>5, <5>1, <5>2, <5>3, <5>4
      <4> QED BY <4>1, <4>2
    <3> QED BY <3>1, <3>2 DEF FrameOk
  <2>3. \A i \in DOMAIN pending' : FrameOk(sources', files', states', pending', i)
    BY <1>5, <1>6, <2>1, <2>2
  <2>4. \A i, j \in DOMAIN pending' : pending'[i].path = pending'[j].path => i = j
    BY <1>1, <1>5, <1>10 DEF StackHolds
  <2>5. ASSUME NEW other \in MalFiles, states'[other] = Loading
        PROVE  \E i \in DOMAIN pending' : pending'[i].path = other
    <3>1. CASE other = path
      BY <1>5, <3>1
    <3>2. CASE other # path
      <4>1. PICK i \in DOMAIN pending : pending[i].path = other
        BY <1>1, <1>6, <2>5, <3>2 DEF StackHolds
      <4> QED BY <1>5, <4>1
    <3> QED BY <3>1, <3>2
  <2> QED BY <2>3, <2>4, <2>5 DEF StackHolds
<1>18. Accounts'
  <2>1. ASSUME NEW i \in DOMAIN pending
        PROVE  Account(sources, files', requirements', cSources, pending', i)
    <3>1. Account(sources, files, requirements, cSources, pending, i)
      BY <1>1 DEF Accounts
    <3>2. pending'[i].path = pending[i].path /\ pending'[i].id = pending[i].id
          /\ pending[i].id \in DOMAIN files
      BY <1>1, <1>5 DEF LoadTyped
    <3>3. /\ requirements'[pending[i].id] = requirements[pending[i].id]
          /\ Edges(files', requirements', pending[i].id) = Edges(files, requirements, pending[i].id)
      BY <1>4, <1>12, <3>2
    <3>4. CASE i # size
      <4>1. pending'[i].rest = pending[i].rest
        BY <1>5, <3>4
      <4>2. Above(pending', i) = Above(pending, i)
        <5>1. i < size /\ i < m /\ i + 1 \in DOMAIN pending
          BY <1>2, <1>7, <3>4
        <5>2. pending'[i + 1].path = pending[i + 1].path
          BY <1>5, <5>1
        <5> QED BY <1>5, <5>1, <5>2 DEF Above
      <4> QED BY <3>1, <3>2, <3>3, <4>1, <4>2 DEF Account
    <3>5. CASE i = size
      <4>1. /\ Range(pending[i].rest) = {path} \cup Range(pending'[i].rest)
        BY <1>2, <1>5, <3>5
      <4>2. Above(pending, i) = {} /\ Above(pending', i) = {path}
        <5>1. ~(i < size) /\ i < m /\ i + 1 = m
          BY <1>2, <1>7, <3>5
        <5> QED BY <1>5, <5>1 DEF Above
      <4>3. path \notin CFiles \cup OtherPaths
        BY TextsAssumption
      <4> QED BY <3>1, <3>2, <3>3, <4>1, <4>2, <4>3 DEF Account
    <3> QED BY <3>4, <3>5
  <2>2. Account(sources, files', requirements', cSources, pending', m)
    <3>1. Above(pending', m) = {}
      BY <1>5 DEF Above
    <3> QED BY <1>5, <1>13, <3>1 DEF Account
  <2> QED BY <1>5, <1>6, <2>1, <2>2 DEF Accounts
<1>19. LoadedSettled'
  <2> SUFFICES ASSUME NEW other \in MalFiles, states'[other].kind = "loaded"
               PROVE  Settled(sources', files', requirements', cSources', states', other)
    BY DEF LoadedSettled
  <2>1. other # path /\ Settled(sources, files, requirements, cSources, states, other)
    BY <1>1, <1>11 DEF LoadedSettled
  <2>2. states'[other] = states[other] /\ states[other].id \in DOMAIN files
    BY <1>6, <2>1 DEF Settled
  <2>3. /\ Edges(files', requirements', states[other].id) = Edges(files, requirements, states[other].id)
        /\ requirements'[states[other].id] = requirements[states[other].id]
    BY <1>4, <1>12, <2>2
  <2> QED BY <1>4, <1>6, <2>1, <2>2, <2>3 DEF Settled
<1>20. EdgesLoaded'
  <2> SUFFICES ASSUME NEW id \in DOMAIN files', NEW other \in Edges(files', requirements', id)
               PROVE  states'[other].kind = "loaded"
    BY DEF EdgesLoaded
  <2>1. id \in DOMAIN files /\ other \in Edges(files, requirements, id)
    BY <1>4, <1>12, <1>13
  <2>2. states[other].kind = "loaded" /\ other \in MalFiles /\ other \in Range(files)
    BY <1>1, <2>1, EdgesTyped DEF EdgesLoaded
  <2> QED BY <1>8, <1>11, <2>2
<1>21. Ranked'
  <2>1. PICK top \in Nat, rank \in [MalFiles -> Nat] :
          \A other \in MalFiles :
            states[other].kind = "loaded" => InRank(sources, states, rank, top, other)
    BY <1>1 DEF Ranked
  <2>2. states[path].kind # "loaded"
    BY Kinds
  <2>3. ASSUME NEW other \in MalFiles, states'[other].kind = "loaded"
        PROVE  InRank(sources, states', rank, top, other)
    <3>1. InRank(sources, states, rank, top, other)
      BY <1>11, <2>1, <2>3
    <3> QED BY <1>11, <2>2, <3>1 DEF InRank
  <2> QED BY <1>6, <2>3 DEF Ranked
<1>22. Linked' /\ Reached' /\ ErrorsTrue'
  <2>1. Linked'
    BY <1>1, <1>6, <1>9 DEF Linked
  <2>2. Reached'
    BY <1>1, <1>6, <1>9 DEF Reached
  <2>3. ErrorsTrue'
    BY <1>6 DEF ErrorsTrue, Errors
  <2> QED BY <2>1, <2>2, <2>3
<1> QED BY <1>14, <1>15, <1>16, <1>17, <1>18, <1>19, <1>20, <1>21, <1>22 DEF LoadInv
-----------------------------------------------------------------------------
(* An edge is added.                                                        *)

\* A sequence of elements of a larger set, all of which are in a smaller one.
LEMMA SeqWithin ==
    ASSUME NEW S, NEW T, NEW s \in Seq(S), Range(s) \subseteq T
    PROVE  s \in Seq(T)
<1>1. Len(s) \in Nat /\ s \in [1..Len(s) -> S] /\ DOMAIN s = 1..Len(s)
  BY LenProperties
<1>2. \A i \in 1..Len(s) : s[i] \in T
  BY <1>1 DEF Range
<1>3. s \in [1..Len(s) -> T]
  BY <1>1, <1>2
<1> QED BY <1>1, <1>3, SeqDef

\* What an added edge leaves of the others.
LEMMA EdgeFacts ==
    ASSUME LoadTyped, NEW id \in DOMAIN files, NEW target \in DOMAIN files,
           IsInjective(requirements[id]), NEW after, after = WithEdge(requirements, id, target)
    PROVE  /\ after \in Seq(Seq(Nat)) /\ Len(after) = Len(files)
           /\ \A k \in DOMAIN files : after[k] \in Seq(DOMAIN files)
           /\ \A k \in DOMAIN files : k # id =>
                 /\ after[k] = requirements[k]
                 /\ Edges(files, after, k) = Edges(files, requirements, k)
           /\ IsInjective(after[id])
           /\ Edges(files, after, id) = Edges(files, requirements, id) \cup {files[target]}
<1>1. /\ id \in DOMAIN requirements /\ target \in Nat /\ requirements \in Seq(Seq(Nat))
      /\ Len(requirements) = Len(files)
      /\ \A k \in DOMAIN files : k \in DOMAIN requirements
      /\ \A k \in DOMAIN files : Range(requirements[k]) \subseteq DOMAIN files
  BY EdgesTyped DEF LoadTyped
<1>2. /\ after \in Seq(Seq(Nat)) /\ Len(after) = Len(requirements)
      /\ DOMAIN after = DOMAIN requirements
      /\ \A k \in DOMAIN requirements : k # id => after[k] = requirements[k]
      /\ IsInjective(after[id])
      /\ Range(after[id]) = Range(requirements[id]) \cup {target}
  <2>1. requirements \in Seq(Seq(Nat)) /\ id \in DOMAIN requirements /\ target \in Nat
    BY <1>1
  <2>2. after \in Seq(Seq(Nat)) /\ Len(after) = Len(requirements)
    BY <2>1, EdgeAdded
  <2>3. DOMAIN after = DOMAIN requirements
    BY <2>1, EdgeAdded
  <2>4. ASSUME NEW k \in DOMAIN requirements, k # id PROVE after[k] = requirements[k]
    BY <2>1, <2>4, EdgeAdded
  <2>5. IsInjective(after[id])
    BY <2>1, EdgeAdded
  <2>6. Range(after[id]) = Range(requirements[id]) \cup {target}
    <3>1. ASSUME NEW x
          PROVE  x \in Range(WithEdge(requirements, id, target)[id])
                   <=> x \in Range(requirements[id]) \cup {target}
      BY <2>1, EdgeAdded
    <3> QED BY <3>1
  <2> QED BY <2>2, <2>3, <2>4, <2>5, <2>6
<1>3. ASSUME NEW k \in DOMAIN files PROVE after[k] \in Seq(DOMAIN files)
  <2>1. after[k] \in Seq(Nat)
    <3>1. k \in 1..Len(after)
      <4>1. DOMAIN after = 1..Len(after) /\ k \in DOMAIN after
        BY <1>1, <1>2, LenProperties
      <4> QED BY <4>1
    <3> QED BY <1>2, <3>1, ElementOfSeq
  <2>2. Range(after[k]) \subseteq DOMAIN files
    BY <1>1, <1>2
  <2> QED BY <2>1, <2>2, SeqWithin
<1>4. \A k \in DOMAIN files : k # id => Edges(files, after, k) = Edges(files, requirements, k)
  BY <1>1, <1>2 DEF Edges
<1>5. Edges(files, after, id) = Edges(files, requirements, id) \cup {files[target]}
  BY <1>2 DEF Edges
<1> QED BY <1>1, <1>2, <1>3, <1>4, <1>5
-----------------------------------------------------------------------------
(* The file on top of the stack has nothing left to require.                *)

\* The top frame and its file.
LEMMA TopIs ==
    ASSUME LoadInv, pending # <<>>, NEW n, n = Len(pending)
    PROVE  /\ n \in Nat \ {0} /\ n \in DOMAIN pending /\ DOMAIN pending = 1..n
           /\ Top = pending[n] /\ Top \in Frames /\ Top.path \in MalFiles
           /\ Top.id \in DOMAIN files /\ Top.id \in Nat /\ Top.id # 0
           /\ files[Top.id] = Top.path /\ states[Top.path] = Loading
           /\ Above(pending, n) = {} /\ Account(sources, files, requirements, cSources, pending, n)
           /\ Readable(sources, Top.path) /\ Top.path \in Range(files)
           /\ IF n = 1 THEN Top.by = 0 ELSE n - 1 \in DOMAIN pending /\ Top.by = pending[n - 1].id
           /\ \A i \in DOMAIN pending :
                 /\ pending[i] \in Frames /\ pending[i].path \in MalFiles
                 /\ pending[i].id \in DOMAIN files /\ files[pending[i].id] = pending[i].path
                 /\ states[pending[i].path] = Loading
                 /\ i # n => pending[i].path # Top.path /\ pending[i].id # Top.id
           /\ outcome = "loading" => files # <<>>
<1>1. /\ LoadTyped /\ StackHolds /\ Accounts /\ RootBegun
  BY DEF LoadInv
<1>2. /\ pending \in Seq(Frames) /\ files \in Seq(MalFiles)
      /\ \A i \in DOMAIN pending :
          pending[i].id \in DOMAIN files /\ pending[i].by \in {0} \cup DOMAIN files
  BY <1>1 DEF LoadTyped
<1>3. /\ n \in Nat \ {0} /\ n \in DOMAIN pending /\ DOMAIN pending = 1..n /\ Top = pending[n]
      /\ \A i \in DOMAIN pending : pending[i] \in Frames
  <2>1. n \in Nat /\ DOMAIN pending = 1..n /\ n # 0
    BY <1>2, LenProperties, EmptySeq
  <2> QED BY <1>2, <2>1, ElementOfSeq DEF Top, Last
<1>4. DOMAIN files = 1..Len(files) /\ Len(files) \in Nat
  BY <1>2, LenProperties
<1>5. \A i \in DOMAIN pending : FrameOk(sources, files, states, pending, i)
  BY <1>1 DEF StackHolds
<1>6. ASSUME NEW i \in DOMAIN pending
      PROVE  /\ pending[i] \in Frames /\ pending[i].path \in MalFiles
             /\ pending[i].id \in DOMAIN files /\ files[pending[i].id] = pending[i].path
             /\ states[pending[i].path] = Loading
             /\ i # n => pending[i].path # Top.path /\ pending[i].id # Top.id
  <2>1. files[pending[i].id] = pending[i].path /\ states[pending[i].path] = Loading
    BY <1>5 DEF FrameOk
  <2>2. files[Top.id] = Top.path
    BY <1>3, <1>5 DEF FrameOk
  <2>3. i # n => pending[i].path # Top.path
    BY <1>1, <1>3 DEF StackHolds
  <2> QED BY <1>2, <1>3, <2>1, <2>2, <2>3 DEF Frames
<1>7. Top.id \in DOMAIN files /\ Top.id \in Nat /\ Top.id # 0
      /\ files[Top.id] = Top.path /\ states[Top.path] = Loading
      /\ Readable(sources, Top.path)
  <2>1. FrameOk(sources, files, states, pending, n)
    BY <1>3, <1>5
  <2> QED BY <1>2, <1>3, <1>4, <2>1 DEF FrameOk
<1>8. Top.path \in Range(files)
  BY <1>7 DEF Range
<1>9. Above(pending, n) = {}
  BY <1>3 DEF Above
<1>10. Account(sources, files, requirements, cSources, pending, n)
  BY <1>1, <1>3 DEF Accounts
<1>11. IF n = 1 THEN Top.by = 0 ELSE n - 1 \in DOMAIN pending /\ Top.by = pending[n - 1].id
  <2>1. FrameOk(sources, files, states, pending, n)
    BY <1>3, <1>5
  <2>2. n # 1 => n - 1 \in DOMAIN pending
    BY <1>3
  <2> QED BY <1>3, <2>1, <2>2 DEF FrameOk
<1>12. outcome = "loading" => files # <<>>
  BY <1>1 DEF RootBegun
<1>13. Top.path \in MalFiles
  BY <1>3, <1>6
<1> QED BY <1>3, <1>6, <1>7, <1>8, <1>9, <1>10, <1>11, <1>12, <1>13

\* The stack without its top frame.
LEMMA PoppedIs ==
    ASSUME NEW stack \in Seq(Frames), stack # <<>>
    PROVE  /\ Front(stack) \in Seq(Frames) /\ Len(Front(stack)) = Len(stack) - 1
           /\ DOMAIN Front(stack) = 1..Len(stack) - 1
           /\ \A i \in 1..Len(stack) - 1 : i \in DOMAIN stack /\ Front(stack)[i] = stack[i]
<1> DEFINE n == Len(stack)
<1>1. n \in Nat \ {0} /\ DOMAIN stack = 1..n
  BY LenProperties, EmptySeq
<1>2. Front(stack) = SubSeq(stack, 1, n - 1)
  BY DEF Front
<1>3. 1 \in 1..n + 1 /\ n - 1 \in (1 - 1)..n
  BY <1>1
<1>4. /\ SubSeq(stack, 1, n - 1) \in Seq(Frames) /\ Len(SubSeq(stack, 1, n - 1)) = n - 1
      /\ \A i \in 1..n - 1 : SubSeq(stack, 1, n - 1)[i] = stack[i]
  <2>1. /\ SubSeq(stack, 1, n - 1) \in Seq(Frames)
        /\ Len(SubSeq(stack, 1, n - 1)) = IF 1 <= n - 1 THEN n - 1 - 1 + 1 ELSE 0
        /\ \A i \in 1..n - 1 - 1 + 1 : SubSeq(stack, 1, n - 1)[i] = stack[1 + i - 1]
    BY <1>1, <1>3, SubSeqProperties
  <2>2. \A i \in 1..n - 1 : 1 + i - 1 = i /\ i \in 1..n - 1 - 1 + 1
    BY <1>1
  <2>3. (IF 1 <= n - 1 THEN n - 1 - 1 + 1 ELSE 0) = n - 1
    BY <1>1
  <2> QED BY <2>1, <2>2, <2>3
<1>5. DOMAIN Front(stack) = 1..n - 1
  BY <1>2, <1>4, LenProperties
<1>6. \A i \in 1..n - 1 : i \in 1..n
  BY <1>1
<1> QED BY <1>1, <1>2, <1>4, <1>5, <1>6

\* The file on top has nothing left to come and becomes loaded.
LEMMA CompleteKept == ASSUME LoadInv, Complete PROVE LoadInv'
<1> DEFINE n == Len(pending)
           p == Top.path
           id == Top.id
<1>1. /\ LoadTyped /\ RootBegun /\ PathsOnce /\ StackHolds /\ Accounts /\ LoadedSettled
      /\ EdgesLoaded /\ Ranked /\ Linked /\ Reached
      /\ outcome = "loading" /\ pending # <<>> /\ Top.rest = <<>>
      /\ pending' = Front(pending) /\ states' = [states EXCEPT ![p] = Loaded(id)]
      /\ sources' = sources /\ onDisk' = onDisk /\ files' = files /\ cSources' = cSources
      /\ outcome' = outcome
  BY DEF LoadInv, Complete
<1>2. /\ n \in Nat \ {0} /\ n \in DOMAIN pending /\ DOMAIN pending = 1..n
      /\ Top = pending[n] /\ p \in MalFiles
      /\ id \in DOMAIN files /\ id \in Nat /\ id # 0
      /\ files[id] = p /\ states[p] = Loading
      /\ Above(pending, n) = {} /\ Account(sources, files, requirements, cSources, pending, n)
      /\ Readable(sources, p) /\ p \in Range(files)
      /\ IF n = 1 THEN Top.by = 0 ELSE n - 1 \in DOMAIN pending /\ Top.by = pending[n - 1].id
  BY <1>1, TopIs
<1>3. \A i \in DOMAIN pending :
         /\ pending[i] \in Frames /\ pending[i].path \in MalFiles
         /\ pending[i].id \in DOMAIN files /\ files[pending[i].id] = pending[i].path
         /\ states[pending[i].path] = Loading
         /\ i # n => pending[i].path # p /\ pending[i].id # id
  BY <1>1, TopIs
<1>4. /\ pending' \in Seq(Frames) /\ Len(pending') = n - 1 /\ DOMAIN pending' = 1..n - 1
      /\ \A i \in DOMAIN pending' : i \in DOMAIN pending /\ i # n /\ pending'[i] = pending[i]
  <2>1. pending \in Seq(Frames)
    BY <1>1 DEF LoadTyped
  <2>2. /\ pending' \in Seq(Frames) /\ Len(pending') = n - 1 /\ DOMAIN pending' = 1..n - 1
        /\ \A i \in 1..n - 1 : i \in DOMAIN pending /\ pending'[i] = pending[i]
    BY <1>1, <2>1, PoppedIs
  <2> QED BY <1>2, <2>2
<1>5. /\ Edges(files, requirements, id) = Requires(sources, p) \cap MalFiles
      /\ IsInjective(requirements[id])
      /\ Requires(sources, p) \cap CFiles \subseteq Range(cSources)
      /\ Requires(sources, p) \cap OtherPaths = {}
  <2>1. Range(pending[n].rest) = {}
    <3>1. DOMAIN <<>> = {}
      OBVIOUS
    <3> QED BY <1>1, <1>2, <3>1 DEF Range
  <2> QED BY <1>2, <2>1 DEF Account
<1>0. states' \in [MalFiles -> States]
  <2>1. states \in [MalFiles -> States] /\ Loaded(id) \in States
    BY <1>1, <1>2 DEF LoadTyped, States
  <2> QED BY <1>1, <2>1
<1>6. /\ DOMAIN states' = MalFiles /\ states'[p] = Loaded(id)
      /\ \A path \in MalFiles : path # p => states'[path] = states[path]
      /\ states'[p].kind = "loaded" /\ states'[p].id = id
      /\ states[p].kind # "loaded"
  BY <1>1, <1>2, Kinds DEF LoadTyped
<1> HIDE DEF p, id, n
<1>7. /\ requirements' \in Seq(Seq(Nat)) /\ Len(requirements') = Len(files)
      /\ \A k \in DOMAIN files : requirements'[k] \in Seq(DOMAIN files)
      /\ \A k \in DOMAIN files :
            n = 1 \/ k # pending[n - 1].id =>
               /\ requirements'[k] = requirements[k]
               /\ Edges(files, requirements', k) = Edges(files, requirements, k)
      /\ n # 1 =>
            /\ IsInjective(requirements'[pending[n - 1].id])
            /\ Edges(files, requirements', pending[n - 1].id)
                 = Edges(files, requirements, pending[n - 1].id) \cup {p}
  <2>1. CASE n = 1
    <3>1. requirements' = requirements
      BY <1>2, <2>1 DEF Complete
    <3> QED BY <1>1, <2>1, <3>1 DEF LoadTyped
  <2>2. CASE n # 1
    <3> DEFINE q == pending[n - 1].id
    <3>1. q \in DOMAIN files /\ Top.by = q /\ n - 1 \in DOMAIN pending
      BY <1>2, <1>3, <2>2
    <3>2. q # 0
      <4>1. DOMAIN files = 1..Len(files) /\ Len(files) \in Nat
        BY <1>1, LenProperties DEF LoadTyped
      <4> QED BY <3>1, <4>1
    <3>3. requirements' = WithEdge(requirements, q, id)
      BY <3>1, <3>2 DEF Complete, id
    <3>4. IsInjective(requirements[q])
      BY <1>1, <3>1 DEF Accounts, Account
    <3> HIDE DEF q
    <3>5. /\ requirements' \in Seq(Seq(Nat)) /\ Len(requirements') = Len(files)
          /\ \A k \in DOMAIN files : requirements'[k] \in Seq(DOMAIN files)
          /\ \A k \in DOMAIN files : k # q =>
                 /\ requirements'[k] = requirements[k]
                 /\ Edges(files, requirements', k) = Edges(files, requirements, k)
          /\ IsInjective(requirements'[q])
          /\ Edges(files, requirements', q) = Edges(files, requirements, q) \cup {files[id]}
      BY <1>1, <1>2, <3>1, <3>3, <3>4, EdgeFacts
    <3> QED BY <1>2, <2>2, <3>5 DEF q
  <2> QED BY <2>1, <2>2
<1>8. \A path \in MalFiles :
        states'[path].kind = "loaded" <=> path = p \/ states[path].kind = "loaded"
  BY <1>6
<1>9. LoadTyped'
  <2>1. \A path \in MalFiles :
          states'[path] \in {Unseen, Loading} \cup {Loaded(k) : k \in DOMAIN files}
    BY <1>1, <1>2, <1>6 DEF LoadTyped
  <2>2. \A i \in DOMAIN pending' :
          pending'[i].id \in DOMAIN files /\ pending'[i].by \in {0} \cup DOMAIN files
    BY <1>1, <1>4 DEF LoadTyped
  <2> QED BY <1>0, <1>1, <1>4, <1>6, <1>7, <2>1, <2>2 DEF LoadTyped
<1>10. RootBegun' /\ ErrorsTrue' /\ Linked' /\ Reached'
  BY <1>1 DEF RootBegun, ErrorsTrue, Errors, Linked, Reached
<1>11. PathsOnce'
  BY <1>1, <1>2, <1>6, Kinds DEF PathsOnce
<1>12. StackHolds'
  <2>1. ASSUME NEW i \in DOMAIN pending' PROVE FrameOk(sources', files', states', pending', i)
    <3>1. FrameOk(sources, files, states, pending, i) /\ pending'[i] = pending[i]
      BY <1>1, <1>4 DEF StackHolds
    <3>2. states'[pending[i].path] = Loading
      BY <1>3, <1>4, <1>6
    <3>3. i # 1 => pending'[i - 1] = pending[i - 1]
      <4>1. i # 1 => i - 1 \in DOMAIN pending'
        BY <1>2, <1>4
      <4> QED BY <1>4, <4>1
    <3> QED BY <1>1, <3>1, <3>2, <3>3 DEF FrameOk
  <2>2. \A i, j \in DOMAIN pending' : pending'[i].path = pending'[j].path => i = j
    BY <1>1, <1>4 DEF StackHolds
  <2>3. ASSUME NEW path \in MalFiles, states'[path] = Loading
        PROVE  \E i \in DOMAIN pending' : pending'[i].path = path
    <3>1. path # p /\ states[path] = Loading
      BY <1>6, <2>3, Kinds
    <3>2. PICK i \in DOMAIN pending : pending[i].path = path
      BY <1>1, <3>1 DEF StackHolds
    <3>3. i # n
      BY <1>2, <3>1, <3>2 DEF p
    <3>4. i \in DOMAIN pending'
      BY <1>2, <1>4, <3>3
    <3> QED BY <1>4, <3>2, <3>4
  <2> QED BY <2>1, <2>2, <2>3 DEF StackHolds
<1>13. Accounts'
  <2> SUFFICES ASSUME NEW i \in DOMAIN pending'
               PROVE  Account(sources', files', requirements', cSources', pending', i)
    BY DEF Accounts
  <2>1. Account(sources, files, requirements, cSources, pending, i)
    BY <1>1, <1>4 DEF Accounts
  <2>2. i \in DOMAIN pending /\ i # n /\ pending'[i] = pending[i] /\ i \in Nat /\ i <= n - 1 /\ n # 1
    BY <1>2, <1>4
  <2>3. CASE i = n - 1
    <3>1. Above(pending, i) = {p}
      <4>1. i < n /\ i + 1 = n
        BY <1>2, <2>3
      <4> QED BY <1>2, <4>1 DEF Above, n, p
    <3>2. Above(pending', i) = {}
      <4>1. ~(i < n - 1)
        BY <1>2, <2>3
      <4> QED BY <1>4, <4>1 DEF Above
    <3>3. /\ IsInjective(requirements'[pending[i].id])
          /\ Edges(files, requirements', pending[i].id)
                 = Edges(files, requirements, pending[i].id) \cup {p}
      BY <1>7, <2>2, <2>3
    <3> QED BY <1>1, <2>1, <2>2, <3>1, <3>2, <3>3 DEF Account
  <2>4. CASE i # n - 1
    <3>1. i < n /\ i < n - 1 /\ i + 1 \in DOMAIN pending' /\ n - 1 \in DOMAIN pending
      BY <1>2, <1>4, <2>2, <2>4
    <3>2. Above(pending', i) = Above(pending, i)
      BY <1>4, <3>1 DEF Above, n
    <3>3. pending[i].id # pending[n - 1].id /\ pending[i].id \in DOMAIN files
      <4>1. pending[i].path # pending[n - 1].path
        BY <1>1, <2>2, <2>4, <3>1 DEF StackHolds
      <4> QED BY <1>3, <2>2, <3>1, <4>1
    <3>4. /\ requirements'[pending[i].id] = requirements[pending[i].id]
          /\ Edges(files, requirements', pending[i].id) = Edges(files, requirements, pending[i].id)
      BY <1>7, <3>3
    <3> QED BY <1>1, <2>1, <2>2, <3>2, <3>4 DEF Account
  <2> QED BY <2>3, <2>4
<1>14. ASSUME NEW i \in DOMAIN pending, NEW k \in DOMAIN files, states[files[k]].kind = "loaded"
       PROVE  k # pending[i].id
  BY <1>3, <1>14, Kinds
<1>15. LoadedSettled'
  <2> SUFFICES ASSUME NEW path \in MalFiles, states'[path].kind = "loaded"
               PROVE  Settled(sources', files', requirements', cSources', states', path)
    BY DEF LoadedSettled
  <2>1. CASE path = p
    <3>1. n = 1 \/ id # pending[n - 1].id
      BY <1>2, <1>3
    <3>2. requirements'[id] = requirements[id]
          /\ Edges(files, requirements', id) = Edges(files, requirements, id)
      BY <1>2, <1>7, <3>1
    <3> QED BY <1>1, <1>2, <1>5, <1>6, <2>1, <3>2 DEF Settled
  <2>2. CASE path # p
    <3>1. Settled(sources, files, requirements, cSources, states, path)
      BY <1>1, <1>8, <2>2 DEF LoadedSettled
    <3> DEFINE k == states[path].id
    <3>2. k \in DOMAIN files /\ files[k] = path /\ states[path].kind = "loaded"
          /\ states'[path] = states[path]
      BY <1>6, <2>2, <3>1 DEF Settled
    <3>3. n = 1 \/ k # pending[n - 1].id
      BY <1>2, <1>14, <3>2
    <3>4. requirements'[k] = requirements[k]
          /\ Edges(files, requirements', k) = Edges(files, requirements, k)
      BY <1>7, <3>2, <3>3
    <3> QED BY <1>1, <3>1, <3>2, <3>4 DEF Settled
  <2> QED BY <2>1, <2>2
<1>16. EdgesLoaded'
  <2> SUFFICES ASSUME NEW k \in DOMAIN files, NEW path \in Edges(files, requirements', k)
               PROVE  states'[path].kind = "loaded"
    BY <1>1 DEF EdgesLoaded
  <2>1. path \in Edges(files, requirements, k) \/ path = p
    BY <1>7
  <2>2. Edges(files, requirements, k) \subseteq MalFiles
    BY <1>1, EdgesTyped
  <2>3. path \in MalFiles /\ (path = p \/ states[path].kind = "loaded")
    BY <1>1, <1>2, <2>1, <2>2 DEF EdgesLoaded
  <2> QED BY <1>8, <2>3
<1>17. Ranked'
  <2>1. PICK top \in Nat, rank \in [MalFiles -> Nat] :
          \A path \in MalFiles :
            states[path].kind = "loaded" => InRank(sources, states, rank, top, path)
    BY <1>1 DEF Ranked
  <2> DEFINE rank2 == [rank EXCEPT ![p] = top]
  <2>2. rank2 \in [MalFiles -> Nat] /\ rank2[p] = top /\ top + 1 \in Nat
        /\ \A path \in MalFiles : path # p => rank2[path] = rank[path]
    BY <1>2, <2>1
  <2> HIDE DEF rank2
  <2>3. ASSUME NEW path \in MalFiles, states'[path].kind = "loaded"
        PROVE  InRank(sources', states', rank2, top + 1, path)
    <3>1. CASE path = p
      <4>1. ASSUME NEW other \in Requires(sources, p) \cap MalFiles
            PROVE  states'[other].kind = "loaded" /\ rank2[other] < top
        <5>1. states[other].kind = "loaded"
          BY <1>1, <1>2, <1>5, <4>1 DEF EdgesLoaded
        <5>2. other # p /\ rank[other] < top
          BY <1>6, <2>1, <5>1 DEF InRank
        <5> QED BY <1>8, <2>2, <5>1, <5>2
      <4>2. top < top + 1
        OBVIOUS
      <4> QED BY <1>1, <2>2, <3>1, <4>1, <4>2 DEF InRank
    <3>2. CASE path # p
      <4>1. InRank(sources, states, rank, top, path)
        BY <1>8, <2>1, <2>3, <3>2
      <4>2. rank2[path] < top + 1
        BY <2>1, <2>2, <3>2, <4>1 DEF InRank
      <4>3. ASSUME NEW other \in Requires(sources, path) \cap MalFiles
            PROVE  states'[other].kind = "loaded" /\ rank2[other] < rank2[path]
        <5>1. states[other].kind = "loaded" /\ rank[other] < rank[path]
          BY <4>1 DEF InRank
        <5> QED BY <1>6, <1>8, <2>2, <3>2, <5>1
      <4> QED BY <1>1, <4>2, <4>3 DEF InRank
    <3> QED BY <3>1, <3>2
  <2> QED BY <2>2, <2>3 DEF Ranked
<1> QED BY <1>9, <1>10, <1>11, <1>12, <1>13, <1>15, <1>16, <1>17 DEF LoadInv
-----------------------------------------------------------------------------
(* The top frame takes its next requirement.                                *)

\* What is taken from the top frame is what its file requires.
LEMMA TakenIs ==
    ASSUME LoadInv, NEW kind, Taking(kind), NEW n, n = Len(pending)
    PROVE  /\ outcome = "loading" /\ pending # <<>>
           /\ n \in Nat \ {0} /\ n \in DOMAIN pending /\ DOMAIN pending = 1..n
           /\ Top = pending[n] /\ Head(Top.rest) \in kind
           /\ Head(Top.rest) \in Requires(sources, Top.path)
           /\ Range(pending[n].rest) = {Head(Top.rest)} \cup Range(Advanced[n].rest)
           /\ Advanced \in Seq(Frames) /\ Len(Advanced) = n /\ DOMAIN Advanced = DOMAIN pending
           /\ \A i \in DOMAIN pending :
                 /\ Advanced[i].path = pending[i].path /\ Advanced[i].id = pending[i].id
                 /\ Advanced[i].by = pending[i].by
                 /\ i # n => Advanced[i] = pending[i]
           /\ Top.path \in Program(sources, Root)
           /\ Head(Top.rest) \in MalFiles => Head(Top.rest) \in Program(sources, Root)
<1>1. /\ outcome = "loading" /\ pending # <<>> /\ Top.rest # <<>> /\ Head(Top.rest) \in kind
      /\ pending \in Seq(Frames)
  BY DEF Taking, LoadInv, LoadTyped
<1>2. /\ n \in Nat \ {0} /\ n \in DOMAIN pending /\ DOMAIN pending = 1..n
      /\ Top = pending[n] /\ Account(sources, files, requirements, cSources, pending, n)
      /\ Top.path \in Range(files)
  BY <1>1, TopIs
<1>3. /\ Advanced \in Seq(Frames) /\ Len(Advanced) = n /\ DOMAIN Advanced = DOMAIN pending
      /\ \A i \in DOMAIN pending :
            /\ Advanced[i].path = pending[i].path /\ Advanced[i].id = pending[i].id
            /\ Advanced[i].by = pending[i].by
            /\ i # n => Advanced[i] = pending[i]
  BY <1>1, AdvancedIs
<1>4. Range(pending[n].rest) = {Head(Top.rest)} \cup Range(Advanced[n].rest)
  <2>1. /\ Advanced[n].rest = Tail(Top.rest)
        /\ Range(Top.rest) = {Head(Top.rest)} \cup Range(Tail(Top.rest))
    BY <1>1, AdvancedIs
  <2> QED BY <1>2, <2>1
<1>5. Head(Top.rest) \in Requires(sources, Top.path)
  BY <1>2, <1>4 DEF Account
<1>6. Top.path \in Program(sources, Root)
  BY <1>2 DEF LoadInv, Reached
<1>7. Head(Top.rest) \in MalFiles => Head(Top.rest) \in Program(sources, Root)
  <2>1. ClosedUnder(sources, Program(sources, Root))
    BY RootAssumption, ProgramIs
  <2> QED BY <1>5, <1>6, <2>1 DEF ClosedUnder
<1> QED BY <1>1, <1>2, <1>3, <1>4, <1>5, <1>6, <1>7

\* The requirement became an edge, or a source to link: the account of the top frame balances
\* again, and all else that is said of the stack stays.
LEMMA AdvanceKept ==
    ASSUME LoadInv, NEW kind, Taking(kind), pending' = Advanced,
           sources' = sources, onDisk' = onDisk, files' = files, states' = states,
           outcome' = outcome, cSources' \in Seq(CFiles), Range(cSources) \subseteq Range(cSources'),
           /\ requirements' \in Seq(Seq(Nat)) /\ Len(requirements') = Len(files)
           /\ \A k \in DOMAIN files :
                 /\ requirements'[k] \in Seq(DOMAIN files)
                 /\ k # Top.id => /\ requirements'[k] = requirements[k]
                                  /\ Edges(files, requirements', k) = Edges(files, requirements, k)
           /\ IsInjective(requirements'[Top.id])
           /\ Edges(files, requirements', Top.id)
                = Edges(files, requirements, Top.id) \cup ({Head(Top.rest)} \cap MalFiles),
           Head(Top.rest) \notin OtherPaths, Head(Top.rest) \in CFiles => Head(Top.rest) \in Range(cSources'),
           Head(Top.rest) \in MalFiles => states[Head(Top.rest)].kind = "loaded",
           Linked'
    PROVE  LoadInv'
<1> DEFINE n == Len(pending)
           taken == Head(Top.rest)
           id == Top.id
<1>1. /\ LoadTyped /\ RootBegun /\ PathsOnce /\ StackHolds /\ Accounts /\ LoadedSettled
      /\ EdgesLoaded /\ Ranked /\ Reached
  BY DEF LoadInv
<1>2. /\ outcome = "loading" /\ pending # <<>>
      /\ n \in Nat \ {0} /\ n \in DOMAIN pending /\ DOMAIN pending = 1..n
      /\ Top = pending[n] /\ taken \in kind
      /\ taken \in Requires(sources, Top.path)
      /\ Range(pending[n].rest) = {taken} \cup Range(Advanced[n].rest)
      /\ Advanced \in Seq(Frames) /\ Len(Advanced) = n /\ DOMAIN Advanced = DOMAIN pending
      /\ \A i \in DOMAIN pending :
            /\ Advanced[i].path = pending[i].path /\ Advanced[i].id = pending[i].id
            /\ Advanced[i].by = pending[i].by
            /\ i # n => Advanced[i] = pending[i]
  BY TakenIs
<1>3. /\ id \in DOMAIN files /\ Above(pending, n) = {} /\ files[id] = Top.path
      /\ states[Top.path] = Loading
      /\ \A i \in DOMAIN pending :
            /\ pending[i].id \in DOMAIN files
            /\ i # n => pending[i].id # id
  BY <1>2, TopIs
<1> HIDE DEF taken, n, id
<1>4. DOMAIN pending' = DOMAIN pending /\ Len(pending') = n /\ pending' \in Seq(Frames)
      /\ \A i \in DOMAIN pending :
            /\ pending'[i].path = pending[i].path /\ pending'[i].id = pending[i].id
            /\ pending'[i].by = pending[i].by
            /\ i # n => pending'[i] = pending[i]
      /\ Range(pending[n].rest) = {taken} \cup Range(pending'[n].rest)
  BY <1>2
<1>5. LoadTyped'
  <2>1. \A i \in DOMAIN pending' :
          pending'[i].id \in DOMAIN files /\ pending'[i].by \in {0} \cup DOMAIN files
    BY <1>1, <1>4 DEF LoadTyped
  <2>2. \A k \in DOMAIN files : requirements'[k] \in Seq(DOMAIN files)
    OBVIOUS
  <2> QED BY <1>1, <1>4, <2>1, <2>2 DEF LoadTyped
<1>6. RootBegun' /\ PathsOnce' /\ Reached' /\ ErrorsTrue' /\ Ranked'
  <2>1. RootBegun' /\ ErrorsTrue'
    BY <1>1, <1>2 DEF RootBegun, ErrorsTrue, Errors
  <2>2. PathsOnce'
    BY <1>1 DEF PathsOnce
  <2>3. Reached'
    BY <1>1 DEF Reached
  <2>4. Ranked'
    BY <1>1 DEF Ranked
  <2> QED BY <2>1, <2>2, <2>3, <2>4
<1>7. StackHolds'
  <2>1. ASSUME NEW i \in DOMAIN pending' PROVE FrameOk(sources', files', states', pending', i)
    <3>1. FrameOk(sources, files, states, pending, i)
      BY <1>1, <1>4 DEF StackHolds
    <3>2. /\ pending'[i].path = pending[i].path /\ pending'[i].id = pending[i].id
          /\ pending'[i].by = pending[i].by
      BY <1>4
    <3>3. i # 1 => /\ pending'[i - 1].path = pending[i - 1].path
                   /\ pending'[i - 1].id = pending[i - 1].id
      <4>1. i # 1 => i - 1 \in DOMAIN pending
        BY <1>2, <1>4
      <4> QED BY <1>4, <4>1
    <3> QED BY <3>1, <3>2, <3>3 DEF FrameOk
  <2>2. \A i, j \in DOMAIN pending' : pending'[i].path = pending'[j].path => i = j
    BY <1>1, <1>4 DEF StackHolds
  <2>3. ASSUME NEW path \in MalFiles, states'[path] = Loading
        PROVE  \E i \in DOMAIN pending' : pending'[i].path = path
    <3>1. PICK i \in DOMAIN pending : pending[i].path = path
      BY <1>1, <2>3 DEF StackHolds
    <3>2. i \in DOMAIN pending' /\ pending'[i].path = path
      BY <1>4, <3>1
    <3> QED BY <3>2
  <2> QED BY <2>1, <2>2, <2>3 DEF StackHolds
<1>8. Accounts'
  <2> SUFFICES ASSUME NEW i \in DOMAIN pending'
               PROVE  Account(sources', files', requirements', cSources', pending', i)
    BY DEF Accounts
  <2>1. Account(sources, files, requirements, cSources, pending, i)
    BY <1>1, <1>4 DEF Accounts
  <2>2. /\ pending'[i].path = pending[i].path /\ pending'[i].id = pending[i].id
        /\ i \in DOMAIN pending /\ pending[i].id \in DOMAIN files
    <3>1. i \in DOMAIN pending
      BY <1>4
    <3>2. pending'[i].path = pending[i].path /\ pending'[i].id = pending[i].id
      BY <1>4, <3>1
    <3>3. pending[i].id \in DOMAIN files
      BY <1>3, <3>1
    <3> QED BY <3>1, <3>2, <3>3
  <2>3. Above(pending', i) = Above(pending, i)
    <3>1. i < n => i + 1 \in DOMAIN pending
      BY <1>2, <2>2
    <3>2. i < n => pending'[i + 1].path = pending[i + 1].path
      BY <1>4, <3>1
    <3> QED BY <1>4, <3>2 DEF Above, n
  <2>4. CASE i = n
    <3>1. /\ pending[i].id = id /\ Above(pending, i) = {}
          /\ Range(pending[i].rest) = {taken} \cup Range(pending'[i].rest)
      BY <1>2, <1>3, <1>4, <2>4 DEF id
    <3>2. /\ IsInjective(requirements'[id])
          /\ Edges(files, requirements', id)
               = Edges(files, requirements, id) \cup ({taken} \cap MalFiles)
      BY DEF id, taken
    <3>3. taken \notin OtherPaths /\ (taken \in CFiles => taken \in Range(cSources'))
      BY DEF taken
    <3> QED BY <2>1, <2>2, <2>3, <3>1, <3>2, <3>3 DEF Account
  <2>5. CASE i # n
    <3>1. pending'[i].rest = pending[i].rest
      BY <1>4, <2>2, <2>5
    <3>2. /\ requirements'[pending[i].id] = requirements[pending[i].id]
          /\ Edges(files, requirements', pending[i].id) = Edges(files, requirements, pending[i].id)
      BY <1>3, <2>2, <2>5 DEF id
    <3> QED BY <2>1, <2>2, <2>3, <3>1, <3>2 DEF Account
  <2> QED BY <2>4, <2>5
<1>9. LoadedSettled'
  <2> SUFFICES ASSUME NEW path \in MalFiles, states[path].kind = "loaded"
               PROVE  Settled(sources', files', requirements', cSources', states', path)
    BY DEF LoadedSettled
  <2>1. Settled(sources, files, requirements, cSources, states, path)
    BY <1>1 DEF LoadedSettled
  <2> DEFINE k == states[path].id
  <2>2. k \in DOMAIN files /\ files[k] = path
    BY <2>1 DEF Settled
  <2>3. k # id
    BY <1>3, <2>2, Kinds
  <2>4. requirements'[k] = requirements[k]
        /\ Edges(files, requirements', k) = Edges(files, requirements, k)
    BY <2>2, <2>3 DEF id
  <2> QED BY <2>1, <2>2, <2>4 DEF Settled
<1>10. EdgesLoaded'
  <2> SUFFICES ASSUME NEW k \in DOMAIN files, NEW path \in Edges(files, requirements', k)
               PROVE  states[path].kind = "loaded"
    BY DEF EdgesLoaded
  <2>1. path \in Edges(files, requirements, k) \/ (path = taken /\ taken \in MalFiles)
    BY DEF taken
  <2> QED BY <1>1, <2>1 DEF EdgesLoaded, taken
<1> QED BY <1>5, <1>6, <1>7, <1>8, <1>9, <1>10 DEF LoadInv

\* A loaded file that is required is an edge.
LEMMA RequireLoadedKept == ASSUME LoadInv, RequireLoaded PROVE LoadInv'
<1> DEFINE r == Head(Top.rest)
           target == states[r].id
<1>1. /\ Taking(MalFiles) /\ states[r].kind = "loaded" /\ requirements' = WithEdge(requirements, Top.id, target)
      /\ pending' = Advanced
      /\ sources' = sources /\ onDisk' = onDisk /\ files' = files /\ states' = states
      /\ cSources' = cSources /\ outcome' = outcome
  BY DEF RequireLoaded
<1>2. r \in MalFiles /\ pending # <<>>
  BY <1>1 DEF Taking
<1>3. /\ LoadTyped /\ Linked /\ target \in DOMAIN files /\ files[target] = r
  BY <1>1, <1>2 DEF LoadInv, LoadedSettled, Settled
<1>4. Top.id \in DOMAIN files /\ IsInjective(requirements[Top.id])
  BY <1>2, TopIs DEF Account
<1>5. /\ requirements' \in Seq(Seq(Nat)) /\ Len(requirements') = Len(files)
      /\ \A k \in DOMAIN files : requirements'[k] \in Seq(DOMAIN files)
      /\ \A k \in DOMAIN files : k # Top.id =>
            /\ requirements'[k] = requirements[k]
            /\ Edges(files, requirements', k) = Edges(files, requirements, k)
      /\ IsInjective(requirements'[Top.id])
      /\ Edges(files, requirements', Top.id) = Edges(files, requirements, Top.id) \cup {files[target]}
  <2> HIDE DEF target
  <2>1. /\ LoadTyped /\ Top.id \in DOMAIN files /\ target \in DOMAIN files
        /\ IsInjective(requirements[Top.id])
    BY <1>3, <1>4
  <2>2. requirements' = WithEdge(requirements, Top.id, target)
    BY <1>1
  <2> QED BY <2>1, <2>2, EdgeFacts, SMTT(60)
<1>6. Linked' /\ cSources' \in Seq(CFiles)
  BY <1>1, <1>3 DEF Linked, LoadTyped
<1>7. r \notin OtherPaths /\ r \notin CFiles
  BY <1>2, TextsAssumption
<1>8. Edges(files, requirements', Top.id) = Edges(files, requirements, Top.id) \cup ({r} \cap MalFiles)
  BY <1>2, <1>3, <1>5
<1> QED BY <1>1, <1>5, <1>6, <1>7, <1>8, AdvanceKept

\* A sequence with one more element.
LEMMA AppendedIs ==
    ASSUME NEW S, NEW s \in Seq(S), NEW x \in S, x \notin Range(s), IsInjective(s)
    PROVE  /\ Append(s, x) \in Seq(S) /\ IsInjective(Append(s, x))
           /\ Range(Append(s, x)) = Range(s) \cup {x}
<1> DEFINE t == Append(s, x)
<1>1. /\ t \in Seq(S) /\ Len(t) = Len(s) + 1 /\ t[Len(s) + 1] = x
      /\ \A i \in 1..Len(s) : t[i] = s[i]
  BY AppendProperties
<1>2. Len(s) \in Nat /\ DOMAIN s = 1..Len(s) /\ DOMAIN t = 1..Len(s) + 1
  BY <1>1, LenProperties
<1> HIDE DEF t
<1>3. /\ \A i \in 1..Len(s) + 1 : i = Len(s) + 1 \/ i \in 1..Len(s)
      /\ 1..Len(s) \subseteq 1..Len(s) + 1 /\ Len(s) + 1 \in 1..Len(s) + 1
  BY <1>2
<1>4. \A y : y \in Range(t) <=> y \in Range(s) \cup {x}
  <2>1. \A y : y \in Range(t) => y \in Range(s) \cup {x}
    BY <1>1, <1>2, <1>3 DEF Range
  <2>2. \A y : y \in Range(s) \cup {x} => y \in Range(t)
    BY <1>1, <1>2, <1>3 DEF Range
  <2> QED BY <2>1, <2>2
<1>5. IsInjective(t)
  <2>1. \A i \in 1..Len(s) : s[i] # x
    BY <1>2 DEF Range
  <2>2. \A i, j \in 1..Len(s) : s[i] = s[j] => i = j
    BY <1>2 DEF IsInjective
  <2> SUFFICES ASSUME NEW a \in 1..Len(s) + 1, NEW b \in 1..Len(s) + 1, t[a] = t[b] PROVE a = b
    BY <1>2 DEF IsInjective
  <2> QED BY <1>1, <1>3, <2>1, <2>2
<1> QED BY <1>1, <1>4, <1>5 DEF t

\* A C source that is required is linked once.
LEMMA RequireCKept ==
    ASSUME LoadInv, RequireC, Head(Top.rest) \in onDisk PROVE LoadInv'
<1> DEFINE r == Head(Top.rest)
<1>1. /\ Taking(CFiles) /\ pending' = Advanced
      /\ cSources' = IF r \in Range(cSources) THEN cSources ELSE Append(cSources, r)
      /\ sources' = sources /\ onDisk' = onDisk /\ files' = files /\ states' = states
      /\ requirements' = requirements /\ outcome' = outcome
  BY DEF RequireC
<1>2. r \in CFiles /\ pending # <<>> /\ r \in onDisk
  BY <1>1 DEF Taking
<1>3. LoadTyped /\ Linked /\ cSources \in Seq(CFiles) /\ IsInjective(cSources)
  BY DEF LoadInv, Linked, LoadTyped
<1>4. /\ cSources' \in Seq(CFiles) /\ IsInjective(cSources')
      /\ Range(cSources') = Range(cSources) \cup {r}
  <2> HIDE DEF r
  <2>1. CASE r \in Range(cSources)
    BY <1>1, <1>3, <2>1
  <2>2. CASE r \notin Range(cSources)
    <3>1. cSources' = Append(cSources, r)
      BY <1>1, <2>2
    <3>2. /\ Append(cSources, r) \in Seq(CFiles) /\ IsInjective(Append(cSources, r))
          /\ Range(Append(cSources, r)) = Range(cSources) \cup {r}
      BY <1>2, <1>3, <2>2, AppendedIs
    <3> QED BY <3>1, <3>2
  <2> QED BY <2>1, <2>2
<1>5. Linked'
  <2>1. r \in Requires(sources, Top.path)
    BY <1>1, TakenIs
  <2>2. Top.path \in Range(files)
    BY <1>2, TopIs
  <2>3. \A c \in Range(cSources') : \E path \in Range(files) : c \in Requires(sources, path)
    BY <1>3, <1>4, <2>1, <2>2 DEF Linked
  <2> QED BY <1>1, <1>2, <1>3, <1>4, <2>3 DEF Linked
<1>6. r \notin OtherPaths /\ r \notin MalFiles
  BY <1>2, TextsAssumption
<1>7. Top.id \in DOMAIN files /\ IsInjective(requirements[Top.id])
  BY <1>2, TopIs DEF Account
<1>8. Edges(files, requirements', Top.id) = Edges(files, requirements, Top.id) \cup ({r} \cap MalFiles)
  BY <1>1, <1>6
<1>9. /\ requirements' \in Seq(Seq(Nat)) /\ Len(requirements') = Len(files)
      /\ \A k \in DOMAIN files : requirements'[k] \in Seq(DOMAIN files)
  BY <1>1, <1>3 DEF LoadTyped
<1> QED BY <1>1, <1>4, <1>5, <1>6, <1>7, <1>8, <1>9, AdvanceKept
-----------------------------------------------------------------------------
(* Errors: the files on the stack above a file still loading are a cycle.   *)

\* A file that requires one of the stack it is on is on a cycle.
LEMMA LoadingOnCycle ==
    ASSUME LoadInv, pending # <<>>, NEW r \in MalFiles, r \in Requires(sources, Top.path),
           states[r] = Loading
    PROVE  OnCycle(sources, r)
<1> DEFINE n == Len(pending)
           seed == Requires(sources, r) \cap MalFiles
           R == ReachableFrom(sources, seed)
<1>1. /\ n \in Nat \ {0} /\ n \in DOMAIN pending /\ DOMAIN pending = 1..n
      /\ Top = pending[n] /\ Top.path \in MalFiles
      /\ \A i \in DOMAIN pending : pending[i].path \in MalFiles
  BY TopIs
<1>2. seed \subseteq R /\ ClosedUnder(sources, R)
  <2>1. seed \subseteq MalFiles
    OBVIOUS
  <2> HIDE DEF seed
  <2> QED BY <2>1, ReachableClosed
<1>3. StackHolds
  BY DEF LoadInv
<1>4. PICK j \in DOMAIN pending : pending[j].path = r
  BY <1>3 DEF StackHolds
<1>5. ASSUME NEW i \in DOMAIN pending, i # 1
      PROVE  pending[i].path \in Requires(sources, pending[i - 1].path) \cap MalFiles
  BY <1>1, <1>3, <1>5 DEF StackHolds, FrameOk
<1> HIDE DEF R
<1>6. r \in R
  <2>1. CASE j = n
    BY <1>1, <1>2, <1>4, <2>1
  <2>2. CASE j # n
    <3> DEFINE last == n - j - 1
               T == {k \in 0..last : pending[j + 1 + k].path \in R}
    <3>1. last \in Nat /\ j \in Nat /\ j \in 1..n - 1
      BY <1>1, <2>2
    <3>2. 0 \in T
      <4>1. j + 1 \in DOMAIN pending /\ j + 1 # 1 /\ (j + 1) - 1 = j /\ j + 1 + 0 = j + 1
            /\ 0 \in 0..last
        BY <1>1, <3>1
      <4>2. pending[j + 1].path \in seed
        BY <1>4, <1>5, <4>1
      <4> QED BY <1>2, <4>1, <4>2
    <3>3. ASSUME NEW k \in 0..last - 1, k \in T PROVE k + 1 \in T
      <4> DEFINE i == j + 1 + (k + 1)
      <4>1. i \in DOMAIN pending /\ i # 1 /\ i - 1 = j + 1 + k /\ k + 1 \in 0..last
        <5>1. n \in Nat /\ j \in Nat /\ 1 <= j /\ k \in Nat /\ k + 1 <= last /\ last = n - j - 1
          BY <1>1, <3>1
        <5>2. i \in 1..n /\ i # 1 /\ i - 1 = j + 1 + k /\ k + 1 \in 0..last
          <6> HIDE DEF n, last
          <6> QED BY <5>1
        <5> QED BY <1>1, <5>2
      <4>2. pending[i - 1].path \in R
        BY <3>3, <4>1
      <4>3. pending[i].path \in R
        BY <1>2, <1>5, <4>1, <4>2 DEF ClosedUnder
      <4> QED BY <4>1, <4>3
    <3>4. last \in T
      <4>1. 0..last \subseteq T
        <5> HIDE DEF T, last
        <5> QED BY <3>1, <3>2, <3>3, UpFrom
      <4>2. last \in 0..last
        BY <3>1
      <4> QED BY <4>1, <4>2
    <3>5. Top.path \in R
      <4>1. j + 1 + last = n
        BY <1>1, <3>1
      <4> QED BY <1>1, <3>4, <4>1
    <3> QED BY <1>2, <3>5 DEF ClosedUnder
  <2> QED BY <2>1, <2>2
<1> QED BY <1>6 DEF OnCycle, R

\* The root is begun.
LEMMA StartKept == ASSUME LoadInv, Start PROVE LoadInv'
<1>1. /\ outcome = "waiting" /\ files = <<>> /\ pending = <<>> /\ Begin(Root, 0, <<>>)
      /\ sources \in [MalFiles -> Texts \cup {Missing}] /\ PathsOnce
  BY DEF Start, LoadInv, RootBegun, LoadTyped
<1>2. Root \in MalFiles /\ Root \in Program(sources, Root)
  BY RootAssumption, ProgramIs
<1>3. CASE sources[Root] = Missing
  <2>1. Fail("unreadable") /\ ~Readable(sources, Root)
    BY <1>1, <1>3 DEF Begin, Readable
  <2>2. ~Loadable(sources, onDisk, Root)
    BY <1>2, <2>1, ObstacleStops
  <2>3. Explains("unreadable", sources, onDisk, Root)
    BY <1>3 DEF Explains
  <2>4. "unreadable" \in Errors
    BY DEF Errors
  <2> QED BY <1>1, <2>1, <2>2, <2>3, <2>4, FailKept
<1>4. CASE sources[Root] # Missing /\ ~sources[Root].header
  <2>1. Fail("invalid") /\ ~Readable(sources, Root)
    BY <1>1, <1>4 DEF Begin, Readable
  <2>2. ~Loadable(sources, onDisk, Root)
    BY <1>2, <2>1, ObstacleStops
  <2>3. Explains("invalid", sources, onDisk, Root)
    BY <1>2, <1>4 DEF Explains
  <2>4. "invalid" \in Errors
    BY DEF Errors
  <2> QED BY <1>1, <2>1, <2>2, <2>3, <2>4, FailKept
<1>5. CASE sources[Root] # Missing /\ sources[Root].header
  <2>1. Readable(sources, Root)
    BY <1>5 DEF Readable
  <2>2. states[Root] = Unseen
    <3>1. Range(files) = {}
      <4>1. DOMAIN <<>> = {}
        OBVIOUS
      <4> QED BY <1>1, <4>1 DEF Range
    <3> QED BY <1>1, <1>2, <3>1 DEF PathsOnce
  <2>3. /\ <<>> \in Seq(Frames) /\ DOMAIN pending = {} /\ Len(<<>>) = 0
        /\ DOMAIN <<>> = {} /\ Len(pending) = 0
    BY <1>1
  <2> QED BY <1>1, <1>2, <2>1, <2>2, <2>3, BeginKept
<1> QED BY <1>3, <1>4, <1>5

\* A requirement not seen before is begun.
LEMMA RequireUnseenKept == ASSUME LoadInv, RequireUnseen PROVE LoadInv'
<1> DEFINE r == Head(Top.rest)
           n == Len(pending)
<1>1. /\ Taking(MalFiles) /\ sources[r] # Missing /\ states[r] = Unseen
      /\ Begin(r, Top.id, Advanced)
  BY DEF RequireUnseen
<1>2. /\ outcome = "loading" /\ pending # <<>>
      /\ n \in Nat \ {0} /\ n \in DOMAIN pending /\ DOMAIN pending = 1..n
      /\ Top = pending[n] /\ r \in MalFiles
      /\ Range(pending[n].rest) = {r} \cup Range(Advanced[n].rest)
      /\ Advanced \in Seq(Frames) /\ Len(Advanced) = n /\ DOMAIN Advanced = DOMAIN pending
      /\ \A i \in DOMAIN pending :
            /\ Advanced[i].path = pending[i].path /\ Advanced[i].id = pending[i].id
            /\ Advanced[i].by = pending[i].by
            /\ i # n => Advanced[i] = pending[i]
      /\ r \in Program(sources, Root)
  BY <1>1, TakenIs
<1> HIDE DEF r
<1>3. CASE ~sources[r].header
  <2>1. Fail("invalid") /\ ~Readable(sources, r)
    BY <1>1, <1>3 DEF Begin, Readable, r
  <2>2. ~Loadable(sources, onDisk, Root)
    BY <1>2, <2>1, ObstacleStops
  <2>3. Explains("invalid", sources, onDisk, Root)
    BY <1>1, <1>2, <1>3 DEF Explains
  <2>4. "invalid" \in Errors
    BY DEF Errors
  <2> QED BY <1>2, <2>1, <2>2, <2>3, <2>4, FailKept
<1>4. CASE sources[r].header
  <2>1. Readable(sources, r)
    BY <1>1, <1>4 DEF Readable
  <2>2. n # 0 /\ Top.id = pending[n].id
    BY <1>2
  <2>3. n = Len(pending) /\ n = Len(Advanced)
    BY <1>2
  <2> HIDE DEF n
  <2> QED BY <1>1, <1>2, <2>1, <2>2, <2>3, BeginKept
<1> QED BY <1>3, <1>4

\* The steps that find an error report one the program has.
LEMMA FailuresKept ==
    ASSUME LoadInv,
           RequireLoading \/ RequireMissing \/ RequireOther \/ (RequireC /\ Head(Top.rest) \notin onDisk)
    PROVE  LoadInv'
<1> DEFINE r == Head(Top.rest)
<1>1. {"unreadable", "missing", "invalid", "cyclic"} \subseteq Errors
  BY DEF Errors
<1>2. ASSUME NEW kind, Taking(kind)
      PROVE  /\ outcome = "loading" /\ pending # <<>> /\ r \in kind
             /\ r \in Requires(sources, Top.path) /\ Top.path \in Program(sources, Root)
             /\ r \in MalFiles => r \in Program(sources, Root)
  BY <1>2, TakenIs
<1>3. CASE RequireLoading
  <2>1. /\ Taking(MalFiles) /\ states[r] = Loading /\ Fail("cyclic")
    BY <1>3 DEF RequireLoading
  <2>2. r \in MalFiles /\ OnCycle(sources, r) /\ r \in Program(sources, Root)
    BY <1>2, <2>1, LoadingOnCycle
  <2>3. ~Loadable(sources, onDisk, Root) /\ Explains("cyclic", sources, onDisk, Root)
    BY <2>2, ObstacleStops DEF Explains
  <2> QED BY <1>1, <1>2, <2>1, <2>3, FailKept
<1>4. CASE RequireMissing
  <2>1. /\ Taking(MalFiles) /\ sources[r] = Missing /\ Fail("missing")
    BY <1>4 DEF RequireMissing
  <2>2. r \in Program(sources, Root) /\ ~Readable(sources, r)
    BY <1>2, <2>1 DEF Readable
  <2>3. ~Loadable(sources, onDisk, Root) /\ Explains("missing", sources, onDisk, Root)
    BY <2>1, <2>2, ObstacleStops DEF Explains
  <2> QED BY <1>1, <1>2, <2>1, <2>3, FailKept
<1>5. CASE RequireOther
  <2>1. /\ Taking(OtherPaths) /\ Fail("invalid")
    BY <1>5 DEF RequireOther
  <2>2. Top.path \in Program(sources, Root) /\ Requires(sources, Top.path) \cap OtherPaths # {}
    BY <1>2, <2>1
  <2>3. ~Loadable(sources, onDisk, Root) /\ Explains("invalid", sources, onDisk, Root)
    BY <2>1, <2>2, ObstacleStops DEF Explains
  <2> QED BY <1>1, <1>2, <2>1, <2>3, FailKept
<1>6. CASE RequireC /\ r \notin onDisk
  <2>1. /\ Taking(CFiles) /\ Fail("missing")
    BY <1>6 DEF RequireC
  <2>2. Top.path \in Program(sources, Root) /\ ~(Requires(sources, Top.path) \cap CFiles \subseteq onDisk)
    BY <1>2, <1>6, <2>1
  <2>3. ~Loadable(sources, onDisk, Root) /\ Explains("missing", sources, onDisk, Root)
    BY <2>1, <2>2, ObstacleStops DEF Explains
  <2> QED BY <1>1, <1>2, <2>1, <2>3, FailKept
<1> QED BY <1>3, <1>4, <1>5, <1>6

\* The load ends when the stack is empty.
LEMMA FinishKept == ASSUME LoadInv, Finish PROVE LoadInv'
<1>1. /\ outcome = "loading" /\ pending = <<>> /\ outcome' = "loaded"
      /\ UNCHANGED <<sources, onDisk, files, requirements, states, pending, cSources>>
  BY DEF Finish
<1>2. LoadTyped' /\ RootBegun' /\ ErrorsTrue'
  BY <1>1 DEF LoadInv, LoadTyped, RootBegun, ErrorsTrue, Errors
<1>3. (PathsOnce /\ StackHolds /\ Accounts /\ LoadedSettled)'
  BY <1>1 DEF LoadInv, PathsOnce, StackHolds, Accounts, LoadedSettled
<1>4. (EdgesLoaded /\ Ranked /\ Linked /\ Reached)'
  BY <1>1 DEF LoadInv, EdgesLoaded, Ranked, Linked, Reached
<1> QED BY <1>2, <1>3, <1>4 DEF LoadInv

\* Every step of the loader keeps its invariant.
LEMMA LoadStep == LoadInv /\ [NextLoad]_load => LoadInv'
<1> SUFFICES ASSUME LoadInv, [NextLoad]_load PROVE LoadInv'
  OBVIOUS
<1>1. CASE RequireC
  BY <1>1, RequireCKept, FailuresKept
<1>2. CASE UNCHANGED load
  <2>1. LoadTyped' /\ RootBegun' /\ ErrorsTrue'
    BY <1>2 DEF load, LoadInv, LoadTyped, RootBegun, ErrorsTrue
  <2>2. (PathsOnce /\ StackHolds /\ Accounts /\ LoadedSettled)'
    BY <1>2 DEF load, LoadInv, PathsOnce, StackHolds, Accounts, LoadedSettled
  <2>3. (EdgesLoaded /\ Ranked /\ Linked /\ Reached)'
    BY <1>2 DEF load, LoadInv, EdgesLoaded, Ranked, Linked, Reached
  <2> QED BY <2>1, <2>2, <2>3 DEF LoadInv
<1> QED BY <1>1, <1>2, StartKept, CompleteKept, FinishKept, RequireLoadedKept, RequireUnseenKept,
           FailuresKept DEF NextLoad
-----------------------------------------------------------------------------
(* What the invariant says of a load.                                       *)

\* The invariant of the loader bounds its variables.
LEMMA LoadTypes == LoadInv => LoadTypeOK
<1> SUFFICES ASSUME LoadInv PROVE LoadTypeOK
  OBVIOUS
<1>1. LoadTyped
  BY DEF LoadInv
<1>2. states \in [MalFiles -> {Unseen, Loading} \cup {Loaded(id) : id \in DOMAIN files}]
  <2>1. states \in [MalFiles -> States] /\ \A path \in MalFiles :
          states[path] \in {Unseen, Loading} \cup {Loaded(id) : id \in DOMAIN files}
    BY <1>1 DEF LoadTyped
  <2> QED BY <2>1
<1>3. ASSUME NEW i \in DOMAIN pending
      PROVE  /\ pending[i].path \in MalFiles /\ pending[i].id \in DOMAIN files
             /\ pending[i].by \in {0} \cup DOMAIN files
             /\ pending[i].rest \in Seq(MalFiles \cup CFiles \cup OtherPaths)
  <2>1. pending \in Seq(Frames)
    BY <1>1 DEF LoadTyped
  <2>2. pending[i] \in Frames
    <3>1. DOMAIN pending = 1..Len(pending)
      BY <2>1, LenProperties
    <3> QED BY <2>1, <3>1, ElementOfSeq
  <2> QED BY <1>1, <2>2 DEF LoadTyped, Frames, Paths
<1> QED BY <1>1, <1>2, <1>3 DEF LoadTypeOK, LoadTyped

\* The invariant of the loader makes its graph well formed.
LEMMA LoadGraph == LoadInv => GraphWellFormed
<1> SUFFICES ASSUME LoadInv PROVE GraphWellFormed
  OBVIOUS
<1>1. LoadTyped /\ PathsOnce /\ StackHolds /\ LoadedSettled
  BY DEF LoadInv
<1>2. StackIsRequirementPath
  <2>1. IsInjective([i \in DOMAIN pending |-> pending[i].path])
    <3> SUFFICES ASSUME NEW i \in DOMAIN pending, NEW j \in DOMAIN pending,
                        pending[i].path = pending[j].path
                 PROVE  i = j
      BY DEF IsInjective
    <3> QED BY <1>1 DEF StackHolds
  <2>2. \A i \in DOMAIN pending : FrameOk(sources, files, states, pending, i)
    BY <1>1 DEF StackHolds
  <2>3. {pending[i].path : i \in DOMAIN pending} = {path \in MalFiles : states[path] = Loading}
    <3>1. \A i \in DOMAIN pending : pending[i].path \in MalFiles
      <4>1. LoadTypeOK
        BY LoadTypes
      <4> QED BY <4>1 DEF LoadTypeOK
    <3>2. \A i \in DOMAIN pending : states[pending[i].path] = Loading
      BY <2>2 DEF FrameOk
    <3>3. \A path \in MalFiles :
            states[path] = Loading => \E i \in DOMAIN pending : pending[i].path = path
      BY <1>1 DEF StackHolds
    <3> QED BY <3>1, <3>2, <3>3
  <2>4. ASSUME NEW i \in DOMAIN pending
        PROVE  /\ files[pending[i].id] = pending[i].path
               /\ IF i = 1 THEN pending[i].by = 0 /\ pending[i].path = Root
                  ELSE /\ pending[i].by = pending[i - 1].id
                       /\ pending[i].path \in Requires(sources, pending[i - 1].path)
    BY <2>2 DEF FrameOk
  <2> QED BY <2>1, <2>3, <2>4 DEF StackIsRequirementPath
<1>3. OneFilePerPath
  BY <1>1 DEF OneFilePerPath, PathsOnce, LoadedSettled, Settled
<1>4. EdgesAreRequirements
  <2> SUFFICES ASSUME NEW path \in MalFiles, states[path].kind = "loaded"
               PROVE  /\ IsInjective(requirements[states[path].id])
                      /\ {files[id] : id \in Range(requirements[states[path].id])}
                           = Requires(sources, path) \cap MalFiles
    BY DEF EdgesAreRequirements
  <2>1. Settled(sources, files, requirements, cSources, states, path)
    BY <1>1 DEF LoadedSettled
  <2> QED BY <2>1 DEF Settled, Edges
<1> QED BY <1>2, <1>3, <1>4 DEF GraphWellFormed

\* With an empty stack every file is loaded.
LEMMA AllLoaded ==
    ASSUME LoadInv, outcome = "loaded"
    PROVE  /\ pending = <<>> /\ files # <<>> /\ files[1] = Root /\ 1 \in DOMAIN files
           /\ Range(files) = Program(sources, Root)
           /\ \A path \in Range(files) : path \in MalFiles /\ states[path].kind = "loaded"
<1>1. LoadTyped /\ RootBegun /\ PathsOnce /\ StackHolds /\ LoadedSettled /\ EdgesLoaded /\ Reached
  BY DEF LoadInv
<1>2. pending = <<>> /\ files # <<>> /\ files[1] = Root
  BY <1>1 DEF RootBegun
<1>3. files \in Seq(MalFiles)
  BY <1>1 DEF LoadTyped
<1>4. DOMAIN files = 1..Len(files) /\ Len(files) \in Nat /\ Len(files) # 0
  BY <1>2, <1>3, LenProperties, EmptySeq
<1>5. 1 \in DOMAIN files
  BY <1>4
<1>6. Range(files) \subseteq MalFiles
  BY <1>3, <1>4, ElementOfSeq DEF Range
<1>7. ASSUME NEW path \in Range(files) PROVE states[path].kind = "loaded"
  <2>1. path \in MalFiles /\ states[path] # Unseen
    BY <1>1, <1>6 DEF PathsOnce
  <2>2. states[path] # Loading
    <3>1. DOMAIN pending = {}
      BY <1>2
    <3> QED BY <1>1, <2>1, <3>1 DEF StackHolds
  <2>3. states[path] \in {Unseen, Loading} \cup {Loaded(id) : id \in DOMAIN files}
    BY <1>1, <2>1 DEF LoadTyped
  <2> QED BY <2>1, <2>2, <2>3, Kinds
<1>8. ClosedUnder(sources, Range(files))
  <2> SUFFICES ASSUME NEW path \in Range(files)
               PROVE  Requires(sources, path) \cap MalFiles \subseteq Range(files)
    BY DEF ClosedUnder
  <2>1. Settled(sources, files, requirements, cSources, states, path)
    BY <1>1, <1>6, <1>7 DEF LoadedSettled
  <2>2. Edges(files, requirements, states[path].id) \subseteq Range(files)
    BY <1>1, <2>1, EdgesTyped DEF Settled
  <2> QED BY <2>1, <2>2 DEF Settled
<1>9. Program(sources, Root) \subseteq Range(files)
  <2>1. {Root} \subseteq Range(files)
    BY <1>2, <1>5 DEF Range
  <2> QED BY <1>8, <2>1, ReachableLeast DEF Program
<1>10. Range(files) = Program(sources, Root)
  BY <1>1, <1>9 DEF Reached
<1> QED BY <1>2, <1>5, <1>6, <1>7, <1>10

\* The order of loading leaves no room for a cycle.
LEMMA LoadedNotOnCycle ==
    ASSUME LoadInv, NEW path \in MalFiles, states[path].kind = "loaded"
    PROVE  ~OnCycle(sources, path)
<1>1. PICK top \in Nat, rank \in [MalFiles -> Nat] :
        \A other \in MalFiles :
          states[other].kind = "loaded" => InRank(sources, states, rank, top, other)
  BY DEF LoadInv, Ranked
<1> DEFINE seed == Requires(sources, path) \cap MalFiles
           lower == {other \in MalFiles : states[other].kind = "loaded" /\ rank[other] < rank[path]}
<1>2. seed \subseteq lower
  BY <1>1 DEF InRank
<1>3. ClosedUnder(sources, lower)
  <2> SUFFICES ASSUME NEW other \in lower, NEW further \in Requires(sources, other) \cap MalFiles
               PROVE  further \in lower
    BY DEF ClosedUnder
  <2>1. states[further].kind = "loaded" /\ rank[further] < rank[other]
    BY <1>1 DEF InRank
  <2>2. rank[further] \in Nat /\ rank[other] \in Nat /\ rank[path] \in Nat /\ rank[other] < rank[path]
    BY <1>1
  <2> QED BY <2>1, <2>2
<1>4. path \notin lower
  <2>1. rank[path] \in Nat
    BY <1>1
  <2> QED BY <2>1
<1>5. ReachableFrom(sources, seed) \subseteq lower
  <2> HIDE DEF seed, lower
  <2> QED BY <1>2, <1>3, ReachableLeast
<1> QED BY <1>4, <1>5 DEF OnCycle

\* The invariant of the loader makes its answers right.
LEMMA LoadIsRight == LoadInv => LoadsWhatIsRequired
<1> SUFFICES ASSUME LoadInv PROVE LoadsWhatIsRequired
  OBVIOUS
<1>1. LoadTyped /\ LoadedSettled /\ Linked /\ ErrorsTrue
  BY DEF LoadInv
<1>2. ASSUME outcome = "loaded"
      PROVE  /\ Loadable(sources, onDisk, Root)
             /\ Range(files) = Program(sources, Root)
             /\ IsInjective(cSources)
             /\ Range(cSources)
                  = UNION {Requires(sources, path) \cap CFiles : path \in Program(sources, Root)}
  <2>1. /\ Range(files) = Program(sources, Root)
        /\ \A path \in Range(files) : path \in MalFiles /\ states[path].kind = "loaded"
    BY <1>2, AllLoaded
  <2>2. \A path \in Program(sources, Root) :
          /\ Settled(sources, files, requirements, cSources, states, path)
          /\ ~OnCycle(sources, path)
    BY <1>1, <2>1, LoadedNotOnCycle DEF LoadedSettled
  <2>3. Loadable(sources, onDisk, Root)
    <3>1. ASSUME NEW path \in Program(sources, Root)
          PROVE  /\ Readable(sources, path) /\ ~OnCycle(sources, path)
                 /\ Requires(sources, path) \cap CFiles \subseteq onDisk
                 /\ Requires(sources, path) \cap OtherPaths = {}
      BY <1>1, <2>2 DEF Settled, Linked
    <3> QED BY <3>1 DEF Loadable, Obstacles
  <2>4. Range(cSources) = UNION {Requires(sources, path) \cap CFiles : path \in Program(sources, Root)}
    <3>1. Range(cSources) \subseteq CFiles
      <4>1. cSources \in Seq(CFiles)
        BY <1>1 DEF LoadTyped
      <4>2. DOMAIN cSources = 1..Len(cSources)
        BY <4>1, LenProperties
      <4> QED BY <4>1, <4>2, ElementOfSeq DEF Range
    <3>2. ASSUME NEW c \in Range(cSources)
          PROVE  \E path \in Program(sources, Root) : c \in Requires(sources, path) \cap CFiles
      BY <1>1, <2>1, <3>1 DEF Linked
    <3>3. ASSUME NEW path \in Program(sources, Root)
          PROVE  Requires(sources, path) \cap CFiles \subseteq Range(cSources)
      BY <2>2 DEF Settled
    <3> QED BY <3>2, <3>3
  <2> QED BY <1>1, <2>1, <2>3, <2>4 DEF Linked
<1> QED BY <1>1, <1>2 DEF LoadsWhatIsRequired, ErrorsTrue

-----------------------------------------------------------------------------
(* Resolving. *)

\* The graph a finished load leaves to the resolver.
LEMMA LoadedGraph ==
    ASSUME LoadInv, outcome = "loaded"
    PROVE  /\ files \in Seq(MalFiles) /\ DOMAIN files = 1..Len(files) /\ Len(files) \in Nat
           /\ 1 \in DOMAIN files /\ files[1] = Root
           /\ Range(files) = Program(sources, Root)
           /\ \A k, l \in DOMAIN files : files[k] = files[l] => k = l
           /\ \A k \in DOMAIN files :
                 /\ files[k] \in MalFiles /\ files[k] \in Program(sources, Root)
                 /\ sources[files[k]] \in Texts
                 /\ ~OnCycle(sources, files[k])
                 /\ requirements[k] \in Seq(DOMAIN files) /\ Range(requirements[k]) \subseteq DOMAIN files
                 /\ DOMAIN requirements[k] = 1..Len(requirements[k]) /\ Len(requirements[k]) \in Nat
                 /\ IsInjective(requirements[k])
                 /\ {files[l] : l \in Range(requirements[k])} = Requires(sources, files[k]) \cap MalFiles
<1>1. LoadTyped /\ PathsOnce /\ LoadedSettled
  BY DEF LoadInv
<1>2. /\ files[1] = Root /\ 1 \in DOMAIN files /\ Range(files) = Program(sources, Root)
      /\ \A path \in Range(files) : path \in MalFiles /\ states[path].kind = "loaded"
  BY AllLoaded
<1>3. files \in Seq(MalFiles) /\ DOMAIN files = 1..Len(files) /\ Len(files) \in Nat
  <2>1. files \in Seq(MalFiles)
    BY <1>1 DEF LoadTyped
  <2> QED BY <2>1, LenProperties
<1>4. \A k, l \in DOMAIN files : files[k] = files[l] => k = l
  BY <1>1 DEF PathsOnce, IsInjective
<1>5. ASSUME NEW k \in DOMAIN files
      PROVE  /\ files[k] \in MalFiles /\ files[k] \in Program(sources, Root)
             /\ sources[files[k]] \in Texts
             /\ ~OnCycle(sources, files[k])
             /\ requirements[k] \in Seq(DOMAIN files) /\ Range(requirements[k]) \subseteq DOMAIN files
             /\ DOMAIN requirements[k] = 1..Len(requirements[k]) /\ Len(requirements[k]) \in Nat
             /\ IsInjective(requirements[k])
             /\ {files[l] : l \in Range(requirements[k])} = Requires(sources, files[k]) \cap MalFiles
  <2> DEFINE path == files[k]
  <2>1. path \in Range(files)
    BY DEF Range
  <2>2. path \in MalFiles /\ states[path].kind = "loaded" /\ path \in Program(sources, Root)
    BY <1>2, <2>1
  <2>3. Settled(sources, files, requirements, cSources, states, path)
    BY <1>1, <2>2 DEF LoadedSettled
  <2>4. states[path].id = k
    BY <1>4, <2>3 DEF Settled
  <2>5. sources[path] \in Texts
    <3>1. sources[path] \in Texts \cup {Missing}
      BY <1>1, <2>2 DEF LoadTyped
    <3> QED BY <2>3, <3>1 DEF Settled, Readable
  <2>6. ~OnCycle(sources, path)
    BY <2>2, LoadedNotOnCycle
  <2>7. requirements[k] \in Seq(DOMAIN files) /\ Range(requirements[k]) \subseteq DOMAIN files
    BY <1>1, EdgesTyped
  <2>8. DOMAIN requirements[k] = 1..Len(requirements[k]) /\ Len(requirements[k]) \in Nat
    BY <2>7, LenProperties
  <2>9. /\ IsInjective(requirements[k])
        /\ {files[l] : l \in Range(requirements[k])} = Requires(sources, path) \cap MalFiles
    BY <2>3, <2>4 DEF Settled, Edges
  <2> QED BY <2>2, <2>5, <2>6, <2>7, <2>8, <2>9
<1> QED BY <1>2, <1>3, <1>4, <1>5

-----------------------------------------------------------------------------
(* The invariant of the resolver.                                           *)

WalkBegun == resolution \in {"resolving", "resolved", "conflict", "main"}

ResolverTyped ==
    /\ resolution \in {"waiting", "resolving", "resolved", "syntax", "conflict", "main"}
    /\ resolution # "waiting" => outcome = "loaded"
    /\ ~WalkBegun => active = <<>> /\ marks = <<>> /\ exports = <<>> /\ resolved = <<>>
    /\ WalkBegun => /\ active \in Seq([file : DOMAIN files, next : Nat])
                  /\ marks \in [DOMAIN files -> {0, 1, 2}]
                  /\ exports \in [DOMAIN files -> {None} \cup {Some(known) : known \in SUBSET Names}]
                  /\ resolved \in Seq(DOMAIN files)

\* The files on the stack are the active ones.
StackMarked ==
    /\ \A i, j \in DOMAIN active : active[i].file = active[j].file => i = j
    /\ \A k \in DOMAIN files : marks[k] = 1 <=> \E i \in DOMAIN active : active[i].file = k

\* The requirements a file on the stack has visited are resolved, but for the one above it.
Visits(stack, edges, mark, i) ==
    /\ stack[i].next \in 1..Len(edges[stack[i].file]) + 1
    /\ \A m \in 1..stack[i].next - 1 :
          \/ mark[edges[stack[i].file][m]] = 2
          \/ i < Len(stack) /\ stack[i + 1].file = edges[stack[i].file][m]

StackVisits == \A i \in DOMAIN active : Visits(active, requirements, marks, i)

\* Requirements lead from each file on the stack to those above it.
StackDescends ==
    \A i, j \in DOMAIN active :
        i < j => files[active[j].file]
                   \in ReachableFrom(sources, Requires(sources, files[active[i].file]) \cap MalFiles)

RootVisited == IF active = <<>> THEN marks[1] = 2 ELSE active[1].file = 1

ResolvedMarked ==
    \A k \in DOMAIN files :
        /\ marks[k] = 2 <=> k \in Range(resolved)
        /\ exports[k] = IF marks[k] = 2 THEN Some(sources[files[k]].declares) ELSE None

ResolvedInOrder ==
    /\ IsInjective(resolved)
    /\ \A i \in DOMAIN resolved :
          Range(requirements[resolved[i]]) \subseteq {resolved[j] : j \in 1..i - 1}

Clashes(src, path) ==
    LET required == Requires(src, path) \cap MalFiles
    IN  \/ \E one, other \in required : one # other /\ src[one].declares \cap src[other].declares # {}
        \/ \E one \in required : src[one].declares \cap src[path].declares # {}

ResolvedChecked ==
    \A k \in Range(resolved) : ~Clashes(sources, files[k]) /\ (k = 1 \/ ~sources[files[k]].main)

WalkHolds ==
    /\ StackMarked /\ StackVisits /\ StackDescends /\ RootVisited
    /\ ResolvedMarked /\ ResolvedInOrder /\ ResolvedChecked

Verdicts ==
    /\ resolution = "conflict" => \E path \in Program(sources, Root) : Clashes(sources, path)
    /\ resolution = "main" => \E path \in Program(sources, Root) \ {Root} : sources[path].main
    /\ resolution = "syntax" => \E path \in Program(sources, Root) : ~sources[path].body
    /\ resolution = "resolved" => active = <<>>

ResolverInv == ResolverTyped /\ (WalkBegun => WalkHolds) /\ Verdicts

\* Nothing is resolved at first.
LEMMA ResolverInit == Init => ResolverInv
  BY DEF Init, ResolverInv, ResolverTyped, WalkBegun, Verdicts

\* While a program is loaded the resolver waits.
LEMMA LoadKeepsResolver ==
    ASSUME LoadInv, ResolverInv, NextLoad, UNCHANGED resolve
    PROVE  ResolverInv'
<1>1. outcome # "loaded"
  BY DEF NextLoad, Start, Complete, Finish, RequireLoaded, RequireLoading, RequireUnseen,
         RequireMissing, RequireC, RequireOther, Taking
<1>2. resolution = "waiting" /\ ResolverTyped
  BY <1>1 DEF ResolverInv, ResolverTyped
<1> QED BY <1>2 DEF resolve, ResolverInv, ResolverTyped, WalkBegun, Verdicts

\* The walk starts at the root, or a file does not parse.
LEMMA StartResolvingKept == ASSUME LoadInv, ResolverInv, StartResolving PROVE ResolverInv'
<1>1. /\ outcome = "loaded" /\ resolution = "waiting" /\ ResolverTyped
      /\ sources' = sources /\ files' = files /\ requirements' = requirements /\ outcome' = outcome
      /\ resolved' = resolved /\ active = <<>> /\ marks = <<>> /\ exports = <<>> /\ resolved = <<>>
  BY DEF StartResolving, ResolverInv, ResolverTyped, WalkBegun, load
<1>2. /\ DOMAIN files = 1..Len(files) /\ Len(files) \in Nat /\ 1 \in DOMAIN files
      /\ \A k \in DOMAIN files :
            /\ files[k] \in Program(sources, Root) /\ requirements[k] \in Seq(DOMAIN files)
            /\ Len(requirements[k]) \in Nat
  BY <1>1, LoadedGraph
<1>3. CASE \A id \in DOMAIN files : Text(id).body
  <2>1. /\ active' = <<[file |-> 1, next |-> 1]>>
        /\ marks' = [id \in DOMAIN files |-> IF id = 1 THEN 1 ELSE 0]
        /\ exports' = [id \in DOMAIN files |-> None]
        /\ resolution' = "resolving"
    BY <1>3 DEF StartResolving
  <2>2. /\ DOMAIN active' = {1} /\ active'[1].file = 1 /\ active'[1].next = 1 /\ Len(active') = 1
        /\ active' \in Seq([file : DOMAIN files, next : Nat]) /\ active' # <<>>
    <3>1. [file |-> 1, next |-> 1] \in [file : DOMAIN files, next : Nat]
      BY <1>2
    <3> QED BY <2>1, <3>1
  <2>3. Range(resolved') = {} /\ DOMAIN resolved' = {} /\ resolved' \in Seq(DOMAIN files)
    <3>1. DOMAIN <<>> = {} /\ <<>> \in Seq(DOMAIN files)
      OBVIOUS
    <3> QED BY <1>1, <3>1 DEF Range
  <2>4. ResolverTyped'
    BY <1>1, <2>1, <2>2, <2>3 DEF ResolverTyped, WalkBegun
  <2>5. StackMarked' /\ RootVisited'
    BY <1>1, <1>2, <2>1, <2>2 DEF StackMarked, RootVisited
  <2>6. StackVisits'
    <3>1. 1 \in 1..Len(requirements[1]) + 1 /\ 1..1 - 1 = {}
      BY <1>2
    <3> QED BY <1>1, <2>2, <3>1 DEF StackVisits, Visits
  <2>7. StackDescends'
    <3>1. ~(1 < 1)
      OBVIOUS
    <3> QED BY <2>2, <3>1 DEF StackDescends
  <2>8. ResolvedMarked' /\ ResolvedInOrder' /\ ResolvedChecked'
    BY <1>1, <2>1, <2>3 DEF ResolvedMarked, ResolvedInOrder, ResolvedChecked, IsInjective
  <2>9. Verdicts'
    BY <2>1 DEF Verdicts
  <2> QED BY <2>4, <2>5, <2>6, <2>7, <2>8, <2>9 DEF ResolverInv, WalkHolds
<1>4. CASE ~\A id \in DOMAIN files : Text(id).body
  <2>1. resolution' = "syntax" /\ UNCHANGED <<active, marks, exports>>
    BY <1>4 DEF StartResolving
  <2>2. \E path \in Program(sources, Root) : ~sources[path].body
    BY <1>2, <1>4 DEF Text
  <2> QED BY <1>1, <2>1, <2>2 DEF ResolverInv, ResolverTyped, WalkBegun, Verdicts
<1> QED BY <1>3, <1>4
-----------------------------------------------------------------------------
(* The file on top of the stack.                                            *)

\* The stack of the resolver while it walks.
LEMMA ActiveIs ==
    ASSUME LoadInv, ResolverInv, Resolving, NEW n, n = Len(active)
    PROVE  /\ outcome = "loaded" /\ WalkBegun /\ WalkHolds
           /\ n \in Nat \ {0} /\ n \in DOMAIN active /\ DOMAIN active = 1..n
           /\ Last(active) = active[n]
           /\ active \in Seq([file : DOMAIN files, next : Nat])
           /\ marks \in [DOMAIN files -> {0, 1, 2}]
           /\ exports \in [DOMAIN files -> {None} \cup {Some(known) : known \in SUBSET Names}]
           /\ resolved \in Seq(DOMAIN files) /\ DOMAIN resolved = 1..Len(resolved)
           /\ Len(resolved) \in Nat
           /\ \A i \in DOMAIN active : active[i].file \in DOMAIN files /\ active[i].next \in Nat
           /\ Range(resolved) \subseteq DOMAIN files
<1>1. /\ resolution = "resolving" /\ active # <<>> /\ ResolverTyped
  BY DEF Resolving, ResolverInv
<1>2. /\ outcome = "loaded" /\ WalkBegun /\ WalkHolds
      /\ active \in Seq([file : DOMAIN files, next : Nat])
      /\ marks \in [DOMAIN files -> {0, 1, 2}]
      /\ exports \in [DOMAIN files -> {None} \cup {Some(known) : known \in SUBSET Names}]
      /\ resolved \in Seq(DOMAIN files)
  BY <1>1 DEF ResolverInv, ResolverTyped, WalkBegun
<1>3. n \in Nat \ {0} /\ DOMAIN active = 1..n
  BY <1>1, <1>2, LenProperties, EmptySeq
<1>4. n \in DOMAIN active
  BY <1>3
<1>5. \A i \in DOMAIN active : active[i].file \in DOMAIN files /\ active[i].next \in Nat
  <2> SUFFICES ASSUME NEW i \in DOMAIN active
               PROVE  active[i].file \in DOMAIN files /\ active[i].next \in Nat
    OBVIOUS
  <2>1. active[i] \in [file : DOMAIN files, next : Nat]
    BY <1>2, <1>3, ElementOfSeq
  <2> QED BY <2>1
<1>6. DOMAIN resolved = 1..Len(resolved) /\ Len(resolved) \in Nat
  BY <1>2, LenProperties
<1>7. Range(resolved) \subseteq DOMAIN files
  BY <1>2, <1>6, ElementOfSeq DEF Range
<1> QED BY <1>2, <1>3, <1>4, <1>5, <1>6, <1>7 DEF Last

\* The stack after one more requirement of its top file is counted as visited.
LEMMA VisitedIs ==
    ASSUME NEW S, active \in Seq([file : S, next : Nat]), active # <<>>, NEW n, n = Len(active)
    PROVE  /\ Visited \in Seq([file : S, next : Nat]) /\ Len(Visited) = n
           /\ DOMAIN Visited = DOMAIN active
           /\ Visited[n].file = active[n].file /\ Visited[n].next = active[n].next + 1
           /\ \A i \in DOMAIN active : /\ Visited[i].file = active[i].file
                                       /\ i # n => Visited[i] = active[i]
<1> DEFINE A == [file : S, next : Nat]
<1>1. n \in Nat \ {0} /\ DOMAIN active = 1..n
  BY LenProperties, EmptySeq
<1>2. n \in 1..n /\ active[n] \in A
  <2>1. n \in 1..n
    BY <1>1
  <2>2. active \in Seq(A)
    OBVIOUS
  <2> HIDE DEF A
  <2> QED BY <2>1, <2>2, ElementOfSeq
<1>3. \A u \in A : /\ [u EXCEPT !.next = u.next + 1] \in A
                   /\ [u EXCEPT !.next = u.next + 1].file = u.file
                   /\ [u EXCEPT !.next = u.next + 1].next = u.next + 1
  OBVIOUS
<1> DEFINE y == [active[n] EXCEPT !.next = active[n].next + 1]
<1>4. Visited = [active EXCEPT ![n] = y]
  BY DEF Visited
<1>5. y \in A /\ y.file = active[n].file /\ y.next = active[n].next + 1
  BY <1>2, <1>3
<1> HIDE DEF y, A
<1>6. Visited \in Seq(A) /\ Len(Visited) = n
  <2>1. active \in Seq(A) /\ n \in 1..Len(active)
    BY <1>2 DEF A
  <2> QED BY <1>4, <1>5, <2>1, ExceptSeq
<1>7. /\ DOMAIN Visited = DOMAIN active /\ Visited[n] = y
      /\ \A i \in DOMAIN active : i # n => Visited[i] = active[i]
  BY <1>1, <1>2, <1>4
<1> QED BY <1>5, <1>6, <1>7 DEF A

\* What the top file requires next.
LEMMA TargetIs ==
    ASSUME LoadInv, ResolverInv, Resolving, Visiting, NEW n, n = Len(active)
    PROVE  /\ Target \in DOMAIN files /\ Target = requirements[active[n].file][active[n].next]
           /\ active[n].next \in 1..Len(requirements[active[n].file])
           /\ Len(requirements[active[n].file]) \in Nat
           /\ files[Target] \in Requires(sources, files[active[n].file]) \cap MalFiles
           /\ marks[Target] # 1
<1>1. /\ outcome = "loaded" /\ WalkHolds
      /\ n \in Nat \ {0} /\ n \in DOMAIN active /\ DOMAIN active = 1..n
      /\ Last(active) = active[n] /\ active[n].file \in DOMAIN files
      /\ \A i \in DOMAIN active : active[i].file \in DOMAIN files
  BY ActiveIs
<1> DEFINE f == active[n].file
           m == active[n].next
<1>2. /\ Range(requirements[f]) \subseteq DOMAIN files
      /\ DOMAIN requirements[f] = 1..Len(requirements[f])
      /\ {files[l] : l \in Range(requirements[f])} = Requires(sources, files[f]) \cap MalFiles
      /\ Len(requirements[f]) \in Nat
      /\ ~OnCycle(sources, files[f])
  BY <1>1, LoadedGraph
<1>3. m \in DOMAIN requirements[f] /\ Target = requirements[f][m]
  BY <1>1 DEF Visiting, Target
<1>4. Target \in Range(requirements[f])
  BY <1>3 DEF Range
<1>5. Target \in DOMAIN files /\ files[Target] \in Requires(sources, files[f]) \cap MalFiles
  BY <1>2, <1>4
<1>6. marks[Target] # 1
  <2> SUFFICES ASSUME marks[Target] = 1 PROVE FALSE
    OBVIOUS
  <2>1. PICK j \in DOMAIN active : active[j].file = Target
    BY <1>1, <1>5 DEF WalkHolds, StackMarked
  <2> DEFINE seed == Requires(sources, files[Target]) \cap MalFiles
             R == ReachableFrom(sources, seed)
  <2>2. seed \subseteq R /\ ClosedUnder(sources, R)
    <3>1. seed \subseteq MalFiles
      OBVIOUS
    <3> HIDE DEF seed
    <3> QED BY <3>1, ReachableClosed
  <2>3. files[Target] \in R
    <3>1. CASE j = n
      <4>1. Target = f
        BY <2>1, <3>1
      <4> HIDE DEF R, f
      <4> QED BY <1>5, <2>2, <4>1
    <3>2. CASE j # n
      <4>1. j < n
        BY <1>1, <3>2
      <4>2. files[f] \in R
        BY <1>1, <2>1, <4>1 DEF WalkHolds, StackDescends
      <4> HIDE DEF R, f
      <4> QED BY <1>5, <2>2, <4>2 DEF ClosedUnder
    <3> QED BY <3>1, <3>2
  <2>4. OnCycle(sources, files[Target])
    BY <2>3 DEF OnCycle
  <2>5. ~OnCycle(sources, files[Target])
    BY <1>1, <1>5, LoadedGraph
  <2> QED BY <2>4, <2>5
<1> QED BY <1>2, <1>3, <1>5, <1>6

\* A requirement that is resolved already is counted as visited.
LEMMA VisitResolvedKept ==
    ASSUME LoadInv, ResolverInv, Visit, marks[Target] = 2 PROVE ResolverInv'
<1> DEFINE n == Len(active)
           f == active[n].file
<1>1. /\ Resolving /\ Visiting /\ active' = Visited
      /\ sources' = sources /\ files' = files /\ requirements' = requirements /\ outcome' = outcome
      /\ marks' = marks /\ exports' = exports /\ resolved' = resolved /\ resolution' = resolution
  BY DEF Visit, load
<1>2. /\ outcome = "loaded" /\ WalkBegun /\ WalkHolds
      /\ n \in Nat \ {0} /\ n \in DOMAIN active /\ DOMAIN active = 1..n
      /\ active \in Seq([file : DOMAIN files, next : Nat]) /\ active # <<>>
      /\ ResolverTyped /\ Verdicts /\ resolution = "resolving"
  BY <1>1, ActiveIs DEF ResolverInv, Resolving
<1>3. /\ active' \in Seq([file : DOMAIN files, next : Nat]) /\ Len(active') = n
      /\ DOMAIN active' = DOMAIN active
      /\ active'[n].file = f /\ active'[n].next = active[n].next + 1
      /\ \A i \in DOMAIN active : /\ active'[i].file = active[i].file
                                  /\ i # n => active'[i] = active[i]
  BY <1>1, <1>2, VisitedIs
<1>4. /\ Target = requirements[f][active[n].next]
      /\ active[n].next \in 1..Len(requirements[f]) /\ Len(requirements[f]) \in Nat
  BY <1>1, TargetIs
<1>5. ResolverTyped'
  BY <1>1, <1>2, <1>3 DEF ResolverTyped, WalkBegun
<1>0. /\ StackMarked /\ StackVisits /\ StackDescends /\ RootVisited
      /\ ResolvedMarked /\ ResolvedInOrder /\ ResolvedChecked
  BY <1>2 DEF WalkHolds
<1> HIDE DEF n
<1>6. StackMarked'
  <2>1. \A i, j \in DOMAIN active' : active'[i].file = active'[j].file => i = j
    BY <1>0, <1>3 DEF StackMarked
  <2>2. ASSUME NEW k \in DOMAIN files
        PROVE  marks[k] = 1 <=> \E i \in DOMAIN active' : active'[i].file = k
    BY <1>0, <1>3 DEF StackMarked
  <2> QED BY <1>1, <2>1, <2>2 DEF StackMarked
<1>7. StackVisits'
  <2> SUFFICES ASSUME NEW i \in DOMAIN active
               PROVE  /\ active'[i].next \in 1..Len(requirements[active[i].file]) + 1
                      /\ \A m \in 1..active'[i].next - 1 :
                           \/ marks[requirements[active[i].file][m]] = 2
                           \/ /\ i < Len(active')
                              /\ active'[i + 1].file = requirements[active[i].file][m]
    <3>1. ASSUME NEW i \in DOMAIN active,
                 /\ active'[i].next \in 1..Len(requirements[active[i].file]) + 1
                 /\ \A m \in 1..active'[i].next - 1 :
                      \/ marks[requirements[active[i].file][m]] = 2
                      \/ /\ i < Len(active')
                         /\ active'[i + 1].file = requirements[active[i].file][m]
          PROVE  Visits(active', requirements, marks, i)
      <4>1. active'[i].file = active[i].file
        BY <1>3
      <4> QED BY <3>1, <4>1 DEF Visits
    <3> QED BY <1>1, <1>3, <3>1 DEF StackVisits
  <2>1. /\ active[i].next \in 1..Len(requirements[active[i].file]) + 1
        /\ \A m \in 1..active[i].next - 1 :
              \/ marks[requirements[active[i].file][m]] = 2
              \/ i < Len(active) /\ active[i + 1].file = requirements[active[i].file][m]
    BY <1>0 DEF StackVisits, Visits
  <2>2. CASE i = n
    <3>1. active'[i].next = active[i].next + 1 /\ active[i].next \in 1..Len(requirements[f])
      BY <1>3, <1>4, <2>2
    <3>2. active'[i].next \in 1..Len(requirements[f]) + 1
      BY <1>4, <3>1
    <3>3. ~(i < Len(active))
      BY <1>2, <2>2 DEF n
    <3>4. ASSUME NEW m \in 1..active'[i].next - 1 PROVE marks[requirements[f][m]] = 2
      <4>1. m = active[n].next \/ m \in 1..active[i].next - 1
        BY <1>4, <2>2, <3>1
      <4> QED BY <1>4, <2>1, <2>2, <3>3, <4>1
    <3> QED BY <2>2, <3>2, <3>4
  <2>3. CASE i # n
    <3>1. active'[i] = active[i] /\ (i < n => i + 1 \in DOMAIN active)
      BY <1>2, <1>3, <2>3
    <3>2. i < n => active'[i + 1].file = active[i + 1].file
      BY <1>3, <3>1
    <3> QED BY <1>3, <2>1, <3>1, <3>2 DEF n
  <2> QED BY <2>2, <2>3
<1>8. StackDescends'
  <2> SUFFICES ASSUME NEW i \in DOMAIN active', NEW j \in DOMAIN active', i < j
               PROVE  files'[active'[j].file] \in
                        ReachableFrom(sources', Requires(sources', files'[active'[i].file]) \cap MalFiles)
    BY DEF StackDescends
  <2>1. /\ i \in DOMAIN active /\ j \in DOMAIN active
        /\ active'[i].file = active[i].file /\ active'[j].file = active[j].file
    BY <1>3
  <2> QED BY <1>0, <1>1, <2>1 DEF StackDescends
<1>9. RootVisited'
  <2>1. active' # <<>> /\ 1 \in DOMAIN active
    BY <1>2, <1>3
  <2> QED BY <1>0, <1>3, <2>1 DEF RootVisited
<1>10. ResolvedMarked' /\ ResolvedInOrder' /\ ResolvedChecked'
  BY <1>0, <1>1 DEF ResolvedMarked, ResolvedInOrder, ResolvedChecked
<1>11. Verdicts'
  BY <1>1, <1>2 DEF Verdicts
<1> QED BY <1>5, <1>6, <1>7, <1>8, <1>9, <1>10, <1>11 DEF ResolverInv, WalkHolds

\* A requirement not yet seen is put on top of the stack.
LEMMA VisitNewKept ==
    ASSUME LoadInv, ResolverInv, Visit, marks[Target] = 0 PROVE ResolverInv'
<1> DEFINE n == Len(active)
           f == active[n].file
           entry == [file |-> Target, next |-> 1]
<1>1. /\ Resolving /\ Visiting /\ active' = Append(Visited, entry)
      /\ marks' = [marks EXCEPT ![Target] = 1]
      /\ sources' = sources /\ files' = files /\ requirements' = requirements /\ outcome' = outcome
      /\ exports' = exports /\ resolved' = resolved /\ resolution' = resolution
  BY DEF Visit, load
<1>2. /\ outcome = "loaded" /\ WalkBegun /\ WalkHolds
      /\ n \in Nat \ {0} /\ n \in DOMAIN active /\ DOMAIN active = 1..n
      /\ active \in Seq([file : DOMAIN files, next : Nat]) /\ active # <<>>
      /\ marks \in [DOMAIN files -> {0, 1, 2}]
      /\ ResolverTyped /\ Verdicts /\ resolution = "resolving"
      /\ \A i \in DOMAIN active : active[i].file \in DOMAIN files /\ active[i].next \in Nat
  BY <1>1, ActiveIs DEF ResolverInv, Resolving
<1>3. /\ Visited \in Seq([file : DOMAIN files, next : Nat]) /\ Len(Visited) = n
      /\ DOMAIN Visited = DOMAIN active
      /\ Visited[n].file = f /\ Visited[n].next = active[n].next + 1
      /\ \A i \in DOMAIN active : /\ Visited[i].file = active[i].file
                                  /\ i # n => Visited[i] = active[i]
  BY <1>2, VisitedIs
<1>4. /\ Target \in DOMAIN files /\ Target = requirements[f][active[n].next]
      /\ active[n].next \in 1..Len(requirements[f]) /\ Len(requirements[f]) \in Nat
      /\ files[Target] \in Requires(sources, files[f]) \cap MalFiles
  BY <1>1, TargetIs
<1>0. /\ StackMarked /\ StackVisits /\ StackDescends /\ RootVisited
      /\ ResolvedMarked /\ ResolvedInOrder /\ ResolvedChecked
  BY <1>2 DEF WalkHolds
<1>e. entry \in [file : DOMAIN files, next : Nat] /\ entry.file = Target /\ entry.next = 1
  BY <1>4
<1> HIDE DEF n, entry
<1>5. /\ active' \in Seq([file : DOMAIN files, next : Nat]) /\ Len(active') = n + 1
      /\ DOMAIN active' = 1..n + 1 /\ active'[n + 1] = entry
      /\ \A i \in DOMAIN active : active'[i] = Visited[i]
      /\ active' # <<>>
  <2> DEFINE A == [file : DOMAIN files, next : Nat]
  <2>1. Visited \in Seq(A) /\ entry \in A /\ active' = Append(Visited, entry)
    BY <1>1, <1>3, <1>e
  <2> HIDE DEF A
  <2>2. /\ active' \in Seq(A) /\ Len(active') = Len(Visited) + 1
        /\ \A i \in 1..Len(Visited) : active'[i] = Visited[i]
        /\ active'[Len(Visited) + 1] = entry
    BY <2>1, AppendProperties
  <2>3. DOMAIN active' = 1..n + 1
    BY <1>3, <2>2, LenProperties
  <2>4. active' # <<>>
    BY <1>2, <2>3
  <2> QED BY <1>2, <1>3, <2>2, <2>3, <2>4 DEF A
<1>6. /\ \A i \in DOMAIN active : active'[i].file = active[i].file
      /\ active'[n + 1].file = Target /\ active'[n + 1].next = 1
      /\ \A i \in DOMAIN active' : i \in DOMAIN active \/ i = n + 1
      /\ \A i \in DOMAIN active : i \in DOMAIN active' /\ i # n + 1 /\ i \in Nat
      /\ n + 1 \in DOMAIN active'
  <2>1. \A i \in 1..n + 1 : i \in 1..n \/ i = n + 1
    BY <1>2
  <2>2. \A i \in 1..n : i \in 1..n + 1 /\ i # n + 1 /\ i \in Nat
    BY <1>2
  <2>3. n + 1 \in 1..n + 1
    BY <1>2
  <2> QED BY <1>2, <1>3, <1>5, <1>e, <2>1, <2>2, <2>3
<1>7. /\ marks' \in [DOMAIN files -> {0, 1, 2}] /\ marks'[Target] = 1
      /\ \A k \in DOMAIN files : k # Target => marks'[k] = marks[k]
      /\ \A k \in DOMAIN files : marks'[k] = 2 <=> marks[k] = 2
  BY <1>1, <1>2, <1>4
<1>8. ResolverTyped'
  BY <1>1, <1>2, <1>5, <1>7 DEF ResolverTyped, WalkBegun
<1>9. StackMarked'
  <2>0. \A i \in DOMAIN active : active[i].file # Target
    <3>1. marks[Target] # 1
      OBVIOUS
    <3> QED BY <1>0, <1>4, <3>1 DEF StackMarked
  <2>1. \A i, j \in DOMAIN active' : active'[i].file = active'[j].file => i = j
    BY <1>0, <1>6, <2>0 DEF StackMarked
  <2>2. ASSUME NEW k \in DOMAIN files
        PROVE  marks'[k] = 1 <=> \E i \in DOMAIN active' : active'[i].file = k
    <3>1. CASE k = Target
      BY <1>6, <1>7, <3>1
    <3>2. CASE k # Target
      <4>1. marks'[k] = marks[k]
        BY <1>7, <3>2
      <4>2. marks[k] = 1 <=> \E i \in DOMAIN active : active[i].file = k
        BY <1>0 DEF StackMarked
      <4>3. (\E i \in DOMAIN active : active[i].file = k) <=> \E i \in DOMAIN active' : active'[i].file = k
        BY <1>6, <3>2
      <4> QED BY <4>1, <4>2, <4>3
    <3> QED BY <3>1, <3>2
  <2> QED BY <1>1, <2>1, <2>2 DEF StackMarked
<1>10. StackVisits'
  <2>1. ASSUME NEW i \in DOMAIN active, i # n PROVE Visits(active', requirements, marks', i)
    <3>1. Visits(active, requirements, marks, i)
      BY <1>0 DEF StackVisits
    <3>2. /\ active'[i] = active[i] /\ i < Len(active) /\ i < Len(active')
          /\ i + 1 \in DOMAIN active /\ active[i].file \in DOMAIN files
      BY <1>2, <1>3, <1>5, <2>1 DEF n
    <3>3. active'[i + 1].file = active[i + 1].file
      BY <1>6, <3>2
    <3>4. ASSUME NEW m \in 1..active[i].next - 1, marks[requirements[active[i].file][m]] = 2
          PROVE  marks'[requirements[active[i].file][m]] = 2
      <4>1. m \in 1..Len(requirements[active[i].file])
        <5>1. /\ active[i].next \in 1..Len(requirements[active[i].file]) + 1
              /\ Len(requirements[active[i].file]) \in Nat
          BY <1>2, <3>1, <3>2, LoadedGraph DEF Visits
        <5> QED BY <5>1
      <4>2. requirements[active[i].file][m] \in DOMAIN files
        <5>1. requirements[active[i].file] \in Seq(DOMAIN files)
          BY <1>2, <3>2, LoadedGraph
        <5> QED BY <4>1, <5>1, ElementOfSeq
      <4> QED BY <1>7, <3>4, <4>2
    <3> QED BY <3>1, <3>2, <3>3, <3>4 DEF Visits
  <2>2. Visits(active', requirements, marks', n)
    <3>1. Visits(active, requirements, marks, n)
      BY <1>0, <1>2 DEF StackVisits
    <3>2. /\ active'[n].next = active[n].next + 1 /\ active'[n].file = f
          /\ n < Len(active') /\ active'[n + 1].file = Target
      BY <1>2, <1>3, <1>5, <1>6
    <3>3. active'[n].next \in 1..Len(requirements[f]) + 1
      BY <1>4, <3>2
    <3>4. ASSUME NEW m \in 1..active'[n].next - 1
          PROVE  marks'[requirements[f][m]] = 2 \/ requirements[f][m] = Target
      <4>1. CASE m = active[n].next
        BY <1>4, <4>1
      <4>2. CASE m # active[n].next
        <5>1. m \in 1..active[n].next - 1 /\ m \in 1..Len(requirements[f])
          BY <1>4, <3>2, <4>2
        <5>2. marks[requirements[f][m]] = 2
          <6>1. ~(n < Len(active))
            BY <1>2 DEF n
          <6> QED BY <3>1, <5>1, <6>1 DEF Visits
        <5>3. requirements[f][m] \in DOMAIN files
          <6>1. requirements[f] \in Seq(DOMAIN files)
            BY <1>2, LoadedGraph
          <6> QED BY <5>1, <6>1, ElementOfSeq
        <5> QED BY <1>7, <5>2, <5>3
      <4> QED BY <4>1, <4>2
    <3> QED BY <3>2, <3>3, <3>4 DEF Visits
  <2>3. Visits(active', requirements, marks', n + 1)
    <3>1. 1 \in 1..Len(requirements[Target]) + 1 /\ 1..1 - 1 = {}
      <4>1. Len(requirements[Target]) \in Nat
        BY <1>2, <1>4, LoadedGraph
      <4> QED BY <4>1
    <3> QED BY <1>6, <3>1 DEF Visits
  <2>4. \A i \in DOMAIN active' : Visits(active', requirements, marks', i)
    BY <1>6, <2>1, <2>2, <2>3
  <2> QED BY <1>1, <2>4 DEF StackVisits
<1>11. StackDescends'
  <2> SUFFICES ASSUME NEW i \in DOMAIN active', NEW j \in DOMAIN active', i < j
               PROVE  files[active'[j].file] \in
                        ReachableFrom(sources, Requires(sources, files[active'[i].file]) \cap MalFiles)
    BY <1>1 DEF StackDescends
  <2>1. i \in DOMAIN active
    BY <1>2, <1>5
  <2> DEFINE g == active[i].file
             seed == Requires(sources, files[g]) \cap MalFiles
             R == ReachableFrom(sources, seed)
  <2>2. active'[i].file = g
    BY <1>6, <2>1
  <2>3. CASE j \in DOMAIN active
    BY <1>0, <1>6, <2>1, <2>2, <2>3 DEF StackDescends
  <2>4. CASE j = n + 1
    <3>1. seed \subseteq R /\ ClosedUnder(sources, R)
      <4>1. seed \subseteq MalFiles
        OBVIOUS
      <4> HIDE DEF seed
      <4> QED BY <4>1, ReachableClosed
    <3>2. files[Target] \in R
      <4>1. CASE i = n
        <5>1. g = f
          BY <4>1
        <5>2. files[Target] \in seed
          BY <1>4, <5>1
        <5> HIDE DEF seed, R
        <5> QED BY <3>1, <5>2
      <4>2. CASE i # n
        <5>1. i < n
          BY <1>2, <2>1, <4>2
        <5>2. files[f] \in R
          BY <1>0, <1>2, <2>1, <5>1 DEF StackDescends
        <5> HIDE DEF R
        <5> QED BY <1>4, <3>1, <5>2 DEF ClosedUnder
      <4> QED BY <4>1, <4>2
    <3> QED BY <1>6, <2>2, <2>4, <3>2
  <2> QED BY <1>6, <2>3, <2>4
<1>12. RootVisited'
  <2>1. 1 \in DOMAIN active
    BY <1>2
  <2> QED BY <1>0, <1>2, <1>5, <1>6, <2>1 DEF RootVisited
<1>13. ResolvedMarked' /\ ResolvedInOrder' /\ ResolvedChecked'
  <2>1. ResolvedMarked'
    BY <1>0, <1>1, <1>7 DEF ResolvedMarked
  <2> QED BY <1>0, <1>1, <2>1 DEF ResolvedInOrder, ResolvedChecked
<1>14. Verdicts'
  BY <1>1, <1>2 DEF Verdicts
<1> QED BY <1>8, <1>9, <1>10, <1>11, <1>12, <1>13, <1>14 DEF ResolverInv, WalkHolds

\* Everything the file on top of the stack requires is resolved once none of it is left to visit.
LEMMA RequirementsResolved ==
    ASSUME LoadInv, ResolverInv, Resolving, ~Visiting, NEW id, id = Last(active).file
    PROVE  /\ id \in DOMAIN files /\ marks[id] = 1
           /\ \A k \in Range(requirements[id]) :
                 /\ k \in DOMAIN files /\ marks[k] = 2 /\ k \in Range(resolved) /\ k # id
                 /\ exports[k] = Some(sources[files[k]].declares)
           /\ Range(requirements[id]) \subseteq Range(resolved)
<1> DEFINE n == Len(active)
<1>1. /\ outcome = "loaded" /\ WalkHolds
      /\ n \in Nat \ {0} /\ n \in DOMAIN active /\ Last(active) = active[n]
      /\ active[n].file \in DOMAIN files /\ active[n].next \in Nat
  BY ActiveIs
<1>2. id = active[n].file /\ id \in DOMAIN files
  BY <1>1
<1>3. /\ DOMAIN requirements[id] = 1..Len(requirements[id]) /\ Len(requirements[id]) \in Nat
      /\ Range(requirements[id]) \subseteq DOMAIN files
  BY <1>1, <1>2, LoadedGraph
<1>4. Visits(active, requirements, marks, n) /\ marks[id] = 1
  BY <1>1, <1>2 DEF WalkHolds, StackVisits, StackMarked
<1>5. active[n].next = Len(requirements[id]) + 1
  <2>1. active[n].next \notin 1..Len(requirements[id])
    BY <1>1, <1>2, <1>3 DEF Visiting
  <2>2. active[n].next \in 1..Len(requirements[id]) + 1
    BY <1>2, <1>4 DEF Visits
  <2> QED BY <1>3, <2>1, <2>2
<1>6. ASSUME NEW m \in DOMAIN requirements[id] PROVE marks[requirements[id][m]] = 2
  <2>1. m \in 1..active[n].next - 1
    BY <1>3, <1>5
  <2>2. ~(n < Len(active))
    BY <1>1
  <2> QED BY <1>2, <1>4, <2>1, <2>2 DEF Visits
<1>7. ASSUME NEW k \in Range(requirements[id])
      PROVE  /\ k \in DOMAIN files /\ marks[k] = 2 /\ k \in Range(resolved) /\ k # id
             /\ exports[k] = Some(sources[files[k]].declares)
  <2>1. marks[k] = 2 /\ k \in DOMAIN files
    BY <1>3, <1>6 DEF Range
  <2>2. k # id
    BY <1>4, <2>1
  <2> QED BY <1>1, <2>1, <2>2 DEF WalkHolds, ResolvedMarked
<1> QED BY <1>2, <1>4, <1>7

\* The imports of a file clash exactly when the code finds that they do.
LEMMA ClashesFound ==
    ASSUME LoadInv, outcome = "loaded", NEW id \in DOMAIN files,
           \A k \in Range(requirements[id]) : exports[k] = Some(sources[files[k]].declares)
    PROVE  Clashes(sources, files[id]) <=>
             ImportsMeet(id) \/ Imported(id) \cap Text(id).declares # {}
<1> DEFINE D(k) == sources[files[k]].declares
           required == Requires(sources, files[id]) \cap MalFiles
<1>1. /\ DOMAIN requirements[id] = 1..Len(requirements[id]) /\ Len(requirements[id]) \in Nat
      /\ IsInjective(requirements[id]) /\ Range(requirements[id]) \subseteq DOMAIN files
      /\ {files[l] : l \in Range(requirements[id])} = required
      /\ \A k, l \in DOMAIN files : files[k] = files[l] => k = l
  BY LoadedGraph
<1>2. \A k \in Range(requirements[id]) : UNION exports[k] = D(k)
  BY DEF Some
<1>3. \A i \in DOMAIN requirements[id] : requirements[id][i] \in Range(requirements[id])
  BY DEF Range
<1>4. ImportsMeet(id) <=> \E i, j \in DOMAIN requirements[id] :
                              i # j /\ D(requirements[id][i]) \cap D(requirements[id][j]) # {}
  <2>1. \A i \in DOMAIN requirements[id] : i \in Nat /\ UNION exports[requirements[id][i]] = D(requirements[id][i])
    <3>1. \A i \in DOMAIN requirements[id] : i \in Nat
      BY <1>1
    <3> HIDE DEF D
    <3> QED BY <1>2, <1>3, <3>1
  <2>0. \A i \in DOMAIN requirements[id] : i \in Nat
    BY <2>1, Zenon
  <2>2. ASSUME ImportsMeet(id)
        PROVE  \E i, j \in DOMAIN requirements[id] :
                  i # j /\ D(requirements[id][i]) \cap D(requirements[id][j]) # {}
    <3>1. PICK i \in DOMAIN requirements[id] : \E j \in DOMAIN requirements[id] :
              i < j /\ (UNION exports[requirements[id][i]]) \cap (UNION exports[requirements[id][j]]) # {}
      BY <2>2 DEF ImportsMeet
    <3>2. PICK j \in DOMAIN requirements[id] :
              i < j /\ (UNION exports[requirements[id][i]]) \cap (UNION exports[requirements[id][j]]) # {}
      BY <3>1
    <3>3. D(requirements[id][i]) \cap D(requirements[id][j]) # {}
      BY <2>1, <3>2, Zenon
    <3>4. i # j
      <4>1. i < j /\ i \in Nat
        BY <2>0, <3>2, Zenon
      <4> QED BY <4>1
    <3> HIDE DEF D
    <3> QED BY <3>3, <3>4
  <2>3. ASSUME NEW i \in DOMAIN requirements[id], NEW j \in DOMAIN requirements[id], i # j,
               D(requirements[id][i]) \cap D(requirements[id][j]) # {}
        PROVE  ImportsMeet(id)
    <3>1. (UNION exports[requirements[id][i]]) \cap (UNION exports[requirements[id][j]]) # {}
      BY <2>1, <2>3, Zenon
    <3>2. (UNION exports[requirements[id][j]]) \cap (UNION exports[requirements[id][i]]) # {}
      <4> DEFINE A == UNION exports[requirements[id][i]]
                 B == UNION exports[requirements[id][j]]
      <4>1. A \cap B # {}
        BY <3>1
      <4> HIDE DEF A, B
      <4>2. B \cap A # {}
        BY <4>1
      <4> QED BY <4>2 DEF A, B
    <3>3. i < j \/ j < i
      <4>1. i \in Nat /\ j \in Nat /\ i # j
        BY <2>0, <2>3, Zenon
      <4> QED BY <4>1
    <3> QED BY <3>1, <3>2, <3>3 DEF ImportsMeet
  <2> HIDE DEF D
  <2> QED BY <2>2, <2>3
<1>5. (\E i, j \in DOMAIN requirements[id] :
            i # j /\ D(requirements[id][i]) \cap D(requirements[id][j]) # {})
        <=> \E k, l \in Range(requirements[id]) : k # l /\ D(k) \cap D(l) # {}
  <2>1. \A i, j \in DOMAIN requirements[id] : i # j => requirements[id][i] # requirements[id][j]
    BY <1>1 DEF IsInjective
  <2>2. \A k \in Range(requirements[id]) : \E i \in DOMAIN requirements[id] : requirements[id][i] = k
    BY DEF Range
  <2>3. ASSUME NEW k \in Range(requirements[id]), NEW l \in Range(requirements[id]), k # l,
               D(k) \cap D(l) # {}
        PROVE  \E i, j \in DOMAIN requirements[id] :
                  i # j /\ D(requirements[id][i]) \cap D(requirements[id][j]) # {}
    <3>1. PICK i \in DOMAIN requirements[id] : requirements[id][i] = k
      BY <2>2
    <3>2. PICK j \in DOMAIN requirements[id] : requirements[id][j] = l
      BY <2>2
    <3>3. i # j /\ D(requirements[id][i]) \cap D(requirements[id][j]) # {}
      BY <2>3, <3>1, <3>2
    <3> HIDE DEF D
    <3> QED BY <3>3
  <2> HIDE DEF D
  <2> QED BY <1>3, <2>1, <2>3
<1>6. (\E k, l \in Range(requirements[id]) : k # l /\ D(k) \cap D(l) # {})
        <=> \E one, other \in required :
               one # other /\ sources[one].declares \cap sources[other].declares # {}
  <2>1. \A k \in Range(requirements[id]) : files[k] \in required
    BY <1>1
  <2>2. \A one \in required : \E k \in Range(requirements[id]) : files[k] = one
    BY <1>1
  <2>3. \A k, l \in Range(requirements[id]) : files[k] = files[l] <=> k = l
    BY <1>1
  <2> HIDE DEF required
  <2> QED BY <2>1, <2>2, <2>3
<1>7. Imported(id) \cap Text(id).declares # {}
        <=> \E one \in required : sources[one].declares \cap sources[files[id]].declares # {}
  <2>1. ASSUME NEW x
        PROVE  x \in Imported(id) <=> \E k \in Range(requirements[id]) : x \in D(k)
    <3>1. ASSUME NEW k \in Range(requirements[id]), x \in D(k) PROVE x \in Imported(id)
      <4>1. D(k) \in exports[k]
        BY DEF Some
      <4>2. D(k) \in UNION {exports[dependency] : dependency \in Range(requirements[id])}
        BY <4>1
      <4> QED BY <3>1, <4>2, Zenon DEF Imported
    <3>2. ASSUME x \in Imported(id) PROVE \E k \in Range(requirements[id]) : x \in D(k)
      <4>1. PICK known \in UNION {exports[dependency] : dependency \in Range(requirements[id])} :
                x \in known
        BY <3>2, Zenon DEF Imported
      <4>2. PICK k \in Range(requirements[id]) : known \in exports[k]
        BY <4>1
      <4>3. known = D(k)
        BY <4>2 DEF Some
      <4> QED BY <4>1, <4>3
    <3> QED BY <3>1, <3>2
  <2>2. \A k \in Range(requirements[id]) : files[k] \in required
    BY <1>1
  <2>3. \A one \in required : \E k \in Range(requirements[id]) : files[k] = one
    BY <1>1
  <2>4. Text(id).declares = sources[files[id]].declares
    BY DEF Text
  <2>5. ASSUME NEW one \in required, sources[one].declares \cap sources[files[id]].declares # {}
        PROVE  Imported(id) \cap Text(id).declares # {}
    <3>1. PICK k \in Range(requirements[id]) : files[k] = one
      BY <2>3
    <3>2. PICK x \in sources[one].declares : x \in sources[files[id]].declares
      BY <2>5
    <3>3. x \in Imported(id)
      BY <2>1, <3>1, <3>2
    <3> QED BY <2>4, <3>2, <3>3
  <2>6. ASSUME Imported(id) \cap Text(id).declares # {}
        PROVE  \E one \in required : sources[one].declares \cap sources[files[id]].declares # {}
    <3>1. PICK x \in Imported(id) : x \in sources[files[id]].declares
      BY <2>4, <2>6
    <3>2. PICK k \in Range(requirements[id]) : x \in D(k)
      BY <2>1, <3>1
    <3>3. files[k] \in required /\ x \in sources[files[k]].declares
      BY <2>2, <3>2
    <3> HIDE DEF required
    <3> QED BY <3>1, <3>3
  <2> HIDE DEF required
  <2> QED BY <2>5, <2>6
<1> QED BY <1>4, <1>5, <1>6, <1>7 DEF Clashes

\* An error leaves everything else as it was.
LEMMA StopKept ==
    ASSUME LoadInv, ResolverInv, Resolving, NEW error \in {"conflict", "main"}, Stop(error),
           error = "conflict" => \E path \in Program(sources, Root) : Clashes(sources, path),
           error = "main" => \E path \in Program(sources, Root) \ {Root} : sources[path].main
    PROVE  ResolverInv'
<1>1. /\ resolution' = error
      /\ sources' = sources /\ files' = files /\ requirements' = requirements /\ outcome' = outcome
      /\ active' = active /\ marks' = marks /\ exports' = exports /\ resolved' = resolved
  BY DEF Stop, load
<1>2. ResolverTyped /\ WalkBegun /\ WalkHolds /\ outcome = "loaded"
  BY ActiveIs DEF ResolverInv
<1>3. WalkBegun'
  BY <1>1 DEF WalkBegun
<1>4. ResolverTyped'
  BY <1>1, <1>2, <1>3 DEF ResolverTyped
<1>5. WalkHolds'
  <2>1. /\ StackMarked /\ StackVisits /\ StackDescends /\ RootVisited
        /\ ResolvedMarked /\ ResolvedInOrder /\ ResolvedChecked
    BY <1>2 DEF WalkHolds
  <2>2. StackMarked'
    BY <1>1, <2>1 DEF StackMarked
  <2>3. StackVisits'
    BY <1>1, <2>1 DEF StackVisits
  <2>4. StackDescends'
    BY <1>1, <2>1 DEF StackDescends
  <2>5. RootVisited' /\ ResolvedMarked'
    BY <1>1, <2>1 DEF RootVisited, ResolvedMarked
  <2>6. ResolvedInOrder' /\ ResolvedChecked'
    BY <1>1, <2>1 DEF ResolvedInOrder, ResolvedChecked
  <2> QED BY <2>2, <2>3, <2>4, <2>5, <2>6 DEF WalkHolds
<1>6. Verdicts'
  BY <1>1 DEF Verdicts
<1> QED BY <1>4, <1>5, <1>6 DEF ResolverInv

\* The file on top is resolved and taken off the stack.
LEMMA PopKept ==
    ASSUME LoadInv, ResolverInv, Resolving, ~Visiting, NEW id, id = Last(active).file,
           active' = Front(active), exports' = [exports EXCEPT ![id] = Some(Text(id).declares)],
           resolved' = Append(resolved, id), marks' = [marks EXCEPT ![id] = 2],
           UNCHANGED <<load, resolution>>,
           ~Clashes(sources, files[id]), id = 1 \/ ~sources[files[id]].main
    PROVE  ResolverInv'
<1> DEFINE n == Len(active)
           z == Len(resolved)
<1>1. /\ sources' = sources /\ files' = files /\ requirements' = requirements /\ outcome' = outcome
      /\ resolution' = resolution
  BY DEF load
<1>2. /\ outcome = "loaded" /\ WalkBegun /\ WalkHolds
      /\ n \in Nat \ {0} /\ n \in DOMAIN active /\ DOMAIN active = 1..n
      /\ Last(active) = active[n]
      /\ active \in Seq([file : DOMAIN files, next : Nat]) /\ active # <<>>
      /\ marks \in [DOMAIN files -> {0, 1, 2}]
      /\ exports \in [DOMAIN files -> {None} \cup {Some(known) : known \in SUBSET Names}]
      /\ resolved \in Seq(DOMAIN files) /\ DOMAIN resolved = 1..z /\ z \in Nat
      /\ Range(resolved) \subseteq DOMAIN files
      /\ ResolverTyped /\ Verdicts /\ resolution = "resolving"
      /\ \A i \in DOMAIN active : active[i].file \in DOMAIN files
  BY ActiveIs DEF ResolverInv, Resolving
<1>0. /\ StackMarked /\ StackVisits /\ StackDescends /\ RootVisited
      /\ ResolvedMarked /\ ResolvedInOrder /\ ResolvedChecked
  BY <1>2 DEF WalkHolds
<1>3. /\ id \in DOMAIN files /\ marks[id] = 1 /\ id = active[n].file
      /\ Range(requirements[id]) \subseteq Range(resolved)
  BY <1>2, RequirementsResolved
<1>4. id \notin Range(resolved)
  BY <1>0, <1>3 DEF ResolvedMarked
<1> HIDE DEF n, z
<1>5. /\ DOMAIN active' = 1..n - 1 /\ Len(active') = n - 1
      /\ \A i \in 1..n - 1 : active'[i] = active[i]
      /\ active' \in Seq([file : DOMAIN files, next : Nat])
      /\ active' = <<>> <=> n = 1
  <2> DEFINE A == [file : DOMAIN files, next : Nat]
  <2>1. active \in Seq(A) /\ n - 1 \in 0..Len(active)
    BY <1>2 DEF n
  <2> HIDE DEF A
  <2>2. active' = SubSeq(active, 1, n - 1)
    BY DEF Front, n
  <2>3. active' \in Seq(A) /\ Len(active') = n - 1 /\ \A i \in 1..n - 1 : active'[i] = active[i]
    <3>1. 1..n - 1 \subseteq 1..Len(active)
      BY <2>1
    <3>2. \A i \in 1..n - 1 : active[i] \in A
      BY <2>1, <3>1, ElementOfSeq
    <3>3. active' = [i \in 1..n - 1 |-> active[i]]
      <4>1. SubSeq(active, 1, n - 1) = [i \in 1..(1 + (n - 1) - 1) |-> active[i + 1 - 1]]
        BY <1>2, <2>1
      <4>2. 1 + (n - 1) - 1 = n - 1 /\ \A i \in 1..n - 1 : i + 1 - 1 = i
        BY <1>2
      <4> QED BY <2>2, <4>1, <4>2
    <3>4. n - 1 \in Nat
      BY <1>2
    <3> QED BY <3>2, <3>3, <3>4
  <2>4. DOMAIN active' = 1..n - 1
    BY <2>3, LenProperties
  <2>5. active' = <<>> <=> n = 1
    <3>1. active' = <<>> <=> Len(active') = 0
      BY <2>3, EmptySeq
    <3> QED BY <1>2, <2>3, <3>1
  <2> QED BY <2>3, <2>4, <2>5 DEF A
<1>6. /\ \A i \in 1..n - 1 : i \in DOMAIN active /\ i # n /\ i \in Nat
      /\ \A i \in DOMAIN active : i # n => i \in 1..n - 1
  BY <1>2
<1>7. /\ marks' \in [DOMAIN files -> {0, 1, 2}] /\ marks'[id] = 2
      /\ \A k \in DOMAIN files : k # id => marks'[k] = marks[k]
      /\ exports'[id] = Some(sources[files[id]].declares)
      /\ \A k \in DOMAIN files : k # id => exports'[k] = exports[k]
  BY <1>2, <1>3 DEF Text
<1>8. exports' \in [DOMAIN files -> {None} \cup {Some(known) : known \in SUBSET Names}]
  <2>1. sources[files[id]] \in Texts
    BY <1>2, <1>3, LoadedGraph
  <2>2. Text(id).declares \in SUBSET Names
    BY <2>1, NamesAssumption DEF Text
  <2>3. Some(Text(id).declares) \in {Some(known) : known \in SUBSET Names}
    BY <2>2
  <2> QED BY <1>2, <2>3
<1>9. /\ resolved' \in Seq(DOMAIN files) /\ DOMAIN resolved' = 1..z + 1 /\ resolved'[z + 1] = id
      /\ \A i \in 1..z : resolved'[i] = resolved[i]
      /\ \A x : x \in Range(resolved') <=> x \in Range(resolved) \/ x = id
  <2>1. /\ resolved' \in Seq(DOMAIN files) /\ Len(resolved') = z + 1 /\ resolved'[z + 1] = id
        /\ \A i \in 1..z : resolved'[i] = resolved[i]
    BY <1>2, <1>3, AppendProperties DEF z
  <2>2. DOMAIN resolved' = 1..z + 1
    BY <2>1, LenProperties
  <2>3. \A i \in 1..z + 1 : i \in 1..z \/ i = z + 1
    BY <1>2
  <2>4. (\A i \in 1..z : i \in 1..z + 1) /\ z + 1 \in 1..z + 1
    BY <1>2
  <2> QED BY <1>2, <2>1, <2>2, <2>3, <2>4 DEF Range
<1>10. ResolverTyped'
  BY <1>1, <1>2, <1>5, <1>7, <1>8, <1>9 DEF ResolverTyped, WalkBegun
<1>11. StackMarked'
  <2>1. \A i, j \in DOMAIN active' : active'[i].file = active'[j].file => i = j
    BY <1>0, <1>5, <1>6 DEF StackMarked
  <2>2. ASSUME NEW k \in DOMAIN files
        PROVE  marks'[k] = 1 <=> \E i \in DOMAIN active' : active'[i].file = k
    <3>1. CASE k = id
      <4>1. \A i \in DOMAIN active' : active'[i].file # id
        BY <1>0, <1>2, <1>3, <1>5, <1>6 DEF StackMarked
      <4> QED BY <1>7, <3>1, <4>1
    <3>2. CASE k # id
      <4>1. marks'[k] = marks[k]
        BY <1>7, <3>2
      <4>2. marks[k] = 1 <=> \E i \in DOMAIN active : active[i].file = k
        BY <1>0 DEF StackMarked
      <4>3. (\E i \in DOMAIN active : active[i].file = k) <=> \E i \in DOMAIN active' : active'[i].file = k
        BY <1>3, <1>5, <1>6, <3>2
      <4> QED BY <4>1, <4>2, <4>3
    <3> QED BY <3>1, <3>2
  <2> QED BY <1>1, <2>1, <2>2 DEF StackMarked
<1>12. StackVisits'
  <2>1. ASSUME NEW i \in 1..n - 1 PROVE Visits(active', requirements, marks', i)
    <3> DEFINE g == active[i].file
    <3>1. /\ Visits(active, requirements, marks, i) /\ active'[i] = active[i]
          /\ g \in DOMAIN files
      BY <1>0, <1>2, <1>5, <1>6 DEF StackVisits
    <3>2. ASSUME NEW m \in 1..active[i].next - 1
          PROVE  \/ marks'[requirements[g][m]] = 2
                 \/ i < Len(active') /\ active'[i + 1].file = requirements[g][m]
      <4>1. requirements[g][m] \in DOMAIN files
        <5>1. requirements[g] \in Seq(DOMAIN files) /\ Len(requirements[g]) \in Nat
          BY <1>2, <3>1, LoadedGraph
        <5>2. active[i].next \in 1..Len(requirements[g]) + 1
          BY <3>1 DEF Visits
        <5>3. m \in 1..Len(requirements[g])
          BY <5>1, <5>2
        <5> QED BY <5>1, <5>3, ElementOfSeq
      <4>2. CASE marks[requirements[g][m]] = 2
        BY <1>7, <4>1, <4>2
      <4>3. CASE i < Len(active) /\ active[i + 1].file = requirements[g][m]
        <5>1. CASE i + 1 = n
          BY <1>3, <1>7, <4>3, <5>1
        <5>2. CASE i + 1 # n
          <6>1. i < n - 1 /\ i + 1 \in 1..n - 1
            BY <1>2, <5>2
          <6> QED BY <1>5, <4>3, <6>1
        <5> QED BY <5>1, <5>2
      <4> QED BY <3>1, <4>2, <4>3 DEF Visits
    <3> QED BY <3>1, <3>2 DEF Visits
  <2> QED BY <1>1, <1>5, <2>1 DEF StackVisits
<1>13. StackDescends'
  <2> SUFFICES ASSUME NEW i \in DOMAIN active', NEW j \in DOMAIN active', i < j
               PROVE  files[active'[j].file] \in
                        ReachableFrom(sources, Requires(sources, files[active'[i].file]) \cap MalFiles)
    BY <1>1 DEF StackDescends
  <2>1. /\ i \in DOMAIN active /\ j \in DOMAIN active
        /\ active'[i] = active[i] /\ active'[j] = active[j]
    BY <1>5, <1>6
  <2> QED BY <1>0, <2>1 DEF StackDescends
<1>14. RootVisited'
  <2>1. active[1].file = 1
    BY <1>0, <1>2 DEF RootVisited
  <2>2. CASE n = 1
    <3>1. marks'[1] = 2
      BY <1>3, <1>7, <2>1, <2>2
    <3> QED BY <1>5, <2>2, <3>1 DEF RootVisited
  <2>3. CASE n # 1
    <3>1. 1 \in 1..n - 1
      BY <1>2, <2>3
    <3>2. active'[1].file = 1
      BY <1>5, <2>1, <3>1
    <3> QED BY <1>5, <2>3, <3>2 DEF RootVisited
  <2> QED BY <2>2, <2>3
<1>15. ResolvedMarked'
  <2>1. ASSUME NEW k \in DOMAIN files
        PROVE  /\ marks'[k] = 2 <=> k \in Range(resolved')
               /\ exports'[k] = IF marks'[k] = 2 THEN Some(sources[files[k]].declares) ELSE None
    BY <1>0, <1>7, <1>9 DEF ResolvedMarked
  <2> QED BY <1>1, <2>1 DEF ResolvedMarked
<1>16. ResolvedInOrder'
  <2>1. IsInjective(resolved')
    <3>1. \A i \in 1..z : resolved'[i] # id
      BY <1>2, <1>4, <1>9 DEF Range
    <3>2. \A i, j \in 1..z : resolved[i] = resolved[j] => i = j
      BY <1>0, <1>2 DEF ResolvedInOrder, IsInjective
    <3>3. \A i \in 1..z + 1 : i \in 1..z \/ i = z + 1
      BY <1>2
    <3>4. /\ DOMAIN resolved' = 1..z + 1 /\ resolved'[z + 1] = id
          /\ \A i \in 1..z : resolved'[i] = resolved[i]
      BY <1>9, Zenon
    <3>5. ASSUME NEW i \in 1..z + 1, NEW j \in 1..z + 1, resolved'[i] = resolved'[j]
          PROVE  i = j
      <4>1. CASE i \in 1..z /\ j \in 1..z
        BY <3>2, <3>4, <3>5, <4>1, Zenon
      <4>2. CASE i = z + 1 \/ j = z + 1
        BY <3>1, <3>3, <3>4, <3>5, <4>2, Zenon
      <4> QED BY <3>3, <4>1, <4>2
    <3>6. \A i, j \in DOMAIN resolved' : resolved'[i] = resolved'[j] => i = j
      <4> SUFFICES ASSUME NEW i \in DOMAIN resolved', NEW j \in DOMAIN resolved', resolved'[i] = resolved'[j]
                   PROVE  i = j
        OBVIOUS
      <4>1. i \in 1..z + 1 /\ j \in 1..z + 1
        BY <3>4
      <4> QED BY <3>5, <4>1
    <3>7. ASSUME NEW s, \A i, j \in DOMAIN s : s[i] = s[j] => i = j
          PROVE  IsInjective(s)
      BY <3>7 DEF IsInjective
    <3> QED BY <3>6, <3>7, Zenon
  <2>2. ASSUME NEW i \in 1..z
        PROVE  Range(requirements[resolved'[i]]) \subseteq {resolved'[j] : j \in 1..i - 1}
    <3>1. Range(requirements[resolved[i]]) \subseteq {resolved[j] : j \in 1..i - 1}
      BY <1>0, <1>2 DEF ResolvedInOrder
    <3>2. 1..i - 1 \subseteq 1..z
      BY <1>2
    <3>3. \A j \in 1..i - 1 : resolved'[j] = resolved[j]
      BY <1>9, <3>2
    <3>4. resolved'[i] = resolved[i]
      BY <1>9
    <3>5. {resolved[j] : j \in 1..i - 1} = {resolved'[j] : j \in 1..i - 1}
      BY <3>3
    <3> QED BY <3>1, <3>4, <3>5
  <2>3. Range(requirements[resolved'[z + 1]]) \subseteq {resolved'[j] : j \in 1..(z + 1) - 1}
    <3>1. (z + 1) - 1 = z
      BY <1>2
    <3>2. Range(resolved) = {resolved'[j] : j \in 1..z}
      BY <1>2, <1>9 DEF Range
    <3> QED BY <1>3, <1>9, <3>1, <3>2
  <2>4. \A i \in 1..z + 1 : i \in 1..z \/ i = z + 1
    BY <1>2
  <2>5. \A i \in DOMAIN resolved' :
            Range(requirements[resolved'[i]]) \subseteq {resolved'[j] : j \in 1..i - 1}
    BY <1>9, <2>2, <2>3, <2>4
  <2> QED BY <1>1, <2>1, <2>5 DEF ResolvedInOrder
<1>17. ResolvedChecked'
  <2>1. \A k \in Range(resolved') : ~Clashes(sources, files[k]) /\ (k = 1 \/ ~sources[files[k]].main)
    BY <1>0, <1>9 DEF ResolvedChecked
  <2> QED BY <1>1, <2>1 DEF ResolvedChecked
<1>18. Verdicts'
  BY <1>1, <1>2 DEF Verdicts
<1> QED BY <1>10, <1>11, <1>12, <1>13, <1>14, <1>15, <1>16, <1>17, <1>18 DEF ResolverInv, WalkHolds

\* The file on top is resolved, or has an error of its own.
LEMMA ResolveFileKept == ASSUME LoadInv, ResolverInv, ResolveFile PROVE ResolverInv'
<1> DEFINE id == Last(active).file
<1>1. Resolving /\ ~Visiting
  BY DEF ResolveFile
<1>2. /\ id \in DOMAIN files
      /\ \A k \in Range(requirements[id]) : exports[k] = Some(sources[files[k]].declares)
  <2>1. id = Last(active).file
    OBVIOUS
  <2> HIDE DEF id
  <2> QED BY <1>1, <2>1, RequirementsResolved
<1>3. outcome = "loaded"
  BY <1>1, ActiveIs
<1>4. Clashes(sources, files[id]) <=> ImportsMeet(id) \/ Imported(id) \cap Text(id).declares # {}
  <2> HIDE DEF id
  <2> QED BY <1>2, <1>3, ClashesFound
<1>5. /\ \A k, l \in DOMAIN files : files[k] = files[l] => k = l
      /\ files[1] = Root /\ 1 \in DOMAIN files /\ files[id] \in Program(sources, Root)
  BY <1>2, <1>3, LoadedGraph
<1>6. ~\E dependency \in Range(requirements[id]) : exports[dependency] = None
  BY <1>2 DEF Some, None
<1>7. CASE ImportsMeet(id)
  <2>1. Stop("conflict")
    BY <1>6, <1>7 DEF ResolveFile
  <2>2. \E path \in Program(sources, Root) : Clashes(sources, path)
    BY <1>4, <1>5, <1>7
  <2> HIDE DEF id
  <2> QED BY <1>1, <2>1, <2>2, StopKept
<1>8. CASE ~ImportsMeet(id) /\ id # 1 /\ Text(id).main
  <2>1. Stop("main")
    BY <1>6, <1>8 DEF ResolveFile
  <2>2. files[id] # Root
    BY <1>2, <1>5, <1>8
  <2>3. \E path \in Program(sources, Root) \ {Root} : sources[path].main
    BY <1>5, <1>8, <2>2 DEF Text
  <2> HIDE DEF id
  <2> QED BY <1>1, <2>1, <2>3, StopKept
<1>9. CASE ~ImportsMeet(id) /\ ~(id # 1 /\ Text(id).main) /\ Imported(id) \cap Text(id).declares # {}
  <2>1. Stop("conflict")
    BY <1>6, <1>9 DEF ResolveFile
  <2>2. \E path \in Program(sources, Root) : Clashes(sources, path)
    BY <1>4, <1>5, <1>9
  <2> HIDE DEF id
  <2> QED BY <1>1, <2>1, <2>2, StopKept
<1>10. CASE ~ImportsMeet(id) /\ ~(id # 1 /\ Text(id).main) /\ ~(Imported(id) \cap Text(id).declares # {})
  <2>1. /\ active' = Front(active)
        /\ exports' = [exports EXCEPT ![id] = Some(Text(id).declares)]
        /\ resolved' = Append(resolved, id)
        /\ marks' = [marks EXCEPT ![id] = 2]
        /\ UNCHANGED <<load, resolution>>
    BY <1>6, <1>10 DEF ResolveFile
  <2>2. ~Clashes(sources, files[id]) /\ (id = 1 \/ ~sources[files[id]].main)
    BY <1>4, <1>10 DEF Text
  <2>3. id = Last(active).file
    OBVIOUS
  <2> HIDE DEF id
  <2> QED BY <1>1, <2>1, <2>2, <2>3, PopKept
<1> QED BY <1>7, <1>8, <1>9, <1>10

\* The walk ends when the stack is empty.
LEMMA FinishResolvingKept == ASSUME ResolverInv, FinishResolving PROVE ResolverInv'
<1>1. /\ resolution = "resolving" /\ active = <<>> /\ resolution' = "resolved"
      /\ sources' = sources /\ files' = files /\ requirements' = requirements /\ outcome' = outcome
      /\ active' = active /\ marks' = marks /\ exports' = exports /\ resolved' = resolved
  BY DEF FinishResolving, load
<1>2. WalkBegun /\ WalkBegun' /\ ResolverTyped /\ WalkHolds
  BY <1>1 DEF WalkBegun, ResolverInv
<1>3. ResolverTyped'
  BY <1>1, <1>2 DEF ResolverTyped
<1>4. WalkHolds'
  <2>1. /\ StackMarked /\ StackVisits /\ StackDescends /\ RootVisited
        /\ ResolvedMarked /\ ResolvedInOrder /\ ResolvedChecked
    BY <1>2 DEF WalkHolds
  <2>2. StackMarked'
    BY <1>1, <2>1 DEF StackMarked
  <2>3. StackVisits'
    BY <1>1, <2>1 DEF StackVisits
  <2>4. StackDescends'
    BY <1>1, <2>1 DEF StackDescends
  <2>5. RootVisited' /\ ResolvedMarked'
    BY <1>1, <2>1 DEF RootVisited, ResolvedMarked
  <2>6. ResolvedInOrder' /\ ResolvedChecked'
    BY <1>1, <2>1 DEF ResolvedInOrder, ResolvedChecked
  <2> QED BY <2>2, <2>3, <2>4, <2>5, <2>6 DEF WalkHolds
<1>5. Verdicts'
  BY <1>1 DEF Verdicts
<1> QED BY <1>3, <1>4, <1>5 DEF ResolverInv

AnalysisInv == LoadInv /\ ResolverInv

\* Both invariants hold at first.
LEMMA AnalysisInitial == Init => AnalysisInv
  BY LoadInitial, ResolverInit DEF Init, AnalysisInv

\* Every step of loading and resolving keeps both invariants.
LEMMA AnalysisStep == AnalysisInv /\ [Next]_vars => AnalysisInv'
<1> SUFFICES ASSUME AnalysisInv, [Next]_vars PROVE AnalysisInv'
  OBVIOUS
<1>1. LoadInv /\ ResolverInv
  BY DEF AnalysisInv
<1>v. ASSUME Visit PROVE Target \in DOMAIN files /\ marks[Target] \in {0, 2}
  <2>1. Resolving /\ Visiting
    BY <1>v DEF Visit
  <2>2. marks[Target] # 1 /\ Target \in DOMAIN files
    BY <1>1, <2>1, TargetIs
  <2>3. marks \in [DOMAIN files -> {0, 1, 2}]
    BY <1>1, <2>1, ActiveIs
  <2> QED BY <2>2, <2>3
<1>2. LoadInv'
  <2>1. ASSUME Visit PROVE UNCHANGED load
    <3>1. marks[Target] = 0 \/ marks[Target] = 2
      BY <1>v, <2>1
    <3>2. CASE marks[Target] = 0
      BY <2>1, <3>2 DEF Visit, load
    <3>3. CASE marks[Target] = 2
      BY <2>1, <3>3 DEF Visit, load
    <3> QED BY <3>1, <3>2, <3>3
  <2>2. StartResolving => UNCHANGED load
    BY DEF StartResolving
  <2>3. ResolveFile => UNCHANGED load
    BY DEF ResolveFile, Stop
  <2>4. FinishResolving => UNCHANGED load
    BY DEF FinishResolving
  <2>5. UNCHANGED vars => UNCHANGED load
    BY DEF vars
  <2>6. [NextLoad]_load
    BY <2>1, <2>2, <2>3, <2>4, <2>5 DEF Next
  <2> QED BY <1>1, <2>6, LoadStep
<1>3. ResolverInv'
  <2>1. CASE NextLoad /\ UNCHANGED resolve
    BY <1>1, <2>1, LoadKeepsResolver
  <2>2. CASE StartResolving
    BY <1>1, <2>2, StartResolvingKept
  <2>3. CASE Visit
    <3>1. marks[Target] = 0 \/ marks[Target] = 2
      BY <1>v, <2>3
    <3> QED BY <1>1, <2>3, <3>1, VisitNewKept, VisitResolvedKept
  <2>4. CASE ResolveFile
    BY <1>1, <2>4, ResolveFileKept
  <2>5. CASE FinishResolving
    BY <1>1, <2>5, FinishResolvingKept
  <2>6. CASE UNCHANGED vars
    <3>1. /\ sources' = sources /\ files' = files /\ requirements' = requirements /\ outcome' = outcome
          /\ active' = active /\ marks' = marks /\ exports' = exports /\ resolved' = resolved
          /\ resolution' = resolution
      BY <2>6 DEF vars, load, resolve
    <3>2. ResolverTyped'
      BY <1>1, <3>1 DEF ResolverInv, ResolverTyped, WalkBegun
    <3>3. ASSUME WalkBegun' PROVE WalkHolds'
      <4>1. WalkBegun
        BY <3>1, <3>3 DEF WalkBegun
      <4>2. /\ StackMarked /\ StackVisits /\ StackDescends /\ RootVisited
            /\ ResolvedMarked /\ ResolvedInOrder /\ ResolvedChecked
        BY <1>1, <4>1 DEF ResolverInv, WalkHolds
      <4>3. StackMarked'
        BY <3>1, <4>2 DEF StackMarked
      <4>4. StackVisits'
        BY <3>1, <4>2 DEF StackVisits
      <4>5. StackDescends'
        BY <3>1, <4>2 DEF StackDescends
      <4>6. RootVisited' /\ ResolvedMarked'
        BY <3>1, <4>2 DEF RootVisited, ResolvedMarked
      <4>7. ResolvedInOrder' /\ ResolvedChecked'
        BY <3>1, <4>2 DEF ResolvedInOrder, ResolvedChecked
      <4> QED BY <4>3, <4>4, <4>5, <4>6, <4>7 DEF WalkHolds
    <3>4. Verdicts'
      BY <1>1, <3>1 DEF ResolverInv, Verdicts
    <3> QED BY <3>2, <3>3, <3>4 DEF ResolverInv
  <2> QED BY <2>1, <2>2, <2>3, <2>4, <2>5, <2>6 DEF Next
<1> QED BY <1>2, <1>3 DEF AnalysisInv

-----------------------------------------------------------------------------
(* What the invariant says of the properties.                               *)

\* The invariants bound the variables.
LEMMA AnalysisTypes == AnalysisInv => TypeOK
<1> SUFFICES ASSUME AnalysisInv PROVE TypeOK
  OBVIOUS
<1>1. LoadTypeOK
  BY LoadTypes DEF AnalysisInv
<1>2. ResolverTyped
  BY DEF AnalysisInv, ResolverInv
<1>3. CASE WalkBegun
  BY <1>1, <1>2, <1>3 DEF ResolverTyped, WalkBegun, TypeOK
<1>4. CASE ~WalkBegun
  <2>1. active = <<>> /\ marks = <<>> /\ exports = <<>> /\ resolved = <<>>
    BY <1>2, <1>4 DEF ResolverTyped
  <2>2. resolution \in {"waiting", "syntax"}
    BY <1>2, <1>4 DEF ResolverTyped, WalkBegun
  <2>3. <<>> \in Seq([file : DOMAIN files, next : Nat]) /\ <<>> \in Seq(DOMAIN files)
    BY EmptySeq
  <2>4. /\ <<>> \in [DOMAIN <<>> -> {0, 1, 2}]
        /\ <<>> \in [DOMAIN <<>> -> {None} \cup {Some(known) : known \in SUBSET Names}]
    <3>1. DOMAIN <<>> = {} /\ <<>> = [k \in {} |-> k]
      OBVIOUS
    <3> QED BY <3>1
  <2> QED BY <1>1, <2>1, <2>2, <2>3, <2>4 DEF TypeOK
<1> QED BY <1>3, <1>4

\* The invariants place every file after what it requires.
LEMMA AnalysisOrder == AnalysisInv => DependenciesFirst
<1> SUFFICES ASSUME AnalysisInv PROVE DependenciesFirst
  OBVIOUS
<1>1. ResolverTyped /\ (WalkBegun => WalkHolds)
  BY DEF AnalysisInv, ResolverInv
<1>2. resolution \notin {"panic", "cyclic"}
  BY <1>1 DEF ResolverTyped
<1>3. ASSUME NEW i \in DOMAIN resolved
      PROVE  /\ exports[resolved[i]] # None
             /\ Range(requirements[resolved[i]]) \subseteq {resolved[j] : j \in 1..i - 1}
  <2>1. WalkBegun
    <3>1. DOMAIN <<>> = {}
      OBVIOUS
    <3> QED BY <1>1, <3>1 DEF ResolverTyped
  <2>2. ResolvedMarked /\ ResolvedInOrder /\ resolved \in Seq(DOMAIN files)
    BY <1>1, <2>1 DEF ResolverTyped, WalkHolds
  <2>3. resolved[i] \in Range(resolved) /\ resolved[i] \in DOMAIN files
    BY <2>2, LenProperties, ElementOfSeq DEF Range
  <2>4. exports[resolved[i]] = Some(sources[files[resolved[i]]].declares)
    BY <2>2, <2>3 DEF ResolvedMarked
  <2>5. exports[resolved[i]] # None
    BY <2>4 DEF Some, None
  <2> QED BY <2>2, <2>5 DEF ResolvedInOrder
<1> QED BY <1>2, <1>3 DEF DependenciesFirst

\* The invariants resolve every file of the program once.
LEMMA AnalysisResolves == AnalysisInv => ResolvesEveryFileOnce
<1> SUFFICES ASSUME AnalysisInv PROVE ResolvesEveryFileOnce
  OBVIOUS
<1>1. LoadInv /\ ResolverTyped /\ (WalkBegun => WalkHolds) /\ Verdicts
  BY DEF AnalysisInv, ResolverInv
<1>2. \A path : ClashesIn(path) <=> Clashes(sources, path)
  BY DEF ClashesIn, Clashes, Declared
<1>3. IsInjective(resolved)
  <2>1. CASE WalkBegun
    BY <1>1, <2>1 DEF WalkHolds, ResolvedInOrder
  <2>2. CASE ~WalkBegun
    <3>1. resolved = <<>> /\ DOMAIN <<>> = {}
      BY <1>1, <2>2 DEF ResolverTyped
    <3> QED BY <3>1 DEF IsInjective
  <2> QED BY <2>1, <2>2
<1>4. ASSUME resolution = "resolved"
      PROVE  /\ {files[id] : id \in Range(resolved)} = Program(sources, Root)
             /\ \A path \in Program(sources, Root) :
                   ~ClashesIn(path) /\ (path = Root \/ ~sources[path].main)
  <2>1. /\ outcome = "loaded" /\ WalkHolds /\ active = <<>> /\ resolved \in Seq(DOMAIN files)
    BY <1>1, <1>4 DEF WalkBegun, ResolverTyped, Verdicts
  <2>2. /\ RootVisited /\ ResolvedMarked /\ ResolvedInOrder /\ ResolvedChecked
    BY <2>1 DEF WalkHolds
  <2>3. /\ Range(files) = Program(sources, Root) /\ 1 \in DOMAIN files /\ files[1] = Root
        /\ \A k \in DOMAIN files :
              {files[l] : l \in Range(requirements[k])} = Requires(sources, files[k]) \cap MalFiles
    BY <1>1, <2>1, LoadedGraph
  <2> DEFINE done == {files[id] : id \in Range(resolved)}
  <2>4. /\ Range(resolved) \subseteq DOMAIN files
        /\ DOMAIN resolved = 1..Len(resolved) /\ Len(resolved) \in Nat
    BY <2>1, LenProperties, ElementOfSeq DEF Range
  <2>5. Root \in done
    <3>1. 1 \in Range(resolved)
      BY <2>1, <2>2, <2>3 DEF RootVisited, ResolvedMarked
    <3> QED BY <2>3, <3>1
  <2>6. ClosedUnder(sources, done)
    <3> SUFFICES ASSUME NEW k \in Range(resolved)
                 PROVE  Requires(sources, files[k]) \cap MalFiles \subseteq done
      BY DEF ClosedUnder
    <3>1. PICK i \in DOMAIN resolved : resolved[i] = k
      BY DEF Range
    <3>2. Range(requirements[k]) \subseteq {resolved[j] : j \in 1..i - 1}
      BY <2>2, <3>1 DEF ResolvedInOrder
    <3>3. 1..i - 1 \subseteq DOMAIN resolved
      BY <2>4
    <3>4. Range(requirements[k]) \subseteq Range(resolved)
      BY <3>2, <3>3 DEF Range
    <3> QED BY <2>3, <2>4, <3>4
  <2>7. Program(sources, Root) \subseteq done
    <3>1. {Root} \subseteq done
      BY <2>5
    <3> HIDE DEF done
    <3> QED BY <2>6, <3>1, ReachableLeast DEF Program
  <2>8. done \subseteq Program(sources, Root)
    BY <2>3, <2>4 DEF Range
  <2>9. ASSUME NEW path \in Program(sources, Root)
        PROVE  ~ClashesIn(path) /\ (path = Root \/ ~sources[path].main)
    <3>1. PICK k \in Range(resolved) : files[k] = path
      BY <2>7
    <3> QED BY <1>2, <2>2, <2>3, <3>1 DEF ResolvedChecked
  <2> QED BY <2>7, <2>8, <2>9
<1>5. /\ resolution = "conflict" => \E path \in Program(sources, Root) : ClashesIn(path)
      /\ resolution = "main" => \E path \in Program(sources, Root) \ {Root} : sources[path].main
      /\ resolution = "syntax" => \E path \in Program(sources, Root) : ~sources[path].body
  BY <1>1, <1>2 DEF Verdicts
<1> QED BY <1>3, <1>4, <1>5 DEF ResolvesEveryFileOnce

-----------------------------------------------------------------------------
(* Temporary directories. *)

\* A build in one of its four states, with a name of its own process that was taken from
\* the counter of that process.
BuildIn(x, counter) ==
    \/ x = Idle
    \/ \E p \in Processes, a \in Nat : x = Trying(p, a)
    \/ \E p \in Processes, a \in Nat, k \in Nat : x = Named(p, a, <<p, k>>) /\ k < counter[p]
    \/ \E p \in Processes, k \in Nat : x = Holding(p, <<p, k>>) /\ k < counter[p]

HasName(x) == x.state \in {"named", "holding"}

\* The directories of process p left behind, with a number below bound.
LeftBelow(held, p, bound) ==
    {n \in DOMAIN held : n[1] = p /\ held[n] = NoBuild /\ n[2] < bound}

DirectoriesTyped ==
    /\ next \in [Processes -> Nat]
    /\ DOMAIN builds = Builds
    /\ \A b \in Builds : BuildIn(builds[b], next)
    /\ IsFiniteSet(DOMAIN directories) /\ DOMAIN directories \subseteq Processes \X Nat
    /\ \A n \in DOMAIN directories : directories[n] \in Builds \cup {NoBuild}

\* No two builds have one name, whatever they have done with it so far.
NamesDistinct ==
    \A b, c \in Builds :
        b # c /\ HasName(builds[b]) /\ HasName(builds[c]) => builds[b].name # builds[c].name

\* A directory that is not left behind is the one its owner holds.
OwnersHold ==
    \A n \in DOMAIN directories :
        directories[n] # NoBuild =>
            builds[directories[n]].state = "holding" /\ builds[directories[n]].name = n

\* A build has failed at most once for each directory left behind under a number it has passed.
FailuresPassed ==
    \A b \in Builds :
        /\ builds[b].state = "trying" =>
              builds[b].attempts <=
                Cardinality(LeftBelow(directories, builds[b].process, next[builds[b].process]))
        /\ builds[b].state = "named" =>
              builds[b].attempts <=
                Cardinality(LeftBelow(directories, builds[b].process, builds[b].name[2]))

DirectoriesInv ==
    DirectoriesTyped /\ NamesDistinct /\ OwnersHold /\ OwnDirectoryOnly /\ FailuresPassed

\* What each of the four states of a build is made of.
LEMMA Shapes ==
    ASSUME NEW x, NEW counter, BuildIn(x, counter), counter \in [Processes -> Nat]
    PROVE  /\ x.state \in {"idle", "trying", "named", "holding"}
           /\ x.state = "idle" <=> x = Idle
           /\ x # Idle => x.process \in Processes
           /\ x.state = "trying" => x.attempts \in Nat /\ x = Trying(x.process, x.attempts)
           /\ x.state = "named" => x.attempts \in Nat
           /\ HasName(x) => /\ x.name \in Processes \X Nat /\ x.name[1] = x.process
                            /\ x.name[2] < counter[x.process]
<1>1. CASE x = Idle
  BY <1>1 DEF Idle, HasName
<1>2. CASE \E p \in Processes, a \in Nat : x = Trying(p, a)
  BY <1>2 DEF Idle, HasName, Trying
<1>3. CASE \E p \in Processes, a \in Nat, k \in Nat : x = Named(p, a, <<p, k>>) /\ k < counter[p]
  <2>1. PICK p \in Processes, a \in Nat, k \in Nat : x = Named(p, a, <<p, k>>) /\ k < counter[p]
    BY <1>3
  <2>2. x.state = "named" /\ x.process = p /\ x.attempts = a /\ x.name = <<p, k>> /\ x # Idle
    BY <2>1 DEF Named, Idle
  <2> QED BY <2>1, <2>2 DEF HasName
<1>4. CASE \E p \in Processes, k \in Nat : x = Holding(p, <<p, k>>) /\ k < counter[p]
  <2>1. PICK p \in Processes, k \in Nat : x = Holding(p, <<p, k>>) /\ k < counter[p]
    BY <1>4
  <2>2. x.state = "holding" /\ x.process = p /\ x.name = <<p, k>> /\ x # Idle
    BY <2>1 DEF Holding, Idle
  <2> QED BY <2>1, <2>2 DEF HasName
<1> QED BY <1>1, <1>2, <1>3, <1>4 DEF BuildIn

\* The directories left behind are finitely many.
LEMMA LeftFinite ==
    ASSUME NEW held, NEW p, NEW bound, IsFiniteSet(DOMAIN held)
    PROVE  /\ IsFiniteSet(LeftBelow(held, p, bound))
           /\ Cardinality(LeftBelow(held, p, bound)) \in Nat
<1>1. LeftBelow(held, p, bound) \subseteq DOMAIN held
  BY DEF LeftBelow
<1> QED BY <1>1, FS_Subset, FS_CardinalityType

\* More directories left behind, or a higher number, are no fewer.
LEMMA LeftGrows ==
    ASSUME NEW held, NEW after, NEW p, NEW bound, NEW higher, IsFiniteSet(DOMAIN after),
           LeftBelow(held, p, bound) \subseteq LeftBelow(after, p, higher)
    PROVE  /\ Cardinality(LeftBelow(held, p, bound)) \in Nat
           /\ Cardinality(LeftBelow(after, p, higher)) \in Nat
           /\ Cardinality(LeftBelow(held, p, bound)) <= Cardinality(LeftBelow(after, p, higher))
<1>1. IsFiniteSet(LeftBelow(after, p, higher))
  BY LeftFinite
<1> QED BY <1>1, FS_Subset, FS_CardinalityType

\* No build has begun and no directory exists at first.
LEMMA DirectoriesInit == InitDirectories => DirectoriesInv
<1> SUFFICES ASSUME InitDirectories PROVE DirectoriesInv
  OBVIOUS
<1>1. DOMAIN directories = {} /\ IsFiniteSet(DOMAIN directories)
  BY FS_EmptySet DEF InitDirectories
<1>2. \A b \in Builds : builds[b] = Idle /\ builds[b].state = "idle"
  BY DEF InitDirectories, Idle
<1>3. DirectoriesTyped
  BY <1>1, <1>2 DEF InitDirectories, DirectoriesTyped, BuildIn
<1> QED BY <1>1, <1>2, <1>3
        DEF DirectoriesInv, NamesDistinct, OwnersHold, OwnDirectoryOnly, FailuresPassed, HasName

-----------------------------------------------------------------------------
(* One build moves from x to y and nothing else changes but its directory. *)

\* A build begins: it has no name yet.
LEMMA BeginBuildKept == ASSUME DirectoriesInv, NEW b \in Builds, NEW p \in Processes, BeginBuild(b, p)
                   PROVE  DirectoriesInv'
<1>1. /\ DirectoriesTyped /\ NamesDistinct /\ OwnersHold /\ OwnDirectoryOnly /\ FailuresPassed
      /\ next' = next /\ directories' = directories /\ builds[b] = Idle
      /\ builds' = [builds EXCEPT ![b] = Trying(p, 0)]
  BY DEF DirectoriesInv, BeginBuild
<1>2. /\ DOMAIN builds' = Builds /\ builds'[b] = Trying(p, 0)
      /\ \A c \in Builds : c # b => builds'[c] = builds[c]
  BY <1>1 DEF DirectoriesTyped
<1>3. /\ Trying(p, 0).state = "trying" /\ Trying(p, 0).process = p /\ Trying(p, 0).attempts = 0
      /\ Idle.state = "idle" /\ ~HasName(Trying(p, 0)) /\ BuildIn(Trying(p, 0), next)
  BY DEF Trying, Idle, HasName, BuildIn
<1>4. DirectoriesTyped'
  BY <1>1, <1>2, <1>3 DEF DirectoriesTyped
<1>5. NamesDistinct'
  BY <1>1, <1>2, <1>3 DEF NamesDistinct
<1>6. OwnersHold'
  <2> SUFFICES ASSUME NEW n \in DOMAIN directories, directories[n] # NoBuild
               PROVE  builds'[directories[n]].state = "holding" /\ builds'[directories[n]].name = n
    BY <1>1 DEF OwnersHold
  <2>1. directories[n] \in Builds
    BY <1>1 DEF DirectoriesTyped
  <2> QED BY <1>1, <1>2, <1>3, <2>1 DEF OwnersHold
<1>7. OwnDirectoryOnly'
  BY <1>1, <1>2, <1>3 DEF OwnDirectoryOnly
<1>8. FailuresPassed'
  <2>1. Cardinality(LeftBelow(directories, p, next[p])) \in Nat
    BY <1>1, LeftFinite DEF DirectoriesTyped
  <2>2. 0 <= Cardinality(LeftBelow(directories, p, next[p]))
    BY <2>1
  <2> QED BY <1>1, <1>2, <1>3, <2>2 DEF FailuresPassed
<1> QED BY <1>4, <1>5, <1>6, <1>7, <1>8 DEF DirectoriesInv

\* A build takes a number no other build of its process can have.
LEMMA TakeKept == ASSUME DirectoriesInv, NEW b \in Builds, TakeNumber(b) PROVE DirectoriesInv'
<1> DEFINE p == builds[b].process
           a == builds[b].attempts
           y == Named(p, a, <<p, next[p]>>)
<1>1. /\ DirectoriesTyped /\ NamesDistinct /\ OwnersHold /\ OwnDirectoryOnly /\ FailuresPassed
      /\ next' = [next EXCEPT ![p] = next[p] + 1] /\ directories' = directories
      /\ builds[b].state = "trying"
      /\ builds' = [builds EXCEPT ![b] = y]
  BY DEF DirectoriesInv, TakeNumber, Taken
<1>2. next \in [Processes -> Nat] /\ \A c \in Builds : BuildIn(builds[c], next)
  BY <1>1 DEF DirectoriesTyped
<1>3. p \in Processes /\ a \in Nat /\ next[p] \in Nat
  BY <1>1, <1>2, Shapes DEF Idle
<1>4. /\ DOMAIN builds' = Builds /\ builds'[b] = y
      /\ \A c \in Builds : c # b => builds'[c] = builds[c]
  BY <1>1 DEF DirectoriesTyped
<1>5. /\ next' \in [Processes -> Nat] /\ next'[p] = next[p] + 1
      /\ \A q \in Processes : next[q] <= next'[q] /\ next[q] \in Nat /\ next'[q] \in Nat
  BY <1>1, <1>2, <1>3
<1>6. /\ y.state = "named" /\ y.process = p /\ y.attempts = a /\ y.name = <<p, next[p]>>
      /\ HasName(y)
  BY DEF Named, HasName
<1> HIDE DEF y
<1>7. BuildIn(y, next')
  <2>1. y = Named(p, a, <<p, next[p]>>) /\ next[p] < next'[p]
    BY <1>3, <1>5 DEF y
  <2> QED BY <1>3, <2>1 DEF BuildIn
<1>8. ASSUME NEW c \in Builds PROVE BuildIn(builds[c], next')
  <2>1. BuildIn(builds[c], next)
    BY <1>2
  <2>2. \A q \in Processes, k \in Nat : k < next[q] => k < next'[q]
    BY <1>5
  <2> QED BY <2>1, <2>2 DEF BuildIn
<1> HIDE DEF p, a
<1>9. DirectoriesTyped'
  BY <1>1, <1>4, <1>5, <1>7, <1>8 DEF DirectoriesTyped
<1>10. NamesDistinct'
  <2>1. ASSUME NEW c \in Builds, c # b, HasName(builds[c]) PROVE builds[c].name # y.name
    <3>1. /\ builds[c].name[1] = builds[c].process
          /\ builds[c].name[2] < next[builds[c].process] /\ builds[c].name[2] \in Nat
      BY <1>2, <2>1, Shapes
    <3>2. y.name[1] = p /\ y.name[2] = next[p]
      BY <1>6
    <3> QED BY <1>3, <3>1, <3>2
  <2> QED BY <1>1, <1>4, <1>6, <2>1 DEF NamesDistinct
<1>11. OwnersHold'
  <2> SUFFICES ASSUME NEW n \in DOMAIN directories, directories[n] # NoBuild
               PROVE  builds'[directories[n]].state = "holding" /\ builds'[directories[n]].name = n
    BY <1>1 DEF OwnersHold
  <2>1. directories[n] \in Builds
    BY <1>1 DEF DirectoriesTyped
  <2> QED BY <1>1, <1>4, <2>1 DEF OwnersHold
<1>12. OwnDirectoryOnly'
  BY <1>1, <1>4, <1>6 DEF OwnDirectoryOnly
<1>13. FailuresPassed'
  <2>1. y.attempts <= Cardinality(LeftBelow(directories, y.process, y.name[2]))
    BY <1>1, <1>6 DEF FailuresPassed, p, a
  <2>2. ASSUME NEW c \in Builds, builds[c].state = "trying"
        PROVE  builds[c].attempts <=
                 Cardinality(LeftBelow(directories, builds[c].process, next'[builds[c].process]))
    <3> DEFINE q == builds[c].process
    <3>1. q \in Processes /\ builds[c].attempts \in Nat
      BY <1>2, <2>2, Shapes DEF Idle
    <3>2. LeftBelow(directories, q, next[q]) \subseteq LeftBelow(directories, q, next'[q])
      <4>1. DOMAIN directories \subseteq Processes \X Nat
        BY <1>1 DEF DirectoriesTyped
      <4>2. \A n \in DOMAIN directories : n[2] < next[q] => n[2] < next'[q]
        BY <1>5, <3>1, <4>1
      <4> QED BY <4>2 DEF LeftBelow
    <3>3. IsFiniteSet(DOMAIN directories)
      BY <1>1 DEF DirectoriesTyped
    <3>4. builds[c].attempts <= Cardinality(LeftBelow(directories, q, next[q]))
      BY <1>1, <2>2 DEF FailuresPassed
    <3> HIDE DEF q
    <3> QED BY <3>1, <3>2, <3>3, <3>4, LeftGrows DEF q
  <2> QED BY <1>1, <1>4, <1>6, <2>1, <2>2 DEF FailuresPassed
<1> QED BY <1>9, <1>10, <1>11, <1>12, <1>13 DEF DirectoriesInv

\* A directory is created under a name that no directory has.
LEMMA CreateKept == ASSUME DirectoriesInv, NEW b \in Builds, CreateDirectory(b) PROVE DirectoriesInv'
<1> DEFINE p == builds[b].process
           name == builds[b].name
           y == Holding(p, name)
<1>1. /\ DirectoriesTyped /\ NamesDistinct /\ OwnersHold /\ OwnDirectoryOnly /\ FailuresPassed
      /\ next' = next /\ name \notin DOMAIN directories /\ builds[b].state = "named"
      /\ directories' = [n \in DOMAIN directories \cup {name} |->
                            IF n = name THEN b ELSE directories[n]]
      /\ builds' = [builds EXCEPT ![b] = y]
  BY DEF DirectoriesInv, CreateDirectory, Exists
<1>2. next \in [Processes -> Nat] /\ \A c \in Builds : BuildIn(builds[c], next)
  BY <1>1 DEF DirectoriesTyped
<1>3. /\ p \in Processes /\ name \in Processes \X Nat /\ name[1] = p /\ name[2] < next[p]
      /\ HasName(builds[b])
  BY <1>1, <1>2, Shapes DEF Idle, HasName
<1>4. /\ DOMAIN builds' = Builds /\ builds'[b] = y
      /\ \A c \in Builds : c # b => builds'[c] = builds[c]
  BY <1>1 DEF DirectoriesTyped
<1>5. y.state = "holding" /\ y.process = p /\ y.name = name /\ HasName(y)
  BY DEF Holding, HasName
<1>6. BuildIn(y, next)
  <2>1. PICK k \in Nat : name = <<p, k>> /\ k < next[p]
    BY <1>3
  <2> QED BY <1>3, <2>1 DEF BuildIn
<1>7. /\ DOMAIN directories' = DOMAIN directories \cup {name} /\ directories'[name] = b
      /\ \A n \in DOMAIN directories : n # name /\ directories'[n] = directories[n]
      /\ b # NoBuild
  BY <1>1, DirectoryAssumption
<1> HIDE DEF y, p, name
<1>8. DirectoriesTyped'
  <2>1. IsFiniteSet(DOMAIN directories')
    BY <1>1, <1>7, FS_AddElement DEF DirectoriesTyped
  <2>2. \A n \in DOMAIN directories' : directories'[n] \in Builds \cup {NoBuild}
    BY <1>1, <1>7 DEF DirectoriesTyped
  <2>3. DOMAIN directories' \subseteq Processes \X Nat
    BY <1>1, <1>3, <1>7 DEF DirectoriesTyped
  <2>4. \A c \in Builds : BuildIn(builds'[c], next)
    BY <1>1, <1>4, <1>6 DEF DirectoriesTyped
  <2> QED BY <1>1, <1>2, <1>4, <2>1, <2>2, <2>3, <2>4 DEF DirectoriesTyped
<1>9. NamesDistinct'
  BY <1>1, <1>3, <1>4, <1>5 DEF NamesDistinct, name
<1>10. OwnersHold'
  <2> SUFFICES ASSUME NEW n \in DOMAIN directories', directories'[n] # NoBuild
               PROVE  /\ builds'[directories'[n]].state = "holding"
                      /\ builds'[directories'[n]].name = n
    BY DEF OwnersHold
  <2>1. CASE n = name
    BY <1>4, <1>5, <1>7, <2>1
  <2>2. CASE n # name
    <3>1. n \in DOMAIN directories /\ directories'[n] = directories[n]
      BY <1>7, <2>2
    <3>2. directories[n] \in Builds /\ builds[directories[n]].state = "holding"
          /\ builds[directories[n]].name = n
      BY <1>1, <3>1 DEF DirectoriesTyped, OwnersHold
    <3>3. directories[n] # b
      BY <1>1, <3>2
    <3> QED BY <1>4, <3>1, <3>2, <3>3
  <2> QED BY <2>1, <2>2
<1>11. OwnDirectoryOnly'
  BY <1>1, <1>4, <1>5, <1>7 DEF OwnDirectoryOnly
<1>12. FailuresPassed'
  <2>1. \A q, bound : LeftBelow(directories', q, bound) = LeftBelow(directories, q, bound)
    BY <1>7 DEF LeftBelow
  <2>2. ASSUME NEW c \in Builds, builds'[c].state \in {"trying", "named"}
        PROVE  c # b /\ builds'[c] = builds[c]
    BY <1>4, <1>5, <2>2
  <2>3. ASSUME NEW c \in Builds, builds'[c].state = "trying"
        PROVE  builds'[c].attempts <=
                 Cardinality(LeftBelow(directories', builds'[c].process, next'[builds'[c].process]))
    <3>1. c # b /\ builds'[c] = builds[c] /\ builds[c].state = "trying"
      BY <2>2, <2>3
    <3>2. builds[c].attempts <=
            Cardinality(LeftBelow(directories, builds[c].process, next[builds[c].process]))
      BY <1>1, <3>1 DEF FailuresPassed
    <3>3. LeftBelow(directories', builds[c].process, next[builds[c].process])
            = LeftBelow(directories, builds[c].process, next[builds[c].process])
      BY <2>1
    <3> QED BY <1>1, <3>1, <3>2, <3>3
  <2>4. ASSUME NEW c \in Builds, builds'[c].state = "named"
        PROVE  builds'[c].attempts <=
                 Cardinality(LeftBelow(directories', builds'[c].process, builds'[c].name[2]))
    <3>1. c # b /\ builds'[c] = builds[c] /\ builds[c].state = "named"
      BY <2>2, <2>4
    <3>2. builds[c].attempts <=
            Cardinality(LeftBelow(directories, builds[c].process, builds[c].name[2]))
      BY <1>1, <3>1 DEF FailuresPassed
    <3>3. LeftBelow(directories', builds[c].process, builds[c].name[2])
            = LeftBelow(directories, builds[c].process, builds[c].name[2])
      BY <2>1
    <3> QED BY <3>1, <3>2, <3>3
  <2> QED BY <2>3, <2>4 DEF FailuresPassed
<1> QED BY <1>8, <1>9, <1>10, <1>11, <1>12 DEF DirectoriesInv

\* A name that exists is given up for the next number.
LEMMA RetryKept == ASSUME DirectoriesInv, NEW b \in Builds, Retry(b) PROVE DirectoriesInv'
<1> DEFINE p == builds[b].process
           a == builds[b].attempts
           name == builds[b].name
           y == Trying(p, a + 1)
<1>1. /\ DirectoriesTyped /\ NamesDistinct /\ OwnersHold /\ OwnDirectoryOnly /\ FailuresPassed
      /\ next' = next /\ name \in DOMAIN directories /\ builds[b].state = "named"
      /\ directories' = directories /\ builds' = [builds EXCEPT ![b] = y]
  BY DEF DirectoriesInv, Retry, Exists
<1>2. next \in [Processes -> Nat] /\ \A c \in Builds : BuildIn(builds[c], next)
  BY <1>1 DEF DirectoriesTyped
<1>3. /\ p \in Processes /\ name \in Processes \X Nat /\ name[1] = p /\ name[2] < next[p]
      /\ HasName(builds[b]) /\ a \in Nat
  BY <1>1, <1>2, Shapes DEF Idle, HasName
<1>4. /\ DOMAIN builds' = Builds /\ builds'[b] = y
      /\ \A c \in Builds : c # b => builds'[c] = builds[c]
  BY <1>1 DEF DirectoriesTyped
<1>5. y.state = "trying" /\ y.process = p /\ y.attempts = a + 1 /\ ~HasName(y) /\ BuildIn(y, next)
  <2>1. y.state = "trying" /\ y.process = p /\ y.attempts = a + 1
    BY DEF Trying
  <2>2. BuildIn(y, next)
    <3>1. a + 1 \in Nat
      BY <1>3
    <3> HIDE DEF p
    <3> QED BY <1>3, <3>1 DEF BuildIn
  <2> QED BY <2>1, <2>2 DEF HasName
<1>6. directories[name] = NoBuild
  <2> SUFFICES ASSUME directories[name] # NoBuild PROVE FALSE
    OBVIOUS
  <2>1. /\ directories[name] \in Builds /\ builds[directories[name]].state = "holding"
        /\ builds[directories[name]].name = name
    BY <1>1 DEF DirectoriesTyped, OwnersHold
  <2>2. directories[name] # b /\ HasName(builds[directories[name]])
    BY <1>1, <2>1 DEF HasName
  <2> QED BY <1>1, <1>3, <2>1, <2>2 DEF NamesDistinct
<1> HIDE DEF y
<1>7. DirectoriesTyped'
  BY <1>1, <1>4, <1>5 DEF DirectoriesTyped
<1>8. NamesDistinct'
  BY <1>1, <1>4, <1>5 DEF NamesDistinct
<1>9. OwnersHold'
  <2> SUFFICES ASSUME NEW n \in DOMAIN directories, directories[n] # NoBuild
               PROVE  builds'[directories[n]].state = "holding" /\ builds'[directories[n]].name = n
    BY <1>1 DEF OwnersHold
  <2>1. directories[n] \in Builds /\ builds[directories[n]].state = "holding"
    BY <1>1 DEF DirectoriesTyped, OwnersHold
  <2> QED BY <1>1, <1>4, <2>1 DEF OwnersHold
<1>10. OwnDirectoryOnly'
  BY <1>1, <1>4, <1>5 DEF OwnDirectoryOnly
<1>11. FailuresPassed'
  <2> DEFINE before == LeftBelow(directories, p, name[2])
             after == LeftBelow(directories, p, next[p])
  <2>1. name \in after /\ name \notin before
    BY <1>1, <1>3, <1>6 DEF LeftBelow
  <2>2. before \subseteq after
    <3>1. \A n \in DOMAIN directories : n[2] \in Nat
      BY <1>1 DEF DirectoriesTyped
    <3>2. name[2] \in Nat /\ next[p] \in Nat
      BY <1>2, <1>3
    <3>3. \A n \in DOMAIN directories : n[2] < name[2] => n[2] < next[p]
      BY <1>3, <3>1, <3>2
    <3> QED BY <3>3 DEF LeftBelow
  <2>3. IsFiniteSet(after)
    BY <1>1, LeftFinite DEF DirectoriesTyped
  <2>4. a <= Cardinality(before)
    BY <1>1 DEF FailuresPassed
  <2>5. a + 1 <= Cardinality(after)
    <3> HIDE DEF before, after, a, p, name
    <3>1. IsFiniteSet(before) /\ Cardinality(before) <= Cardinality(after)
          /\ Cardinality(before) # Cardinality(after)
      BY <2>1, <2>2, <2>3, FS_Subset
    <3>2. Cardinality(before) \in Nat /\ Cardinality(after) \in Nat
      BY <2>3, <3>1, FS_CardinalityType
    <3> QED BY <1>3, <2>4, <3>1, <3>2
  <2> QED BY <1>1, <1>4, <1>5, <2>5 DEF FailuresPassed
<1> QED BY <1>7, <1>8, <1>9, <1>10, <1>11 DEF DirectoriesInv

\* A build that has failed too often ends without a directory.
LEMMA GiveUpKept == ASSUME DirectoriesInv, NEW b \in Builds, GiveUp(b) PROVE DirectoriesInv'
<1>1. /\ DirectoriesTyped /\ NamesDistinct /\ OwnersHold /\ OwnDirectoryOnly /\ FailuresPassed
      /\ next' = next /\ builds[b].state \in {"trying", "named"}
      /\ directories' = directories /\ builds' = [builds EXCEPT ![b] = Idle]
  BY DEF DirectoriesInv, GiveUp
<1>2. /\ DOMAIN builds' = Builds /\ builds'[b] = Idle
      /\ \A c \in Builds : c # b => builds'[c] = builds[c]
  BY <1>1 DEF DirectoriesTyped
<1>3. Idle.state = "idle" /\ ~HasName(Idle) /\ BuildIn(Idle, next)
  BY DEF Idle, HasName, BuildIn
<1>4. DirectoriesTyped'
  BY <1>1, <1>2, <1>3 DEF DirectoriesTyped
<1>5. NamesDistinct'
  BY <1>1, <1>2, <1>3 DEF NamesDistinct
<1>6. OwnersHold'
  <2> SUFFICES ASSUME NEW n \in DOMAIN directories, directories[n] # NoBuild
               PROVE  builds'[directories[n]].state = "holding" /\ builds'[directories[n]].name = n
    BY <1>1 DEF OwnersHold
  <2>1. directories[n] \in Builds /\ builds[directories[n]].state = "holding"
    BY <1>1 DEF DirectoriesTyped, OwnersHold
  <2>2. directories[n] # b
    BY <1>1, <2>1
  <2> QED BY <1>1, <1>2, <2>1, <2>2 DEF OwnersHold
<1>7. OwnDirectoryOnly'
  BY <1>1, <1>2, <1>3 DEF OwnDirectoryOnly
<1>8. FailuresPassed'
  BY <1>1, <1>2, <1>3 DEF FailuresPassed
<1> QED BY <1>4, <1>5, <1>6, <1>7, <1>8 DEF DirectoriesInv

\* What is left behind stays: counts of failures stay accounted for.
LEMMA PassedKept ==
    ASSUME FailuresPassed, DirectoriesTyped,
           IsFiniteSet(DOMAIN directories'),
           \A n \in DOMAIN directories : directories[n] = NoBuild =>
               n \in DOMAIN directories' /\ directories'[n] = NoBuild,
           \A c \in Builds :
               \/ builds'[c] = Idle
               \/ /\ builds'[c] = builds[c]
                  /\ builds[c].state = "trying" =>
                        next'[builds[c].process] = next[builds[c].process]
    PROVE  FailuresPassed'
<1>1. \A q, bound : LeftBelow(directories, q, bound) \subseteq LeftBelow(directories', q, bound)
  BY DEF LeftBelow
<1>2. next \in [Processes -> Nat] /\ \A c \in Builds : BuildIn(builds[c], next)
  BY DEF DirectoriesTyped
<1>3. Idle.state = "idle"
  BY DEF Idle
<1>4. ASSUME NEW c \in Builds, builds'[c].state = "trying"
      PROVE  builds'[c].attempts <=
               Cardinality(LeftBelow(directories', builds'[c].process, next'[builds'[c].process]))
  <2> DEFINE q == builds[c].process
             before == Cardinality(LeftBelow(directories, q, next[q]))
             after == Cardinality(LeftBelow(directories', q, next[q]))
  <2>1. builds'[c] = builds[c] /\ next'[q] = next[q] /\ builds[c].attempts \in Nat
    BY <1>2, <1>3, <1>4, Shapes
  <2>2. builds[c].attempts <= before
    BY <1>4, <2>1 DEF FailuresPassed
  <2>3. before \in Nat /\ after \in Nat /\ before <= after
    BY <1>1, LeftGrows
  <2> HIDE DEF before
  <2>4. builds[c].attempts <= after
    <3> HIDE DEF after
    <3> QED BY <2>1, <2>2, <2>3
  <2> QED BY <2>1, <2>4
<1>5. ASSUME NEW c \in Builds, builds'[c].state = "named"
      PROVE  builds'[c].attempts <=
               Cardinality(LeftBelow(directories', builds'[c].process, builds'[c].name[2]))
  <2> DEFINE q == builds[c].process
             before == Cardinality(LeftBelow(directories, q, builds[c].name[2]))
             after == Cardinality(LeftBelow(directories', q, builds[c].name[2]))
  <2>1. builds'[c] = builds[c] /\ builds[c].attempts \in Nat
    BY <1>2, <1>3, <1>5, Shapes
  <2>2. builds[c].attempts <= before
    BY <1>5, <2>1 DEF FailuresPassed
  <2>3. before \in Nat /\ after \in Nat /\ before <= after
    BY <1>1, LeftGrows
  <2> HIDE DEF before
  <2>4. builds[c].attempts <= after
    <3> HIDE DEF after
    <3> QED BY <2>1, <2>2, <2>3
  <2> QED BY <2>1, <2>4
<1> QED BY <1>4, <1>5 DEF FailuresPassed

\* A build removes its directory, or leaves it behind when that fails.
LEMMA DropKept == ASSUME DirectoriesInv, NEW b \in Builds, Drop(b) PROVE DirectoriesInv'
<1> DEFINE name == builds[b].name
<1>1. /\ DirectoriesTyped /\ NamesDistinct /\ OwnersHold /\ OwnDirectoryOnly /\ FailuresPassed
      /\ next' = next /\ builds[b].state = "holding"
      /\ builds' = [builds EXCEPT ![b] = Idle]
  BY DEF DirectoriesInv, Drop
<1>2. PICK removed \in {{}, {name}} :
        directories' = [n \in DOMAIN directories \ removed |->
                            IF n = name THEN NoBuild ELSE directories[n]]
  BY DEF Drop
<1>3. /\ DOMAIN builds' = Builds /\ builds'[b] = Idle
      /\ \A c \in Builds : c # b => builds'[c] = builds[c]
  BY <1>1 DEF DirectoriesTyped
<1>4. Idle.state = "idle" /\ ~HasName(Idle) /\ BuildIn(Idle, next) /\ HasName(builds[b])
  BY <1>1 DEF Idle, HasName, BuildIn
<1>5. name \in DOMAIN directories /\ directories[name] = b /\ b # NoBuild
  BY <1>1, DirectoryAssumption DEF OwnDirectoryOnly
<1>6. /\ DOMAIN directories' \subseteq DOMAIN directories
      /\ \A n \in DOMAIN directories :
            n # name => n \in DOMAIN directories' /\ directories'[n] = directories[n]
      /\ \A n \in DOMAIN directories' : n = name => directories'[n] = NoBuild
  BY <1>2
<1> HIDE DEF name
<1>7. IsFiniteSet(DOMAIN directories')
  BY <1>1, <1>6, FS_Subset DEF DirectoriesTyped
<1>8. DirectoriesTyped'
  <2>1. \A n \in DOMAIN directories' : directories'[n] \in Builds \cup {NoBuild}
    BY <1>1, <1>6 DEF DirectoriesTyped
  <2>2. DOMAIN directories' \subseteq Processes \X Nat
    BY <1>1, <1>6 DEF DirectoriesTyped
  <2> QED BY <1>1, <1>3, <1>4, <1>7, <2>1, <2>2 DEF DirectoriesTyped
<1>9. NamesDistinct'
  BY <1>1, <1>3, <1>4 DEF NamesDistinct
<1>10. OwnersHold'
  <2> SUFFICES ASSUME NEW n \in DOMAIN directories', directories'[n] # NoBuild
               PROVE  /\ builds'[directories'[n]].state = "holding"
                      /\ builds'[directories'[n]].name = n
    BY DEF OwnersHold
  <2>1. n \in DOMAIN directories /\ n # name /\ directories'[n] = directories[n]
    BY <1>6
  <2>2. /\ directories[n] \in Builds /\ builds[directories[n]].state = "holding"
        /\ builds[directories[n]].name = n
    BY <1>1, <2>1 DEF DirectoriesTyped, OwnersHold
  <2>3. directories[n] # b
    BY <2>1, <2>2 DEF name
  <2> QED BY <1>3, <2>1, <2>2, <2>3
<1>11. OwnDirectoryOnly'
  <2> SUFFICES ASSUME NEW c \in Builds, builds'[c].state = "holding"
               PROVE  builds'[c].name \in DOMAIN directories' /\ directories'[builds'[c].name] = c
    BY DEF OwnDirectoryOnly
  <2>1. c # b /\ builds'[c] = builds[c]
    BY <1>3, <1>4
  <2>2. builds[c].name \in DOMAIN directories /\ directories[builds[c].name] = c
    BY <1>1, <2>1 DEF OwnDirectoryOnly
  <2> QED BY <1>5, <1>6, <2>1, <2>2
<1>12. FailuresPassed'
  <2>1. \A n \in DOMAIN directories : directories[n] = NoBuild =>
            n \in DOMAIN directories' /\ directories'[n] = NoBuild
    BY <1>5, <1>6
  <2> QED BY <1>1, <1>3, <1>7, <2>1, PassedKept
<1> QED BY <1>8, <1>9, <1>10, <1>11, <1>12 DEF DirectoriesInv

\* A process ends and its builds leave their directories behind.
LEMMA EndKept == ASSUME DirectoriesInv, NEW p \in Processes, EndProcess(p) PROVE DirectoriesInv'
<1> DEFINE ended == {b \in Builds : builds[b] # Idle /\ builds[b].process = p}
<1>1. /\ DirectoriesTyped /\ NamesDistinct /\ OwnersHold /\ OwnDirectoryOnly /\ FailuresPassed
      /\ next' = [next EXCEPT ![p] = 0]
      /\ builds' = [b \in Builds |-> IF b \in ended THEN Idle ELSE builds[b]]
      /\ directories' = [n \in DOMAIN directories |->
                            IF directories[n] \in ended THEN NoBuild ELSE directories[n]]
  BY DEF DirectoriesInv, EndProcess
<1>2. next \in [Processes -> Nat] /\ \A c \in Builds : BuildIn(builds[c], next)
  BY <1>1 DEF DirectoriesTyped
<1>3. Idle.state = "idle" /\ ~HasName(Idle) /\ BuildIn(Idle, next')
  BY DEF Idle, HasName, BuildIn
<1>4. /\ DOMAIN builds' = Builds
      /\ \A c \in Builds : /\ c \in ended => builds'[c] = Idle
                           /\ c \notin ended => builds'[c] = builds[c]
  BY <1>1
<1>5. /\ DOMAIN directories' = DOMAIN directories
      /\ \A n \in DOMAIN directories :
            /\ directories[n] \in ended => directories'[n] = NoBuild
            /\ directories[n] \notin ended => directories'[n] = directories[n]
      /\ NoBuild \notin ended
  BY <1>1, DirectoryAssumption
<1>6. next' \in [Processes -> Nat] /\ \A q \in Processes : q # p => next'[q] = next[q]
  BY <1>1, <1>2
<1>7. \A c \in Builds : c \notin ended => builds[c] = Idle \/ builds[c].process # p
  OBVIOUS
<1> HIDE DEF ended
<1>8. ASSUME NEW c \in Builds, c \notin ended PROVE BuildIn(builds[c], next')
  <2>1. CASE builds[c] = Idle
    BY <2>1 DEF BuildIn
  <2>2. CASE builds[c] # Idle
    <3>1. builds[c].process # p /\ BuildIn(builds[c], next)
      BY <1>2, <1>7, <1>8, <2>2
    <3>2. \A q \in Processes, a \in Nat, k \in Nat :
            /\ Trying(q, a).process = q /\ Named(q, a, <<q, k>>).process = q
            /\ Holding(q, <<q, k>>).process = q
      BY DEF Trying, Named, Holding
    <3>3. \A q \in Processes, k \in Nat : q # p /\ k < next[q] => k < next'[q]
      BY <1>6
    <3>4. CASE \E q \in Processes, a \in Nat : builds[c] = Trying(q, a)
      BY <3>4 DEF BuildIn
    <3>5. CASE \E q \in Processes, a \in Nat, k \in Nat :
                  builds[c] = Named(q, a, <<q, k>>) /\ k < next[q]
      <4>1. PICK q \in Processes, a \in Nat, k \in Nat :
                  builds[c] = Named(q, a, <<q, k>>) /\ k < next[q]
        BY <3>5
      <4>2. q # p
        BY <3>1, <3>2, <4>1
      <4> QED BY <3>3, <4>1, <4>2 DEF BuildIn
    <3>6. CASE \E q \in Processes, k \in Nat : builds[c] = Holding(q, <<q, k>>) /\ k < next[q]
      <4>1. PICK q \in Processes, k \in Nat : builds[c] = Holding(q, <<q, k>>) /\ k < next[q]
        BY <3>6
      <4>2. q # p
        BY <3>1, <3>2, <4>1
      <4> QED BY <3>3, <4>1, <4>2 DEF BuildIn
    <3> QED BY <2>2, <3>1, <3>4, <3>5, <3>6 DEF BuildIn
  <2> QED BY <2>1, <2>2
<1>9. DirectoriesTyped'
  <2>1. \A c \in Builds : BuildIn(builds'[c], next')
    BY <1>3, <1>4, <1>8
  <2>2. \A n \in DOMAIN directories' : directories'[n] \in Builds \cup {NoBuild}
    BY <1>1, <1>5 DEF DirectoriesTyped
  <2> QED BY <1>1, <1>4, <1>5, <1>6, <2>1, <2>2 DEF DirectoriesTyped
<1>10. NamesDistinct'
  BY <1>1, <1>3, <1>4 DEF NamesDistinct
<1>11. OwnersHold'
  <2> SUFFICES ASSUME NEW n \in DOMAIN directories', directories'[n] # NoBuild
               PROVE  /\ builds'[directories'[n]].state = "holding"
                      /\ builds'[directories'[n]].name = n
    BY DEF OwnersHold
  <2>1. n \in DOMAIN directories /\ directories'[n] = directories[n] /\ directories[n] \notin ended
    BY <1>5
  <2>2. /\ directories[n] \in Builds /\ builds[directories[n]].state = "holding"
        /\ builds[directories[n]].name = n
    BY <1>1, <2>1 DEF DirectoriesTyped, OwnersHold
  <2> QED BY <1>4, <2>1, <2>2
<1>12. OwnDirectoryOnly'
  <2> SUFFICES ASSUME NEW c \in Builds, builds'[c].state = "holding"
               PROVE  builds'[c].name \in DOMAIN directories' /\ directories'[builds'[c].name] = c
    BY DEF OwnDirectoryOnly
  <2>1. c \notin ended /\ builds'[c] = builds[c]
    BY <1>3, <1>4
  <2>2. builds[c].name \in DOMAIN directories /\ directories[builds[c].name] = c
    BY <1>1, <2>1 DEF OwnDirectoryOnly
  <2> QED BY <1>5, <2>1, <2>2
<1>13. FailuresPassed'
  <2>1. \A n \in DOMAIN directories : directories[n] = NoBuild =>
            n \in DOMAIN directories' /\ directories'[n] = NoBuild
    BY <1>5
  <2>2. IsFiniteSet(DOMAIN directories')
    BY <1>1, <1>5 DEF DirectoriesTyped
  <2>3. ASSUME NEW c \in Builds
        PROVE  \/ builds'[c] = Idle
               \/ /\ builds'[c] = builds[c]
                  /\ builds[c].state = "trying" =>
                        next'[builds[c].process] = next[builds[c].process]
    <3>1. CASE c \in ended
      BY <1>4, <3>1
    <3>2. CASE c \notin ended
      <4>1. builds[c] # Idle => builds[c].process \in Processes
        BY <1>2, Shapes
      <4> QED BY <1>3, <1>4, <1>6, <1>7, <3>2, <4>1
    <3> QED BY <3>1, <3>2
  <2> QED BY <1>1, <2>1, <2>2, <2>3, PassedKept
<1> QED BY <1>9, <1>10, <1>11, <1>12, <1>13 DEF DirectoriesInv

\* Every step of the builds keeps the invariant of their directories.
LEMMA DirectoriesStep == DirectoriesInv /\ [NextDirectories]_directoryVars => DirectoriesInv'
<1> SUFFICES ASSUME DirectoriesInv, [NextDirectories]_directoryVars PROVE DirectoriesInv'
  OBVIOUS
<1>1. ASSUME NEW b \in Builds,
             \/ \E p \in Processes : BeginBuild(b, p)
             \/ TakeNumber(b) \/ CreateDirectory(b) \/ Retry(b) \/ GiveUp(b) \/ Drop(b)
      PROVE  DirectoriesInv'
  BY <1>1, BeginBuildKept, TakeKept, CreateKept, RetryKept, GiveUpKept, DropKept
<1>2. ASSUME NEW p \in Processes, EndProcess(p) PROVE DirectoriesInv'
  BY <1>2, EndKept
<1>3. ASSUME UNCHANGED directoryVars PROVE DirectoriesInv'
  BY <1>3 DEF directoryVars, DirectoriesInv, DirectoriesTyped, NamesDistinct, OwnersHold,
              OwnDirectoryOnly, FailuresPassed
<1> QED BY <1>1, <1>2, <1>3 DEF NextDirectories

\* The bound that the builds' own numbers give is stronger than the one over all leftovers.
LEMMA LeftoversBound == DirectoriesInv => RetriesOnlyLeftovers
<1> SUFFICES ASSUME DirectoriesInv, NEW b \in Builds, builds[b].state = "trying"
             PROVE  builds[b].attempts <=
                      Cardinality({n \in DOMAIN directories :
                                      n[1] = builds[b].process /\ directories[n] = NoBuild})
  BY DEF RetriesOnlyLeftovers
<1> DEFINE q == builds[b].process
           all == {n \in DOMAIN directories : n[1] = q /\ directories[n] = NoBuild}
           passed == LeftBelow(directories, q, next[q])
<1>1. /\ builds[b].attempts <= Cardinality(passed)
      /\ IsFiniteSet(DOMAIN directories) /\ builds[b].attempts \in Nat
  <2>1. FailuresPassed /\ DirectoriesTyped
    BY DEF DirectoriesInv
  <2>2. BuildIn(builds[b], next) /\ next \in [Processes -> Nat]
    BY <2>1 DEF DirectoriesTyped
  <2>3. builds[b].attempts \in Nat
    BY <2>2, Shapes
  <2> QED BY <2>1, <2>3 DEF FailuresPassed, DirectoriesTyped
<1>2. passed \subseteq all /\ all \subseteq DOMAIN directories
  BY DEF LeftBelow
<1> HIDE DEF passed, all
<1>3. IsFiniteSet(all)
  BY <1>1, <1>2, FS_Subset
<1>4. IsFiniteSet(passed) /\ Cardinality(passed) <= Cardinality(all)
  BY <1>2, <1>3, FS_Subset
<1>5. Cardinality(passed) \in Nat /\ Cardinality(all) \in Nat
  BY <1>3, <1>4, FS_CardinalityType
<1>6. builds[b].attempts <= Cardinality(all)
  BY <1>1, <1>4, <1>5
<1> QED BY <1>6 DEF all

-----------------------------------------------------------------------------
(* A build among others. *)

DriverInv == AnalysisInv /\ DirectoriesInv

\* The build and the directories start with all three invariants.
LEMMA DriverInitial == InitDriver => DriverInv
  BY AnalysisInitial, DirectoriesInit DEF InitDriver, DriverInv

\* A step of the build leaves the directories alone, and the other way round.
LEMMA DriverStep == DriverInv /\ [NextDriver]_driver => DriverInv'
<1> SUFFICES ASSUME DriverInv, [NextDriver]_driver PROVE DriverInv'
  OBVIOUS
<1>1. [Next]_vars /\ [NextDirectories]_directoryVars
  BY DEF NextDriver, Analyze, UseDirectories, driver
<1> QED BY <1>1, AnalysisStep, DirectoriesStep DEF DriverInv

\* Every variable of the loader and the resolver keeps to its type, whatever the program is.
THEOREM TypesKept == DriverSpec => []TypeOK
<1>1. InitDriver => DriverInv
  BY DriverInitial
<1>2. DriverInv /\ [NextDriver]_driver => DriverInv'
  BY DriverStep
<1>3. DriverInv => TypeOK
  BY AnalysisTypes DEF DriverInv
<1> QED BY <1>1, <1>2, <1>3, PTL DEF DriverSpec

\* The loader's graph (graph.rs) is well formed at every moment of every load: a path has one
\* identity, edges lead to loaded files, and the stack is a chain of requirements from the root.
THEOREM GraphKept == DriverSpec => []GraphWellFormed
<1>1. InitDriver => DriverInv
  BY DriverInitial
<1>2. DriverInv /\ [NextDriver]_driver => DriverInv'
  BY DriverStep
<1>3. DriverInv => GraphWellFormed
  BY LoadGraph DEF DriverInv, AnalysisInv
<1> QED BY <1>1, <1>2, <1>3, PTL DEF DriverSpec

\* A load answers with exactly the files and C sources the program requires, and succeeds only
\* when nothing keeps the program from being loaded; an error is one the program has.
THEOREM LoadAnswers == DriverSpec => []LoadsWhatIsRequired
<1>1. InitDriver => DriverInv
  BY DriverInitial
<1>2. DriverInv /\ [NextDriver]_driver => DriverInv'
  BY DriverStep
<1>3. DriverInv => LoadsWhatIsRequired
  BY LoadIsRight DEF DriverInv, AnalysisInv
<1> QED BY <1>1, <1>2, <1>3, PTL DEF DriverSpec

\* No file is resolved (resolve/files.rs) before one it requires, no cycle is left for the
\* resolver to find, and the exports it expects are there: its panics are unreachable.
THEOREM RequiredFirst == DriverSpec => []DependenciesFirst
<1>1. InitDriver => DriverInv
  BY DriverInitial
<1>2. DriverInv /\ [NextDriver]_driver => DriverInv'
  BY DriverStep
<1>3. DriverInv => DependenciesFirst
  BY AnalysisOrder DEF DriverInv
<1> QED BY <1>1, <1>2, <1>3, PTL DEF DriverSpec

\* The resolver ends with every file of the program resolved once and no clash left, and an
\* error it reports is one the program has.
THEOREM ResolvesAll == DriverSpec => []ResolvesEveryFileOnce
<1>1. InitDriver => DriverInv
  BY DriverInitial
<1>2. DriverInv /\ [NextDriver]_driver => DriverInv'
  BY DriverStep
<1>3. DriverInv => ResolvesEveryFileOnce
  BY AnalysisResolves DEF DriverInv
<1> QED BY <1>1, <1>2, <1>3, PTL DEF DriverSpec

\* A build that holds a temporary directory holds one of its own, for any number of builds in
\* any number of processes, some of which have ended and whose numbers come again.
THEOREM DirectoriesApart == DriverSpec => []OwnDirectoryOnly
<1>1. InitDriver => DriverInv
  BY DriverInitial
<1>2. DriverInv /\ [NextDriver]_driver => DriverInv'
  BY DriverStep
<1>3. DriverInv => OwnDirectoryOnly
  BY DEF DriverInv, DirectoriesInv
<1> QED BY <1>1, <1>2, <1>3, PTL DEF DriverSpec

\* A build never retries more often than there are directories left behind, so a build fails
\* for its attempts only when as many are in its way.
THEOREM LeftoversOnly == DriverSpec => []RetriesOnlyLeftovers
<1>1. InitDriver => DriverInv
  BY DriverInitial
<1>2. DriverInv /\ [NextDriver]_driver => DriverInv'
  BY DriverStep
<1>3. DriverInv => RetriesOnlyLeftovers
  BY LeftoversBound DEF DriverInv
<1> QED BY <1>1, <1>2, <1>3, PTL DEF DriverSpec

(* Names. *)

OwnerType == [kind : {"predefined", "top", "lambda", "result"}, lambda : Nat]
CaptureType == [source : Nat, binding : Nat]
LambdaType == [id : Nat, self : Nat, captures : Seq(CaptureType)]
ConstructType == [kind : {"lambda", "block", "branch", "result"}, outer : Nat]
ScopeType == [Identifiers -> Nat]

\* The lambda around what is written in the construct i, 0 outside all of them.
InLambda(i) == IF i = Len(open) THEN current ELSE open[i + 1].outer

\* The identities and frames that the state mentions are given out.
Ranged ==
    /\ \A f \in DOMAIN lambdas :
          /\ 0 < lambdas[f].id /\ lambdas[f].id < nextLambda
          /\ \A c \in DOMAIN lambdas[f].captures :
                /\ lambdas[f].captures[c].source \in 1..Len(owners)
                /\ lambdas[f].captures[c].binding \in 1..Len(owners)
    /\ reference.at > 0 => reference.id > 0 /\ reference.name \in Identifiers
    /\ stage = "declaring" => reference.at = 0 /\ open = <<>>

\* Lambdas nest as the constructs do: inwards their identities grow, and the frames are
\* exactly the lambdas that are open.
Nested ==
    /\ Len(scopes) = Len(open) + 1
    /\ InLambda(0) = 0
    /\ \A i, j \in 0..Len(open) :
          i < j => /\ InLambda(i) <= InLambda(j)
                   /\ open[j].kind = "lambda" => InLambda(i) < InLambda(j)
    /\ \A j \in 1..Len(open) : open[j].kind # "lambda" => InLambda(j) = InLambda(j - 1)
    /\ \A j \in 0..Len(open) : InLambda(j) # 0 => \E f \in DOMAIN lambdas : lambdas[f].id = InLambda(j)
    /\ \A f \in DOMAIN lambdas :
          \E j \in 1..Len(open) : open[j].kind = "lambda" /\ InLambda(j) = lambdas[f].id
    /\ \A f, g \in DOMAIN lambdas : f < g => lambdas[f].id < lambdas[g].id

\* The names of a scope, given the lambda it is in, stand for their declarations and belong
\* to the file or to that lambda.
Fits(scope, top, lambda, own, org) ==
    \A n \in Identifiers : scope[n] # 0 =>
        /\ scope[n] \in 1..Len(own)
        /\ org[scope[n]] = scope[n]
        /\ IF top THEN own[scope[n]].kind \in {"predefined", "top"}
           ELSE /\ lambda # 0 /\ own[scope[n]].lambda = lambda
                /\ own[scope[n]].kind \in {"lambda", "result"}

ScopesOwned == \A i \in 1..Len(scopes) : Fits(scopes[i], i = 1, InLambda(i - 1), owners, origin)

\* A reference in the loop is held by the lambda of the frame it comes from.
InProgress == Capturing => reference.at > 1 /\ Holds(reference.at - 1, reference.id)

NamesInv ==
    /\ NamesTypeOK /\ Ranged /\ Nested /\ ScopesOwned
    /\ CapturesHeldOutside /\ ReferencesLexical /\ InProgress

\* A sequence without its last element.
LEMMA FrontIs ==
    ASSUME NEW S, NEW stack \in Seq(S), stack # <<>>
    PROVE  /\ Front(stack) \in Seq(S) /\ Len(Front(stack)) = Len(stack) - 1
           /\ DOMAIN Front(stack) = 1..Len(stack) - 1
           /\ \A i \in 1..Len(stack) - 1 : i \in DOMAIN stack /\ Front(stack)[i] = stack[i]
<1> DEFINE n == Len(stack)
<1>1. n \in Nat \ {0} /\ DOMAIN stack = 1..n
  BY LenProperties, EmptySeq
<1>2. Front(stack) = SubSeq(stack, 1, n - 1)
  BY DEF Front
<1>3. 1 \in 1..n + 1 /\ n - 1 \in (1 - 1)..n
  BY <1>1
<1>4. /\ SubSeq(stack, 1, n - 1) \in Seq(S) /\ Len(SubSeq(stack, 1, n - 1)) = n - 1
      /\ \A i \in 1..n - 1 : SubSeq(stack, 1, n - 1)[i] = stack[i]
  <2>1. /\ SubSeq(stack, 1, n - 1) \in Seq(S)
        /\ Len(SubSeq(stack, 1, n - 1)) = IF 1 <= n - 1 THEN n - 1 - 1 + 1 ELSE 0
        /\ \A i \in 1..n - 1 - 1 + 1 : SubSeq(stack, 1, n - 1)[i] = stack[1 + i - 1]
    BY <1>1, <1>3, SubSeqProperties
  <2>2. \A i \in 1..n - 1 : 1 + i - 1 = i /\ i \in 1..n - 1 - 1 + 1
    BY <1>1
  <2>3. (IF 1 <= n - 1 THEN n - 1 - 1 + 1 ELSE 0) = n - 1
    BY <1>1
  <2> QED BY <2>1, <2>2, <2>3
<1>5. DOMAIN Front(stack) = 1..n - 1
  BY <1>2, <1>4, LenProperties
<1>6. \A i \in 1..n - 1 : i \in 1..n
  BY <1>1
<1> QED BY <1>1, <1>2, <1>4, <1>5, <1>6

\* A sequence with one more element.
LEMMA AppendIs ==
    ASSUME NEW S, NEW stack \in Seq(S), NEW e \in S
    PROVE  /\ Append(stack, e) \in Seq(S) /\ Len(Append(stack, e)) = Len(stack) + 1
           /\ Append(stack, e) # <<>>
           /\ DOMAIN Append(stack, e) = 1..Len(stack) + 1 /\ DOMAIN stack = 1..Len(stack)
           /\ Len(stack) \in Nat
           /\ \A i \in 1..Len(stack) : Append(stack, e)[i] = stack[i]
           /\ Append(stack, e)[Len(stack) + 1] = e
<1>1. Append(stack, e) \in Seq(S) /\ Len(Append(stack, e)) = Len(stack) + 1 /\ Append(stack, e) # <<>>
  BY AppendProperties
<1>2. DOMAIN Append(stack, e) = 1..Len(stack) + 1 /\ DOMAIN stack = 1..Len(stack) /\ Len(stack) \in Nat
  BY <1>1, LenProperties
<1> QED BY <1>1, <1>2, AppendProperties

\* What the type invariant says of the sequences, with their lengths as numbers.
LEMMA LengthsAre ==
    ASSUME NamesTypeOK
    PROVE  /\ scopes \in Seq(ScopeType) /\ owners \in Seq(OwnerType) /\ origin \in Seq(Nat)
           /\ lambdas \in Seq(LambdaType) /\ open \in Seq(ConstructType)
           /\ Len(scopes) \in Nat \ {0} /\ DOMAIN scopes = 1..Len(scopes)
           /\ \A i \in 1..Len(scopes) : scopes[i] \in ScopeType
           /\ Len(owners) \in Nat /\ DOMAIN owners = 1..Len(owners)
           /\ \A i \in 1..Len(owners) : owners[i] \in OwnerType
           /\ Len(origin) = Len(owners) /\ DOMAIN origin = 1..Len(owners)
           /\ \A i \in 1..Len(owners) : origin[i] \in Nat
           /\ Len(lambdas) \in Nat /\ DOMAIN lambdas = 1..Len(lambdas)
           /\ \A f \in 1..Len(lambdas) : lambdas[f] \in LambdaType
           /\ Len(open) \in Nat /\ DOMAIN open = 1..Len(open)
           /\ \A i \in 1..Len(open) : open[i] \in ConstructType
<1>1. scopes \in Seq(ScopeType) /\ scopes # <<>>
  BY DEF NamesTypeOK, ScopeType
<1>2. owners \in Seq(OwnerType) /\ origin \in Seq(Nat) /\ Len(origin) = Len(owners)
  BY DEF NamesTypeOK, OwnerType
<1>3. lambdas \in Seq(LambdaType) /\ open \in Seq(ConstructType)
  BY DEF NamesTypeOK, LambdaType, CaptureType, ConstructType
<1>4. Len(scopes) \in Nat \ {0} /\ DOMAIN scopes = 1..Len(scopes)
  BY <1>1, EmptySeq, LenProperties
<1>5. \A i \in 1..Len(scopes) : scopes[i] \in ScopeType
  BY <1>1, ElementOfSeq
<1>6. /\ Len(owners) \in Nat /\ DOMAIN owners = 1..Len(owners)
      /\ \A i \in 1..Len(owners) : owners[i] \in OwnerType
  BY <1>2, ElementOfSeq, LenProperties
<1>7. DOMAIN origin = 1..Len(owners) /\ \A i \in 1..Len(owners) : origin[i] \in Nat
  BY <1>2, ElementOfSeq, LenProperties
<1>8. /\ Len(lambdas) \in Nat /\ DOMAIN lambdas = 1..Len(lambdas)
      /\ \A f \in 1..Len(lambdas) : lambdas[f] \in LambdaType
  BY <1>3, ElementOfSeq, LenProperties
<1>9. /\ Len(open) \in Nat /\ DOMAIN open = 1..Len(open)
      /\ \A i \in 1..Len(open) : open[i] \in ConstructType
  BY <1>3, ElementOfSeq, LenProperties
<1> QED BY <1>1, <1>2, <1>3, <1>4, <1>5, <1>6, <1>7, <1>8, <1>9

\* The innermost scope that declares a name exists when one does, and tells what it stands for.
LEMMA LookupIs ==
    ASSUME NamesInv, NEW n \in Identifiers, Declaring(n) # {}
    PROVE  /\ \E i \in 1..Len(scopes) : Lookup(n) = scopes[i][n] /\ scopes[i][n] # 0
           /\ Lookup(n) \in 1..Len(owners)
           /\ origin[Lookup(n)] = Lookup(n)
           /\ \/ owners[Lookup(n)].kind \in {"predefined", "top"}
              \/ /\ owners[Lookup(n)].kind \in {"lambda", "result"}
                 /\ \E f \in 1..Len(lambdas) : lambdas[f].id = owners[Lookup(n)].lambda
<1>1. /\ NamesTypeOK /\ Nested /\ ScopesOwned
      /\ Len(scopes) \in Nat /\ DOMAIN scopes = 1..Len(scopes)
      /\ DOMAIN lambdas = 1..Len(lambdas)
  BY LengthsAre DEF NamesInv
<1> DEFINE len == Len(scopes)
           Below == {len - i : i \in Declaring(n)}
<1>2. Declaring(n) \subseteq 1..len
  BY <1>1 DEF Declaring
<1>3. Below \subseteq Nat /\ Below # {}
  BY <1>1, <1>2
<1>4. PICK b \in Below : \A c \in Below : b <= c
  <2> HIDE DEF Below
  <2> QED BY <1>3, LeastNatural
<1>5. PICK i \in Declaring(n) : b = len - i
  BY <1>4
<1>6. \A j \in Declaring(n) : j <= i
  <2> SUFFICES ASSUME NEW j \in Declaring(n) PROVE j <= i
    OBVIOUS
  <2>1. b <= len - j
    BY <1>4
  <2> QED BY <2>1, <1>5, <1>2, <1>1
<1> DEFINE I == CHOOSE k \in Declaring(n) : \A j \in Declaring(n) : j <= k
<1>7. I \in Declaring(n)
  BY <1>6
<1>8. I \in 1..len /\ Lookup(n) = scopes[I][n] /\ scopes[I][n] # 0
  BY <1>7, <1>2 DEF Lookup, Declaring
<1>9. Fits(scopes[I], I = 1, InLambda(I - 1), owners, origin)
  BY <1>1, <1>8 DEF ScopesOwned
<1> HIDE DEF I
<1>10. /\ Lookup(n) \in 1..Len(owners) /\ origin[Lookup(n)] = Lookup(n)
       /\ IF I = 1 THEN owners[Lookup(n)].kind \in {"predefined", "top"}
          ELSE /\ InLambda(I - 1) # 0 /\ owners[Lookup(n)].lambda = InLambda(I - 1)
               /\ owners[Lookup(n)].kind \in {"lambda", "result"}
  BY <1>8, <1>9 DEF Fits
<1>11. I - 1 \in 0..Len(open)
  BY <1>1, <1>8 DEF Nested
<1>12. InLambda(I - 1) # 0 => \E f \in DOMAIN lambdas : lambdas[f].id = InLambda(I - 1)
  BY <1>1, <1>11 DEF Nested
<1> QED BY <1>1, <1>8, <1>10, <1>12

\* The lambda around the walk is that of the last frame.
LEMMA CurrentIs ==
    ASSUME NamesInv
    PROVE  IF lambdas = <<>> THEN current = 0 ELSE current = lambdas[Len(lambdas)].id
<1> DEFINE k == Len(lambdas)
<1>1. /\ NamesTypeOK /\ Nested /\ Ranged /\ current \in Nat
      /\ lambdas \in Seq(LambdaType) /\ k \in Nat /\ DOMAIN lambdas = 1..k /\ Len(open) \in Nat
  BY LengthsAre DEF NamesInv, NamesTypeOK
<1>2. InLambda(Len(open)) = current
  BY DEF InLambda
<1>3. current # 0 => \E f \in 1..k : lambdas[f].id = current
  BY <1>1, <1>2 DEF Nested
<1>4. CASE lambdas = <<>>
  BY <1>1, <1>3, <1>4
<1>5. CASE lambdas # <<>>
  <2>1. k \in 1..k
    BY <1>1, <1>5, EmptySeq
  <2>2. PICK j \in 1..Len(open) : InLambda(j) = lambdas[k].id /\ open[j].kind = "lambda"
    BY <1>1, <2>1 DEF Nested
  <2>3. \A f \in 1..k : lambdas[f].id \in Nat /\ lambdas[f].id > 0
    <3>1. \A f \in 1..k : lambdas[f] \in LambdaType
      BY <1>1, LengthsAre
    <3> QED BY <1>1, <3>1 DEF Ranged, LambdaType
  <2>4. lambdas[k].id <= current
    <3>1. CASE j = Len(open)
      BY <2>1, <2>2, <2>3, <1>2, <3>1, <1>1
    <3>2. CASE j # Len(open)
      BY <2>2, <1>2, <3>2, <1>1 DEF Nested
    <3> QED BY <3>1, <3>2
  <2>5. PICK f \in 1..k : lambdas[f].id = current
    BY <1>1, <1>3, <2>1, <2>3, <2>4
  <2>6. CASE f < k
    <3>1. lambdas[f].id < lambdas[k].id
      BY <1>1, <2>1, <2>6 DEF Nested
    <3> QED BY <3>1, <2>1, <2>3, <2>4, <2>5, <1>1
  <2>7. f < k \/ f = k
    BY <2>1
  <2> QED BY <2>5, <2>6, <2>7, <1>5
<1> QED BY <1>4, <1>5

\* Identities already given out keep their owner and their declaration.
Grown ==
    /\ Len(owners) <= Len(owners')
    /\ \A v \in 1..Len(owners) : owners'[v] = owners[v] /\ origin'[v] = origin[v]

\* What Allocate gives out comes after all of it.
LEMMA AllocateIs ==
    ASSUME NamesTypeOK, NEW given \in Seq(OwnerType), Allocate(given)
    PROVE  /\ owners' \in Seq(OwnerType) /\ origin' \in Seq(Nat) /\ Len(origin') = Len(owners')
           /\ Len(given) \in Nat /\ Len(owners') = Len(owners) + Len(given) /\ Grown
           /\ \A i \in 1..Len(given) : /\ Len(owners) + i \in 1..Len(owners')
                                       /\ owners'[Len(owners) + i] = given[i]
                                       /\ origin'[Len(owners) + i] = Len(owners) + i
<1> DEFINE len == Len(owners)
           m == Len(given)
           fresh == [i \in DOMAIN given |-> Len(owners) + i]
<1>1. /\ owners \in Seq(OwnerType) /\ origin \in Seq(Nat) /\ len \in Nat /\ Len(origin) = len
      /\ m \in Nat /\ DOMAIN given = 1..m /\ owners' = owners \o given /\ origin' = origin \o fresh
  BY LengthsAre, LenProperties DEF Allocate
<1>2. fresh \in Seq(Nat) /\ Len(fresh) = m /\ \A i \in 1..m : fresh[i] = len + i
  <2>1. \A i \in 1..m : len + i \in Nat
    BY <1>1
  <2>2. fresh \in [1..m -> Nat]
    BY <1>1, <2>1
  <2>3. fresh \in Seq(Nat)
    BY <2>2, <1>1, IsASeq
  <2>4. Len(fresh) = m
    <3>1. DOMAIN fresh = 1..m /\ DOMAIN fresh = 1..Len(fresh) /\ Len(fresh) \in Nat
      BY <1>1, <2>3, LenProperties
    <3> QED BY <3>1, <1>1
  <2> QED BY <1>1, <2>3, <2>4
<1> HIDE DEF fresh
<1>3. /\ owners' \in Seq(OwnerType) /\ Len(owners') = len + m
      /\ \A i \in 1..len + m : owners'[i] = IF i <= len THEN owners[i] ELSE given[i - len]
  BY <1>1, ConcatProperties
<1>4. /\ origin' \in Seq(Nat) /\ Len(origin') = len + m
      /\ \A i \in 1..len + m : origin'[i] = IF i <= len THEN origin[i] ELSE fresh[i - len]
  <2>1. origin' = origin \o fresh /\ origin \in Seq(Nat) /\ fresh \in Seq(Nat)
    BY <1>1, <1>2
  <2>2. Len(origin) = len /\ Len(fresh) = m
    BY <1>1, <1>2
  <2> HIDE DEF len, m
  <2>3. /\ origin \o fresh \in Seq(Nat) /\ Len(origin \o fresh) = Len(origin) + Len(fresh)
        /\ \A i \in 1..Len(origin) + Len(fresh) :
               (origin \o fresh)[i] = IF i <= Len(origin) THEN origin[i] ELSE fresh[i - Len(origin)]
    BY <2>1, ConcatProperties
  <2> QED BY <2>1, <2>2, <2>3
<1>5. Grown
  <2>1. \A v \in 1..len : v \in 1..len + m /\ v <= len
    BY <1>1
  <2> QED BY <1>1, <1>3, <1>4, <2>1 DEF Grown
<1>6. ASSUME NEW i \in 1..m
      PROVE  len + i \in 1..len + m /\ ~ (len + i <= len) /\ (len + i) - len = i
  BY <1>1
<1>7. \A i \in 1..m : owners'[len + i] = given[i] /\ origin'[len + i] = len + i
  BY <1>2, <1>3, <1>4, <1>6
<1> QED BY <1>1, <1>3, <1>4, <1>5, <1>6, <1>7

\* A scope keeps fitting while identities are only added.
LEMMA FitsKept ==
    ASSUME NamesTypeOK, Len(owners') \in Nat, Grown, NEW scope, NEW top, NEW lambda,
           Fits(scope, top, lambda, owners, origin)
    PROVE  Fits(scope, top, lambda, owners', origin')
<1> SUFFICES ASSUME NEW n \in Identifiers, scope[n] # 0
             PROVE  /\ scope[n] \in 1..Len(owners')
                    /\ origin'[scope[n]] = scope[n]
                    /\ IF top THEN owners'[scope[n]].kind \in {"predefined", "top"}
                       ELSE /\ lambda # 0 /\ owners'[scope[n]].lambda = lambda
                            /\ owners'[scope[n]].kind \in {"lambda", "result"}
  BY DEF Fits
<1> DEFINE v == scope[n]
<1>1. /\ v \in 1..Len(owners) /\ origin[v] = v
      /\ IF top THEN owners[v].kind \in {"predefined", "top"}
         ELSE /\ lambda # 0 /\ owners[v].lambda = lambda
              /\ owners[v].kind \in {"lambda", "result"}
  BY DEF Fits
<1>2. v \in 1..Len(owners') /\ owners'[v] = owners[v] /\ origin'[v] = origin[v]
  BY <1>1, LengthsAre DEF Grown
<1> QED BY <1>1, <1>2

\* Captures stay what they were while identities are only added, frames keep what they hold,
\* and a new frame captures nothing yet.
LEMMA CapturesKept ==
    ASSUME NamesTypeOK, Ranged, CapturesHeldOutside, Len(owners') \in Nat, Grown,
           \A f \in DOMAIN lambdas' :
               \/ lambdas'[f].captures = <<>>
               \/ /\ f \in DOMAIN lambdas /\ lambdas'[f] = lambdas[f]
                  /\ f > 1 => lambdas'[f - 1] = lambdas[f - 1]
    PROVE  /\ CapturesHeldOutside'
           /\ \A f \in DOMAIN lambdas' : \A c \in DOMAIN lambdas'[f].captures :
                 /\ lambdas'[f].captures[c].source \in 1..Len(owners')
                 /\ lambdas'[f].captures[c].binding \in 1..Len(owners')
<1> DEFINE Kept(f, c) ==
               /\ lambdas'[f].captures[c].source \in 1..Len(owners')
               /\ lambdas'[f].captures[c].binding \in 1..Len(owners')
               /\ f > 1 /\ Holds(f - 1, lambdas[f].captures[c].source)'
               /\ lambdas'[f].captures[c].source # lambdas'[f].self
               /\ owners'[lambdas'[f].captures[c].binding] = Owner("lambda", lambdas'[f].id)
               /\ origin'[lambdas'[f].captures[c].binding] = origin'[lambdas'[f].captures[c].source]
               /\ \A d \in DOMAIN lambdas'[f].captures :
                      lambdas'[f].captures[d].source = lambdas'[f].captures[c].source => d = c
<1>1. ASSUME NEW f \in DOMAIN lambdas', NEW c \in DOMAIN lambdas'[f].captures
      PROVE  Kept(f, c)
  <2>1. /\ f \in DOMAIN lambdas /\ lambdas'[f] = lambdas[f]
        /\ f > 1 => lambdas'[f - 1] = lambdas[f - 1]
    BY <1>1
  <2> DEFINE source == lambdas[f].captures[c].source
             binding == lambdas[f].captures[c].binding
  <2>2. source \in 1..Len(owners) /\ binding \in 1..Len(owners)
    BY <1>1, <2>1 DEF Ranged
  <2>3. /\ f > 1 /\ Holds(f - 1, source)
        /\ source # lambdas[f].self
        /\ owners[binding] = Owner("lambda", lambdas[f].id)
        /\ origin[binding] = origin[source]
        /\ \A d \in DOMAIN lambdas[f].captures : lambdas[f].captures[d].source = source => d = c
    BY <1>1, <2>1 DEF CapturesHeldOutside
  <2>4. /\ owners'[source] = owners[source] /\ origin'[source] = origin[source]
        /\ owners'[binding] = owners[binding] /\ origin'[binding] = origin[binding]
        /\ source \in 1..Len(owners') /\ binding \in 1..Len(owners')
    <3> HIDE DEF source, binding
    <3>1. Len(owners) \in Nat
      BY LengthsAre
    <3> QED BY <2>2, <3>1 DEF Grown
  <2>5. Holds(f - 1, lambdas[f].captures[c].source)'
    BY <2>1, <2>3, <2>4 DEF Holds
  <2> QED BY <2>1, <2>3, <2>4, <2>5
<1>2. CapturesHeldOutside'
  BY <1>1, Zenon DEF CapturesHeldOutside
<1> QED BY <1>1, <1>2, Zenon

\* The lambdas around every construct stay while neither constructs nor frames change.
LEMMA NestedKept ==
    ASSUME Nested, open' = open, current' = current, Len(scopes') = Len(scopes),
           DOMAIN lambdas' = DOMAIN lambdas,
           \A f \in DOMAIN lambdas : lambdas'[f].id = lambdas[f].id
    PROVE  Nested' /\ \A j : InLambda(j)' = InLambda(j)
<1>1. \A j : InLambda(j)' = InLambda(j)
  BY DEF InLambda
<1>2. Nested'
  BY <1>1 DEF Nested
<1> QED BY <1>1, <1>2

\* An error leaves what was resolved so far.
LEMMA RejectKeeps ==
    ASSUME NamesInv, Reject
    PROVE  NamesInv'
<1> USE DEF Reject
<1>1. NamesTypeOK'
  BY DEF NamesInv, NamesTypeOK
<1>2. Ranged'
  BY DEF NamesInv, Ranged
<1>3. Nested' /\ \A j : InLambda(j)' = InLambda(j)
  BY NestedKept DEF NamesInv
<1>4. ScopesOwned'
  BY <1>3 DEF NamesInv, ScopesOwned, Fits
<1>5. CapturesHeldOutside'
  BY DEF NamesInv, CapturesHeldOutside, Holds
<1>6. ReferencesLexical'
  BY DEF NamesInv, ReferencesLexical, Holds, Declaring, Lookup
<1>7. InProgress'
  BY DEF NamesInv, InProgress, Holds, Capturing
<1> QED BY <1>1, <1>2, <1>3, <1>4, <1>5, <1>6, <1>7 DEF NamesInv

\* With no reference on its way nothing is said of one.
LEMMA NoReferenceKeeps ==
    ASSUME NEW k \in Nat, DOMAIN lambdas' = 1..k, reference'.at = 0
    PROVE  ReferencesLexical' /\ InProgress'
<1>1. ReferencesLexical'
  BY DEF ReferencesLexical
<1>2. ~ (0 \in 1..k)
  OBVIOUS
<1>3. ~ Capturing'
  BY <1>2 DEF Capturing
<1> QED BY <1>1, <1>3 DEF InProgress

\* The scope the walk is in with one more name, which stands for a new identity.
LEMMA DeclaredFits ==
    ASSUME NamesInv, NEW n \in Identifiers, HasOwner, Allocate(<<LocalOwner>>)
    PROVE  /\ owners' \in Seq(OwnerType) /\ origin' \in Seq(Nat) /\ Len(origin') = Len(owners')
           /\ Len(owners') = Len(owners) + 1 /\ Grown /\ NewId \in Nat
           /\ InScope(n, NewId) \in Seq(ScopeType) /\ Len(InScope(n, NewId)) = Len(scopes)
           /\ \A i \in 1..Len(scopes) :
                 Fits(InScope(n, NewId)[i], i = 1, InLambda(i - 1), owners', origin')
<1> DEFINE len == Len(scopes)
           mid == InScope(n, NewId)
<1>1. /\ NamesTypeOK /\ Nested /\ ScopesOwned /\ current \in Nat
      /\ scopes \in Seq(ScopeType) /\ len \in Nat \ {0} /\ Len(owners) \in Nat /\ Len(open) \in Nat
      /\ len = Len(open) + 1 /\ open \in Seq(ConstructType)
  BY LengthsAre DEF NamesInv, Nested, NamesTypeOK
<1>2. LocalOwner \in OwnerType
  BY <1>1 DEF LocalOwner, TopLevel, Owner, OwnerType
<1>3. <<LocalOwner>> \in Seq(OwnerType) /\ Len(<<LocalOwner>>) = 1 /\ <<LocalOwner>>[1] = LocalOwner
  BY <1>2
<1>4. /\ owners' \in Seq(OwnerType) /\ origin' \in Seq(Nat) /\ Len(origin') = Len(owners')
      /\ Len(owners') = Len(owners) + 1 /\ Grown
      /\ Len(owners) + 1 \in 1..Len(owners')
      /\ owners'[Len(owners) + 1] = LocalOwner
      /\ origin'[Len(owners) + 1] = Len(owners) + 1
  <2> HIDE DEF LocalOwner
  <2>1. 1 \in 1..Len(<<LocalOwner>>)
    BY <1>3
  <2> QED BY <1>1, <1>3, <2>1, AllocateIs
<1>5. NewId \in 1..Len(owners') /\ NewId \in Nat
      /\ owners'[NewId] = LocalOwner /\ origin'[NewId] = NewId
  BY <1>1, <1>4 DEF NewId
<1> DEFINE last == [scopes[len] EXCEPT ![n] = NewId]
<1>6. len \in 1..len /\ scopes[len] \in ScopeType
  BY <1>1, LengthsAre
<1>7. last \in ScopeType
  BY <1>5, <1>6 DEF ScopeType
<1>8. mid = [scopes EXCEPT ![len] = last]
  BY DEF InScope
<1>9. /\ mid \in Seq(ScopeType) /\ Len(mid) = len
      /\ \A i \in 1..len : mid[i] = IF i = len THEN last ELSE scopes[i]
  <2> HIDE DEF last, mid
  <2> QED BY <1>1, <1>6, <1>7, <1>8, ExceptSeq
<1>10. ASSUME NEW i \in 1..len
       PROVE  Fits(scopes[i], i = 1, InLambda(i - 1), owners', origin')
  <2>1. Fits(scopes[i], i = 1, InLambda(i - 1), owners, origin)
    BY <1>1 DEF ScopesOwned
  <2>2. Len(owners') \in Nat
    BY <1>1, <1>4
  <2> QED BY <1>1, <1>4, <2>1, <2>2, FitsKept, Zenon
<1>11. IF len = 1 THEN LocalOwner = TopLevel
       ELSE /\ LocalOwner = Owner("lambda", current) /\ current # 0
            /\ InLambda(len - 1) = current
  <2>1. CASE open = <<>>
    BY <1>1, <2>1 DEF LocalOwner
  <2>2. CASE open # <<>>
    <3>1. Len(open) # 0
      BY <1>1, <2>2, EmptySeq
    <3>2. len - 1 = Len(open)
      BY <1>1
    <3>3. InLambda(len - 1) = current
      BY <3>2 DEF InLambda
    <3> QED BY <1>1, <2>2, <3>1, <3>3 DEF LocalOwner, HasOwner
  <2> QED BY <2>1, <2>2
<1>12. Fits(last, len = 1, InLambda(len - 1), owners', origin')
  <2> SUFFICES ASSUME NEW m \in Identifiers, last[m] # 0
               PROVE  /\ last[m] \in 1..Len(owners') /\ origin'[last[m]] = last[m]
                      /\ IF len = 1 THEN owners'[last[m]].kind \in {"predefined", "top"}
                         ELSE /\ InLambda(len - 1) # 0 /\ owners'[last[m]].lambda = InLambda(len - 1)
                              /\ owners'[last[m]].kind \in {"lambda", "result"}
    BY DEF Fits
  <2>1. last[m] = IF m = n THEN NewId ELSE scopes[len][m]
    BY <1>6 DEF ScopeType
  <2>2. CASE m = n
    BY <2>1, <2>2, <1>5, <1>11 DEF TopLevel, Owner
  <2>3. CASE m # n
    <3>1. Fits(scopes[len], len = 1, InLambda(len - 1), owners', origin')
      BY <1>6, <1>10
    <3> QED BY <2>1, <2>3, <3>1 DEF Fits
  <2> QED BY <2>2, <2>3
<1>13. ASSUME NEW i \in 1..len
       PROVE  Fits(mid[i], i = 1, InLambda(i - 1), owners', origin')
  <2> HIDE DEF last, mid
  <2>1. CASE i = len
    BY <2>1, <1>9, <1>12
  <2>2. CASE i # len
    BY <2>2, <1>9, <1>10
  <2> QED BY <2>1, <2>2
<1> QED BY <1>4, <1>5, <1>9, <1>13

\* A declaration where the walk is.
LEMMA DeclarationKeeps ==
    ASSUME NamesInv, NEW n \in Identifiers, HasOwner, Allocate(<<LocalOwner>>),
           scopes' = InScope(n, NewId), families' \subseteq families \cup {NewId},
           stage' = stage, lambdas' = lambdas, current' = current, open' = open,
           nextLambda' \in {nextLambda, nextLambda + 1},
           \/ reference' = reference /\ reference.at = 0
           \/ reference' = NoReference
    PROVE  NamesInv'
<1>1. /\ NamesTypeOK /\ Ranged /\ Nested /\ CapturesHeldOutside
      /\ Len(scopes) \in Nat \ {0} /\ Len(owners) \in Nat
      /\ Len(lambdas) \in Nat /\ DOMAIN lambdas = 1..Len(lambdas)
      /\ \A f \in 1..Len(lambdas) : lambdas[f] \in LambdaType
  BY LengthsAre DEF NamesInv
<1>2. /\ owners' \in Seq(OwnerType) /\ origin' \in Seq(Nat) /\ Len(origin') = Len(owners')
      /\ Len(owners') = Len(owners) + 1 /\ Grown /\ NewId \in Nat
      /\ scopes' \in Seq(ScopeType) /\ Len(scopes') = Len(scopes)
      /\ \A i \in 1..Len(scopes) : Fits(scopes'[i], i = 1, InLambda(i - 1), owners', origin')
  BY DeclaredFits
<1>3. reference' \in [name : Identifiers \cup {""}, id : 0..Len(owners'), at : 0..Len(lambdas') + 1]
      /\ reference'.at = 0
  <2>1. CASE reference' = NoReference
    <3>1. /\ "" \in Identifiers \cup {""} /\ 0 \in 0..Len(owners')
          /\ 0 \in 0..Len(lambdas') + 1
      BY <1>1, <1>2
    <3>2. NoReference \in [name : Identifiers \cup {""}, id : 0..Len(owners'), at : 0..Len(lambdas') + 1]
      BY <3>1 DEF NoReference
    <3> QED BY <2>1, <3>2 DEF NoReference
  <2>2. CASE reference' = reference /\ reference.at = 0
    <3>1. reference \in [name : Identifiers \cup {""}, id : 0..Len(owners), at : 0..Len(lambdas) + 1]
      BY <1>1 DEF NamesTypeOK
    <3>2. 0..Len(owners) \subseteq 0..Len(owners')
      BY <1>1, <1>2
    <3> QED BY <2>2, <3>1, <3>2
  <2> QED BY <2>1, <2>2
<1>4. NamesTypeOK'
  <2>1. scopes' # <<>>
    BY <1>1, <1>2, EmptySeq
  <2>2. families' \subseteq Nat
    <3>1. families \subseteq Nat
      BY <1>1 DEF NamesTypeOK
    <3> QED BY <1>2, <3>1
  <2>3. nextLambda' \in Nat \ {0}
    <3>1. nextLambda \in Nat \ {0}
      BY <1>1 DEF NamesTypeOK
    <3> QED BY <3>1
  <2> QED BY <1>1, <1>2, <1>3, <2>1, <2>2, <2>3 DEF NamesTypeOK, ScopeType, OwnerType
<1>5. /\ CapturesHeldOutside'
      /\ \A f \in DOMAIN lambdas' : \A c \in DOMAIN lambdas'[f].captures :
            /\ lambdas'[f].captures[c].source \in 1..Len(owners')
            /\ lambdas'[f].captures[c].binding \in 1..Len(owners')
  <2>1. Len(owners') \in Nat
    BY <1>1, <1>2
  <2>2. \A f \in DOMAIN lambdas' : f \in DOMAIN lambdas /\ lambdas'[f] = lambdas[f]
    OBVIOUS
  <2>3. \A f \in DOMAIN lambdas' : f > 1 => lambdas'[f - 1] = lambdas[f - 1]
    OBVIOUS
  <2> QED BY <1>1, <1>2, <2>1, <2>2, <2>3, CapturesKept
<1>6. Ranged'
  <2>1. \A f \in DOMAIN lambdas' : 0 < lambdas'[f].id /\ lambdas'[f].id < nextLambda'
    <3>1. \A f \in DOMAIN lambdas : /\ 0 < lambdas[f].id /\ lambdas[f].id < nextLambda
                                    /\ lambdas[f].id \in Nat
      BY <1>1 DEF Ranged, LambdaType
    <3>2. nextLambda \in Nat
      BY <1>1 DEF NamesTypeOK
    <3> QED BY <3>1, <3>2
  <2>2. stage' = "declaring" => reference'.at = 0 /\ open' = <<>>
    BY <1>1, <1>3 DEF Ranged
  <2>3. ~ (reference'.at > 0)
    <3>1. ~ (0 > 0)
      OBVIOUS
    <3> QED BY <1>3, <3>1, Zenon
  <2> QED BY <1>5, <2>1, <2>2, <2>3, Zenon DEF Ranged
<1>7. Nested' /\ \A j : InLambda(j)' = InLambda(j)
  BY <1>1, <1>2, NestedKept
<1>8. ScopesOwned'
  BY <1>2, <1>7 DEF ScopesOwned, Fits
<1>9. ReferencesLexical' /\ InProgress'
  BY <1>1, <1>3, NoReferenceKeeps
<1> QED BY <1>4, <1>5, <1>6, <1>7, <1>8, <1>9 DEF NamesInv

\* The lambdas around the constructs that were open stay, and around the new one is the walk's.
LEMMA OpenedInLambda ==
    ASSUME NamesInv, NEW construct \in ConstructType, construct.outer = current,
           open' = Append(open, construct)
    PROVE  /\ Len(open') = Len(open) + 1 /\ open' \in Seq(ConstructType)
           /\ \A j \in 0..Len(open) : InLambda(j)' = InLambda(j)
           /\ \A j \in {Len(open) + 1} : InLambda(j)' = current'
           /\ \A j \in 1..Len(open) : open'[j] = open[j]
           /\ open'[Len(open) + 1] = construct
<1>1. open \in Seq(ConstructType) /\ Len(open) \in Nat
  BY LengthsAre DEF NamesInv
<1>2. /\ open' \in Seq(ConstructType) /\ Len(open') = Len(open) + 1
      /\ \A j \in 1..Len(open) : open'[j] = open[j]
      /\ open'[Len(open) + 1] = construct
  BY <1>1, AppendIs
<1>3. ASSUME NEW j \in 0..Len(open)
      PROVE  InLambda(j)' = InLambda(j)
  <2>1. InLambda(j)' = IF j = Len(open') THEN current' ELSE open'[j + 1].outer
    BY DEF InLambda
  <2>2. j # Len(open') /\ InLambda(j)' = open'[j + 1].outer
    BY <1>1, <1>2, <2>1
  <2>3. CASE j = Len(open)
    BY <2>2, <2>3, <1>2 DEF InLambda
  <2>4. CASE j # Len(open)
    <3>1. j + 1 \in 1..Len(open)
      BY <1>1, <2>4
    <3> QED BY <2>2, <2>4, <3>1, <1>2 DEF InLambda
  <2> QED BY <2>3, <2>4
<1>4. \A j \in {Len(open) + 1} : InLambda(j)' = current'
  BY <1>2 DEF InLambda
<1> QED BY <1>2, <1>3, <1>4

\* The lambdas around the constructs, as numbers.
LEMMA InLambdaIs ==
    ASSUME NamesInv
    PROVE  \A j \in 0..Len(open) :
              InLambda(j) \in Nat /\ InLambda(j) < nextLambda /\ InLambda(j) <= current
<1>1. /\ NamesTypeOK /\ Nested /\ Ranged /\ current \in Nat /\ nextLambda \in Nat \ {0}
      /\ Len(open) \in Nat /\ \A i \in 1..Len(open) : open[i] \in ConstructType
      /\ \A f \in DOMAIN lambdas : lambdas[f] \in LambdaType
  BY LengthsAre DEF NamesInv, NamesTypeOK
<1>2. InLambda(Len(open)) = current
  BY DEF InLambda
<1>3. SUFFICES ASSUME NEW j \in 0..Len(open)
               PROVE  InLambda(j) \in Nat /\ InLambda(j) < nextLambda /\ InLambda(j) <= current
  OBVIOUS
<1>4. InLambda(j) \in Nat
  <2>1. CASE j = Len(open)
    BY <1>1, <1>2, <2>1
  <2>2. CASE j # Len(open)
    <3>1. j + 1 \in 1..Len(open)
      BY <1>1, <2>2
    <3>2. open[j + 1] \in ConstructType
      BY <1>1, <3>1
    <3> QED BY <2>2, <3>2 DEF InLambda, ConstructType
  <2> QED BY <2>1, <2>2
<1>5. InLambda(j) < nextLambda
  <2>1. CASE InLambda(j) = 0
    BY <1>1, <2>1
  <2>2. CASE InLambda(j) # 0
    <3>1. PICK f \in DOMAIN lambdas : lambdas[f].id = InLambda(j)
      BY <1>1, <2>2 DEF Nested
    <3> QED BY <1>1, <3>1 DEF Ranged
  <2> QED BY <2>1, <2>2
<1>6. InLambda(j) <= current
  <2>1. CASE j = Len(open)
    BY <1>2, <1>4, <2>1
  <2>2. CASE j # Len(open)
    <3>1. j < Len(open) /\ Len(open) \in 0..Len(open)
      BY <1>1, <2>2
    <3> QED BY <1>1, <1>2, <3>1 DEF Nested
  <2> QED BY <2>1, <2>2
<1> QED BY <1>4, <1>5, <1>6

\* A construct that is not a lambda, with the names its scope starts with.
LEMMA BlockKeeps ==
    ASSUME NamesInv, stage = "items", NEW scope \in ScopeType, NEW kind \in {"block", "branch", "result"},
           EnterBlock(kind, scope),
           owners' \in Seq(OwnerType), origin' \in Seq(Nat), Len(origin') = Len(owners'), Grown,
           Fits(scope, FALSE, current, owners', origin')
    PROVE  NamesInv'
<1> DEFINE n == Len(open)
           construct == [kind |-> kind, outer |-> current]
<1>1. /\ NamesTypeOK /\ Ranged /\ Nested /\ ScopesOwned /\ CapturesHeldOutside
      /\ scopes \in Seq(ScopeType) /\ Len(scopes) = n + 1 /\ n \in Nat
      /\ Len(lambdas) \in Nat /\ DOMAIN lambdas = 1..Len(lambdas) /\ current \in Nat
      /\ open \in Seq(ConstructType)
  BY LengthsAre DEF NamesInv, NamesTypeOK, Nested
<1>2. /\ scopes' = Append(scopes, scope) /\ open' = Append(open, construct)
      /\ reference' = NoReference /\ stage' = stage /\ families' = families
      /\ lambdas' = lambdas /\ current' = current /\ nextLambda' = nextLambda
  BY DEF EnterBlock
<1>3. construct \in ConstructType /\ construct.outer = current /\ construct.kind # "lambda"
  BY <1>1 DEF ConstructType
<1>4. /\ Len(open') = n + 1 /\ open' \in Seq(ConstructType)
      /\ \A j \in 0..n : InLambda(j)' = InLambda(j)
      /\ \A j \in {n + 1} : InLambda(j)' = current
      /\ \A j \in 1..n : open'[j] = open[j]
      /\ open'[n + 1] = construct
  <2> HIDE DEF construct
  <2> QED BY <1>2, <1>3, OpenedInLambda
<1>5. /\ scopes' \in Seq(ScopeType) /\ Len(scopes') = n + 2 /\ scopes' # <<>>
      /\ \A i \in 1..n + 1 : scopes'[i] = scopes[i]
      /\ scopes'[n + 2] = scope
  <2>1. /\ scopes' \in Seq(ScopeType) /\ Len(scopes') = Len(scopes) + 1 /\ scopes' # <<>>
        /\ \A i \in 1..Len(scopes) : scopes'[i] = scopes[i]
        /\ scopes'[Len(scopes) + 1] = scope
    <3>1. /\ Append(scopes, scope) \in Seq(ScopeType) /\ Len(Append(scopes, scope)) = Len(scopes) + 1
          /\ Append(scopes, scope) # <<>>
          /\ \A i \in 1..Len(scopes) : Append(scopes, scope)[i] = scopes[i]
          /\ Append(scopes, scope)[Len(scopes) + 1] = scope
      <4>1. scopes \in Seq(ScopeType) /\ scope \in ScopeType
        BY <1>1
      <4> QED BY <4>1, AppendIs
    <3>2. scopes' = Append(scopes, scope)
      BY <1>2
    <3> QED BY <3>1, <3>2
  <2>2. n + 1 + 1 = n + 2
    BY <1>1
  <2> QED BY <1>1, <2>1, <2>2
<1> HIDE DEF construct
<1>6. Len(owners') \in Nat
  BY LenProperties
<1>7. reference' \in [name : Identifiers \cup {""}, id : 0..Len(owners'), at : 0..Len(lambdas') + 1]
      /\ reference'.at = 0
  <2>1. "" \in Identifiers \cup {""} /\ 0 \in 0..Len(owners') /\ 0 \in 0..Len(lambdas') + 1
    BY <1>1, <1>2, <1>6
  <2>2. NoReference \in [name : Identifiers \cup {""}, id : 0..Len(owners'), at : 0..Len(lambdas') + 1]
    BY <2>1 DEF NoReference
  <2> QED BY <1>2, <2>2 DEF NoReference
<1>8. NamesTypeOK'
  BY <1>1, <1>2, <1>4, <1>5, <1>7 DEF NamesTypeOK, ScopeType, OwnerType, ConstructType
<1>9. /\ CapturesHeldOutside'
      /\ \A f \in DOMAIN lambdas' : \A c \in DOMAIN lambdas'[f].captures :
            /\ lambdas'[f].captures[c].source \in 1..Len(owners')
            /\ lambdas'[f].captures[c].binding \in 1..Len(owners')
  <2>1. \A f \in DOMAIN lambdas' : f \in DOMAIN lambdas /\ lambdas'[f] = lambdas[f]
    BY <1>2
  <2>2. \A f \in DOMAIN lambdas' : f > 1 => lambdas'[f - 1] = lambdas[f - 1]
    BY <1>2
  <2> QED BY <1>1, <1>6, <2>1, <2>2, CapturesKept
<1>10. Ranged'
  <2>1. \A f \in DOMAIN lambdas' : 0 < lambdas'[f].id /\ lambdas'[f].id < nextLambda'
    BY <1>1, <1>2 DEF Ranged
  <2>2. stage' # "declaring"
    BY <1>2
  <2>3. ~ (reference'.at > 0)
    <3>1. ~ (0 > 0)
      OBVIOUS
    <3> QED BY <1>7, <3>1, Zenon
  <2> QED BY <1>9, <2>1, <2>2, <2>3, Zenon DEF Ranged
<1>11. \A j \in 0..n : InLambda(j) \in Nat /\ InLambda(j) <= current
  BY InLambdaIs
<1>12. InLambda(n) = current
  BY DEF InLambda
<1>13. Nested'
  <2>1. Len(scopes') = Len(open') + 1
    BY <1>1, <1>4, <1>5
  <2>2. InLambda(0)' = 0
    <3>1. 0 \in 0..n
      BY <1>1
    <3> QED BY <3>1, <1>1, <1>4 DEF Nested
  <2>3. \A j \in 0..n + 1 : j \in 0..n \/ j = n + 1
    BY <1>1
  <2>4. ASSUME NEW i \in 0..Len(open'), NEW j \in 0..Len(open'), i < j
        PROVE  /\ InLambda(i)' <= InLambda(j)'
               /\ open'[j].kind = "lambda" => InLambda(i)' < InLambda(j)'
    <3>1. CASE j \in 0..n
      <4>1. i \in 0..n /\ j \in 1..n
        BY <3>1, <2>4, <1>1, <1>4
      <4> QED BY <4>1, <3>1, <2>4, <1>1, <1>4 DEF Nested
    <3>2. CASE j = n + 1
      <4>1. i \in 0..n
        BY <3>2, <2>4, <1>1, <1>4
      <4>2. InLambda(i)' = InLambda(i) /\ InLambda(j)' = current /\ open'[j].kind # "lambda"
        BY <4>1, <3>2, <1>3, <1>4
      <4> QED BY <4>1, <4>2, <1>11
    <3> QED BY <2>3, <3>1, <3>2, <1>4
  <2>5. ASSUME NEW j \in 1..Len(open'), open'[j].kind # "lambda"
        PROVE  \A m \in {j - 1} : InLambda(j)' = InLambda(m)'
    <3>1. CASE j \in 1..n
      <4>1. j \in 0..n /\ j - 1 \in 0..n
        BY <3>1
      <4>2. InLambda(j) = InLambda(j - 1)
        BY <1>1, <1>4, <2>5, <3>1 DEF Nested
      <4> QED BY <4>1, <4>2, <1>4
    <3>2. CASE j = n + 1
      <4>1. j - 1 = n /\ n \in 0..n
        BY <3>2, <1>1
      <4> QED BY <4>1, <3>2, <1>4, <1>12
    <3> QED BY <3>1, <3>2, <1>1, <1>4
  <2>6. ASSUME NEW j \in 0..Len(open'), InLambda(j)' # 0
        PROVE  \E f \in DOMAIN lambdas' : lambdas'[f].id = InLambda(j)'
    <3>1. PICK i \in 0..n : InLambda(j)' = InLambda(i)
      <4>1. CASE j \in 0..n
        BY <4>1, <1>4
      <4>2. CASE j = n + 1
        <5>1. n \in 0..n
          BY <1>1
        <5> QED BY <4>2, <5>1, <1>4, <1>12
      <4> QED BY <4>1, <4>2, <2>3, <1>4
    <3> QED BY <2>6, <3>1, <1>1, <1>2 DEF Nested
  <2>7. ASSUME NEW f \in DOMAIN lambdas'
        PROVE  \E j \in 1..Len(open') : open'[j].kind = "lambda" /\ InLambda(j)' = lambdas'[f].id
    <3>1. PICK j \in 1..n : open[j].kind = "lambda" /\ InLambda(j) = lambdas[f].id
      BY <1>1, <1>2, <2>7 DEF Nested
    <3>2. j \in 1..Len(open') /\ j \in 0..n
      BY <3>1, <1>1, <1>4
    <3> QED BY <3>1, <3>2, <1>2, <1>4
  <2>8. \A f, g \in DOMAIN lambdas' : f < g => lambdas'[f].id < lambdas'[g].id
    BY <1>1, <1>2 DEF Nested
  <2> QED BY <2>1, <2>2, <2>4, <2>5, <2>6, <2>7, <2>8 DEF Nested
<1>14. ScopesOwned'
  <2>1. ASSUME NEW i \in 1..Len(scopes')
        PROVE  \A m \in {i - 1} : Fits(scopes'[i], i = 1, InLambda(m)', owners', origin')
    <3>1. CASE i \in 1..n + 1
      <4>1. Fits(scopes[i], i = 1, InLambda(i - 1), owners, origin)
        BY <3>1, <1>1 DEF ScopesOwned
      <4>2. Fits(scopes[i], i = 1, InLambda(i - 1), owners', origin')
        BY <4>1, <1>1, <1>6, FitsKept, Zenon
      <4>3. i - 1 \in 0..n
        BY <3>1, <1>1
      <4> QED BY <3>1, <4>2, <4>3, <1>4, <1>5
    <3>2. CASE i = n + 2
      <4>1. i - 1 = n + 1 /\ (i = 1) = FALSE
        BY <3>2, <1>1
      <4>2. \A m \in {i - 1} : InLambda(m)' = current
        BY <4>1, <1>4
      <4> QED BY <3>2, <4>1, <4>2, <1>5
    <3>3. i \in 1..n + 1 \/ i = n + 2
      BY <1>1, <1>5
    <3> QED BY <3>1, <3>2, <3>3, Zenon
  <2> QED BY <2>1 DEF ScopesOwned, Fits
<1>15. ReferencesLexical' /\ InProgress'
  BY <1>1, <1>2, <1>7, NoReferenceKeeps
<1> QED BY <1>8, <1>9, <1>10, <1>13, <1>14, <1>15 DEF NamesInv

\* The scopes with one more.
LEMMA ScopeAppended ==
    \A stack \in Seq(ScopeType), e \in ScopeType :
        /\ Append(stack, e) \in Seq(ScopeType) /\ Len(Append(stack, e)) = Len(stack) + 1
        /\ Append(stack, e) # <<>>
        /\ \A i \in 1..Len(stack) : Append(stack, e)[i] = stack[i]
        /\ Append(stack, e)[Len(stack) + 1] = e
BY AppendIs

\* A lambda; mid is what the scopes are once it is itself declared, if it is.
LEMMA LambdaKeeps ==
    ASSUME NamesInv, stage = "items", NEW self \in Nat, EnterLambda(self),
           stage' = stage, families' = families,
           owners' \in Seq(OwnerType), origin' \in Seq(Nat), Len(origin') = Len(owners'), Grown,
           NEW mid \in Seq(ScopeType), Len(mid) = Len(scopes),
           \A i \in 1..Len(scopes) : Fits(mid[i], i = 1, InLambda(i - 1), owners', origin'),
           scopes' = Append(mid, NothingDeclared)
    PROVE  NamesInv'
<1> DEFINE n == Len(open)
           k == Len(lambdas)
           construct == [kind |-> "lambda", outer |-> current]
           frame == [id |-> nextLambda, self |-> self, captures |-> <<>>]
<1>1. /\ NamesTypeOK /\ Ranged /\ Nested /\ CapturesHeldOutside
      /\ Len(scopes) = n + 1 /\ n \in Nat /\ nextLambda \in Nat \ {0}
      /\ k \in Nat /\ DOMAIN lambdas = 1..k /\ current \in Nat
      /\ lambdas \in Seq(LambdaType)
      /\ open \in Seq(ConstructType)
  BY LengthsAre DEF NamesInv, NamesTypeOK, Nested
<1>2. /\ open' = Append(open, construct) /\ lambdas' = Append(lambdas, frame)
      /\ reference' = NoReference /\ current' = nextLambda /\ nextLambda' = nextLambda + 1
  BY DEF EnterLambda
<1>3. construct \in ConstructType /\ construct.outer = current /\ construct.kind = "lambda"
  BY <1>1 DEF ConstructType
<1>4. frame \in LambdaType /\ frame.id = nextLambda /\ frame.captures = <<>>
  <2>1. <<>> \in Seq(CaptureType)
    OBVIOUS
  <2> QED BY <1>1, <2>1 DEF LambdaType
<1> HIDE DEF construct, frame
<1>5. /\ Len(open') = n + 1 /\ open' \in Seq(ConstructType)
      /\ \A j \in 0..n : InLambda(j)' = InLambda(j)
      /\ \A j \in {n + 1} : InLambda(j)' = nextLambda
      /\ \A j \in 1..n : open'[j] = open[j]
      /\ open'[n + 1] = construct
  BY <1>2, <1>3, OpenedInLambda
<1>6. /\ lambdas' \in Seq(LambdaType) /\ DOMAIN lambdas' = 1..k + 1 /\ Len(lambdas') = k + 1
      /\ \A f \in 1..k : lambdas'[f] = lambdas[f]
      /\ lambdas'[k + 1] = frame
  <2>1. /\ Append(lambdas, frame) \in Seq(LambdaType) /\ Len(Append(lambdas, frame)) = k + 1
        /\ DOMAIN Append(lambdas, frame) = 1..k + 1
        /\ \A f \in 1..k : Append(lambdas, frame)[f] = lambdas[f]
        /\ Append(lambdas, frame)[k + 1] = frame
    <3>1. lambdas \in Seq(LambdaType) /\ frame \in LambdaType
      BY <1>1, <1>4
    <3> QED BY <3>1, AppendIs
  <2>2. lambdas' = Append(lambdas, frame)
    BY <1>2
  <2> QED BY <2>1, <2>2
<1>7. NothingDeclared \in ScopeType
  BY DEF NothingDeclared, ScopeType
<1>8. /\ scopes' \in Seq(ScopeType) /\ Len(scopes') = n + 2 /\ scopes' # <<>>
      /\ \A i \in 1..n + 1 : scopes'[i] = mid[i]
      /\ scopes'[n + 2] = NothingDeclared
  <2>1. /\ scopes' \in Seq(ScopeType) /\ Len(scopes') = Len(mid) + 1 /\ scopes' # <<>>
        /\ \A i \in 1..Len(mid) : scopes'[i] = mid[i]
        /\ scopes'[Len(mid) + 1] = NothingDeclared
    BY <1>7, ScopeAppended, Zenon
  <2>2. n + 1 + 1 = n + 2
    BY <1>1
  <2> QED BY <1>1, <2>1, <2>2
<1>9. Len(owners') \in Nat
  BY LenProperties
<1>10. reference' \in [name : Identifiers \cup {""}, id : 0..Len(owners'), at : 0..Len(lambdas') + 1]
       /\ reference'.at = 0
  <2>1. "" \in Identifiers \cup {""} /\ 0 \in 0..Len(owners') /\ 0 \in 0..Len(lambdas') + 1
    BY <1>1, <1>6, <1>9
  <2>2. NoReference \in [name : Identifiers \cup {""}, id : 0..Len(owners'), at : 0..Len(lambdas') + 1]
    BY <2>1 DEF NoReference
  <2> QED BY <1>2, <2>2 DEF NoReference
<1>11. NamesTypeOK'
  <2>1. families' \subseteq Nat /\ stage' \in {"declaring", "items", "failed"}
    BY <1>1, Zenon DEF NamesTypeOK
  <2>2. nextLambda' \in Nat \ {0} /\ current' \in Nat
    BY <1>1, <1>2
  <2> QED BY <1>5, <1>6, <1>8, <1>10, <2>1, <2>2
     DEF NamesTypeOK, ScopeType, OwnerType, ConstructType, LambdaType, CaptureType
<1>12. \A f \in 1..k + 1 : f \in 1..k \/ f = k + 1
  BY <1>1
<1>13. /\ CapturesHeldOutside'
       /\ \A f \in DOMAIN lambdas' : \A c \in DOMAIN lambdas'[f].captures :
            /\ lambdas'[f].captures[c].source \in 1..Len(owners')
            /\ lambdas'[f].captures[c].binding \in 1..Len(owners')
  <2>1. ASSUME NEW f \in DOMAIN lambdas'
        PROVE  \/ lambdas'[f].captures = <<>>
               \/ /\ f \in DOMAIN lambdas /\ lambdas'[f] = lambdas[f]
                  /\ f > 1 => lambdas'[f - 1] = lambdas[f - 1]
    <3>1. CASE f \in 1..k
      <4>1. f > 1 => f - 1 \in 1..k
        BY <3>1, <1>1
      <4> QED BY <3>1, <4>1, <1>1, <1>6
    <3>2. CASE f = k + 1
      BY <3>2, <1>4, <1>6
    <3> QED BY <3>1, <3>2, <1>6, <1>12
  <2> QED BY <1>1, <1>9, <2>1, CapturesKept
<1>14. /\ \A f \in 1..k : lambdas[f].id \in Nat /\ 0 < lambdas[f].id /\ lambdas[f].id < nextLambda
       /\ lambdas'[k + 1].id = nextLambda
  <2>1. \A f \in 1..k : lambdas[f] \in LambdaType
    BY <1>1, LengthsAre
  <2> QED BY <2>1, <1>1, <1>4, <1>6 DEF Ranged, LambdaType
<1>15. Ranged'
  <2>1. \A f \in DOMAIN lambdas' : 0 < lambdas'[f].id /\ lambdas'[f].id < nextLambda'
    <3>1. ASSUME NEW f \in 1..k
          PROVE  0 < lambdas'[f].id /\ lambdas'[f].id < nextLambda'
      BY <1>1, <1>2, <1>6, <1>14
    <3>2. 0 < lambdas'[k + 1].id /\ lambdas'[k + 1].id < nextLambda'
      BY <1>1, <1>2, <1>14
    <3> QED BY <3>1, <3>2, <1>6, <1>12
  <2>2. stage' # "declaring"
    OBVIOUS
  <2>3. ~ (reference'.at > 0)
    <3>1. ~ (0 > 0)
      OBVIOUS
    <3> QED BY <1>10, <3>1, Zenon
  <2> QED BY <1>13, <2>1, <2>2, <2>3, Zenon DEF Ranged
<1>16. \A j \in 0..n : InLambda(j) \in Nat /\ InLambda(j) < nextLambda
  BY InLambdaIs
<1>17. \A j \in 0..n + 1 : j \in 0..n \/ j = n + 1
  BY <1>1
<1>18. Nested'
  <2>1. Len(scopes') = Len(open') + 1
    BY <1>1, <1>5, <1>8
  <2>2. InLambda(0)' = 0
    <3>1. 0 \in 0..n
      BY <1>1
    <3> QED BY <3>1, <1>1, <1>5 DEF Nested
  <2>3. ASSUME NEW i \in 0..Len(open'), NEW j \in 0..Len(open'), i < j
        PROVE  /\ InLambda(i)' <= InLambda(j)'
               /\ open'[j].kind = "lambda" => InLambda(i)' < InLambda(j)'
    <3>1. CASE j \in 0..n
      <4>1. i \in 0..n /\ j \in 1..n
        BY <3>1, <2>3, <1>1, <1>5
      <4>2. /\ InLambda(i) <= InLambda(j)
            /\ open[j].kind = "lambda" => InLambda(i) < InLambda(j)
        BY <4>1, <3>1, <2>3, <1>1 DEF Nested
      <4> QED BY <4>1, <4>2, <3>1, <1>5
    <3>2. CASE j = n + 1
      <4>1. i \in 0..n
        BY <3>2, <2>3, <1>1, <1>5
      <4>2. InLambda(i)' = InLambda(i) /\ InLambda(j)' = nextLambda
        BY <4>1, <3>2, <1>5
      <4> QED BY <4>1, <4>2, <1>1, <1>16
    <3> QED BY <1>17, <3>1, <3>2, <1>5
  <2>4. ASSUME NEW j \in 1..Len(open'), open'[j].kind # "lambda"
        PROVE  \A m \in {j - 1} : InLambda(j)' = InLambda(m)'
    <3>1. j # n + 1
      BY <2>4, <1>3, <1>5
    <3>2. j \in 1..n /\ j \in 0..n /\ j - 1 \in 0..n
      BY <3>1, <1>1, <1>5
    <3>3. InLambda(j) = InLambda(j - 1)
      BY <3>2, <1>1, <1>5, <2>4 DEF Nested
    <3> QED BY <3>2, <3>3, <1>5
  <2>5. ASSUME NEW j \in 0..Len(open'), InLambda(j)' # 0
        PROVE  \E f \in DOMAIN lambdas' : lambdas'[f].id = InLambda(j)'
    <3>1. CASE j \in 0..n
      <4>1. PICK f \in 1..k : lambdas[f].id = InLambda(j)
        BY <3>1, <2>5, <1>1, <1>5 DEF Nested
      <4>2. f \in 1..k + 1
        BY <1>1
      <4> QED BY <3>1, <4>1, <4>2, <1>5, <1>6
    <3>2. CASE j = n + 1
      <4>1. k + 1 \in 1..k + 1
        BY <1>1
      <4> QED BY <3>2, <4>1, <1>5, <1>6, <1>14
    <3> QED BY <3>1, <3>2, <1>17, <1>5
  <2>6. ASSUME NEW f \in DOMAIN lambdas'
        PROVE  \E j \in 1..Len(open') : open'[j].kind = "lambda" /\ InLambda(j)' = lambdas'[f].id
    <3>1. CASE f \in 1..k
      <4>1. PICK j \in 1..n : open[j].kind = "lambda" /\ InLambda(j) = lambdas[f].id
        BY <1>1, <3>1 DEF Nested
      <4>2. j \in 1..Len(open') /\ j \in 0..n
        BY <4>1, <1>1, <1>5
      <4> QED BY <3>1, <4>1, <4>2, <1>5, <1>6
    <3>2. CASE f = k + 1
      <4>1. n + 1 \in 1..Len(open')
        BY <1>1, <1>5
      <4> QED BY <3>2, <4>1, <1>3, <1>5, <1>14
    <3> QED BY <3>1, <3>2, <1>6, <1>12
  <2>7. ASSUME NEW f \in DOMAIN lambdas', NEW g \in DOMAIN lambdas', f < g
        PROVE  lambdas'[f].id < lambdas'[g].id
    <3>1. f \in 1..k
      BY <2>7, <1>1, <1>6
    <3>2. CASE g \in 1..k
      BY <3>1, <3>2, <2>7, <1>1, <1>6 DEF Nested
    <3>3. CASE g = k + 1
      BY <3>1, <3>3, <1>6, <1>14
    <3> QED BY <3>2, <3>3, <1>6, <1>12
  <2> QED BY <2>1, <2>2, <2>3, <2>4, <2>5, <2>6, <2>7 DEF Nested
<1>19. ScopesOwned'
  <2>1. ASSUME NEW i \in 1..Len(scopes')
        PROVE  \A m \in {i - 1} : Fits(scopes'[i], i = 1, InLambda(m)', owners', origin')
    <3>1. CASE i \in 1..n + 1
      <4>1. i - 1 \in 0..n /\ i \in 1..Len(scopes)
        BY <3>1, <1>1
      <4> QED BY <3>1, <4>1, <1>5, <1>8
    <3>2. CASE i = n + 2
      BY <3>2, <1>8 DEF Fits, NothingDeclared
    <3>3. i \in 1..n + 1 \/ i = n + 2
      BY <1>1, <1>8
    <3> QED BY <3>1, <3>2, <3>3, Zenon
  <2> QED BY <2>1 DEF ScopesOwned, Fits
<1>20. ReferencesLexical' /\ InProgress'
  <2>1. k + 1 \in Nat
    BY <1>1
  <2> QED BY <2>1, <1>6, <1>10, NoReferenceKeeps
<1> QED BY <1>11, <1>13, <1>15, <1>18, <1>19, <1>20 DEF NamesInv

\* The end of a construct gives the lambda around it back to the walk.
LEMMA CloseKeeps ==
    ASSUME NamesInv, Close
    PROVE  NamesInv'
<1> DEFINE n == Len(open)
           k == Len(lambdas)
<1>1. /\ NamesTypeOK /\ Ranged /\ Nested /\ ScopesOwned /\ CapturesHeldOutside
      /\ stage = "items" /\ open # <<>>
      /\ Len(scopes) = n + 1 /\ n \in Nat /\ scopes \in Seq(ScopeType) /\ scopes # <<>>
      /\ k \in Nat /\ DOMAIN lambdas = 1..k /\ current \in Nat
      /\ lambdas \in Seq(LambdaType) /\ open \in Seq(ConstructType)
  BY LengthsAre DEF NamesInv, NamesTypeOK, Nested, Close, Walking
<1>2. /\ scopes' = Front(scopes) /\ open' = Front(open) /\ reference' = NoReference
      /\ stage' = stage /\ owners' = owners /\ origin' = origin /\ families' = families
      /\ nextLambda' = nextLambda
      /\ IF Last(open).kind = "lambda"
         THEN lambdas' = Front(lambdas) /\ current' = Last(open).outer
         ELSE lambdas' = lambdas /\ current' = current
  BY DEF Close
<1>3. n \in Nat \ {0} /\ n \in 1..n
  BY <1>1, EmptySeq
<1>4. Last(open) = open[n] /\ open[n] \in ConstructType
  BY <1>1, <1>3, LengthsAre DEF Last
<1>5. /\ open' \in Seq(ConstructType) /\ Len(open') = n - 1
      /\ \A j \in 1..n - 1 : j \in 1..n /\ open'[j] = open[j]
  <2>1. DOMAIN open = 1..n
    BY <1>1, LengthsAre
  <2> QED BY <1>1, <1>2, <2>1, FrontIs
<1>6. /\ scopes' \in Seq(ScopeType) /\ Len(scopes') = n
      /\ \A i \in 1..n : scopes'[i] = scopes[i]
  <2>1. /\ scopes' \in Seq(ScopeType) /\ Len(scopes') = Len(scopes) - 1
        /\ \A i \in 1..Len(scopes) - 1 : scopes'[i] = scopes[i]
    BY <1>1, <1>2, FrontIs
  <2>2. Len(scopes) - 1 = n
    BY <1>1
  <2> QED BY <2>1, <2>2
<1>7. InLambda(n) = current /\ InLambda(n - 1) = open[n].outer
  <2>1. n - 1 # n /\ n - 1 + 1 = n
    BY <1>3
  <2> QED BY <2>1 DEF InLambda
<1>8. current' = InLambda(n - 1)
  <2>1. CASE open[n].kind = "lambda"
    BY <2>1, <1>2, <1>4, <1>7
  <2>2. CASE open[n].kind # "lambda"
    BY <2>2, <1>1, <1>2, <1>3, <1>4, <1>7 DEF Nested
  <2> QED BY <2>1, <2>2
<1>9. ASSUME NEW j \in 0..n - 1 PROVE InLambda(j)' = InLambda(j)
  <2>1. CASE j = n - 1
    <3>1. InLambda(j)' = current'
      BY <2>1, <1>5 DEF InLambda
    <3> QED BY <2>1, <3>1, <1>8
  <2>2. CASE j # n - 1
    <3>1. j + 1 \in 1..n - 1 /\ j # n
      BY <2>2, <1>3
    <3>2. InLambda(j)' = open'[j + 1].outer
      BY <2>2, <1>5 DEF InLambda
    <3> QED BY <3>1, <3>2, <1>5 DEF InLambda
  <2> QED BY <2>1, <2>2
<1>10. /\ \A j \in 0..n : InLambda(j) \in Nat
       /\ \A f \in 1..k : lambdas[f] \in LambdaType
  BY <1>1, InLambdaIs, LengthsAre
<1>11. /\ lambdas' \in Seq(LambdaType)
       /\ \E m \in Nat :
            /\ DOMAIN lambdas' = 1..m /\ Len(lambdas') = m /\ m <= k
            /\ \A f \in 1..m : f \in 1..k /\ lambdas'[f] = lambdas[f]
            /\ \A f \in 1..k :
                  f \in 1..m \/ (open[n].kind = "lambda" /\ f = k /\ lambdas[f].id = InLambda(n))
            /\ open[n].kind = "lambda" => \A f \in 1..m : lambdas[f].id < InLambda(n)
  <2>1. CASE open[n].kind = "lambda"
    <3>1. InLambda(n - 1) < InLambda(n)
      <4>1. n - 1 \in 0..n /\ n \in 0..n /\ n - 1 < n
        BY <1>3
      <4> QED BY <4>1, <2>1, <1>1 DEF Nested
    <3>2. current # 0
      <4>1. n - 1 \in 0..n
        BY <1>3
      <4> QED BY <4>1, <3>1, <1>7, <1>10
    <3>3. lambdas # <<>> /\ lambdas[k].id = current
      BY <3>2, CurrentIs
    <3>4. k \in Nat \ {0} /\ k \in 1..k
      BY <1>1, <3>3, EmptySeq
    <3>5. /\ lambdas' \in Seq(LambdaType) /\ Len(lambdas') = k - 1 /\ DOMAIN lambdas' = 1..k - 1
          /\ \A f \in 1..k - 1 : f \in 1..k /\ lambdas'[f] = lambdas[f]
      BY <1>1, <1>2, <1>4, <2>1, <3>3, FrontIs
    <3>6. \A f \in 1..k : f \in 1..k - 1 \/ f = k
      BY <3>4
    <3>7. \A f \in 1..k - 1 : f < k /\ f \in 1..k
      BY <3>4
    <3>8. ASSUME NEW f \in 1..k - 1 PROVE lambdas[f].id < InLambda(n)
      <4>1. lambdas[f].id < lambdas[k].id
        BY <3>4, <3>7, <1>1 DEF Nested
      <4> QED BY <4>1, <3>3, <1>7
    <3>9. k - 1 \in Nat /\ k - 1 <= k
      BY <3>4
    <3> QED BY <2>1, <3>3, <3>5, <3>6, <3>8, <3>9, <1>7
  <2>2. CASE open[n].kind # "lambda"
    <3>1. lambdas' = lambdas
      BY <2>2, <1>2, <1>4
    <3>2. k <= k
      BY <1>1
    <3> QED BY <2>2, <3>1, <3>2, <1>1
  <2> QED BY <2>1, <2>2
<1>12. PICK m \in Nat :
            /\ DOMAIN lambdas' = 1..m /\ Len(lambdas') = m /\ m <= k
            /\ \A f \in 1..m : f \in 1..k /\ lambdas'[f] = lambdas[f]
            /\ \A f \in 1..k :
                  f \in 1..m \/ (open[n].kind = "lambda" /\ f = k /\ lambdas[f].id = InLambda(n))
            /\ open[n].kind = "lambda" => \A f \in 1..m : lambdas[f].id < InLambda(n)
  BY <1>11
<1>13. reference' \in [name : Identifiers \cup {""}, id : 0..Len(owners'), at : 0..Len(lambdas') + 1]
       /\ reference'.at = 0
  <2>1. Len(owners') \in Nat
    BY <1>2, LengthsAre DEF NamesInv
  <2>2. "" \in Identifiers \cup {""} /\ 0 \in 0..Len(owners') /\ 0 \in 0..Len(lambdas') + 1
    BY <2>1, <1>12
  <2>3. NoReference \in [name : Identifiers \cup {""}, id : 0..Len(owners'), at : 0..Len(lambdas') + 1]
    BY <2>2 DEF NoReference
  <2> QED BY <1>2, <2>3 DEF NoReference
<1>14. NamesTypeOK'
  <2>1. scopes' # <<>>
    BY <1>3, <1>6, EmptySeq
  <2>2. families' \subseteq Nat /\ stage' \in {"declaring", "items", "failed"}
        /\ Len(origin') = Len(owners') /\ nextLambda' \in Nat \ {0}
    BY <1>1, <1>2, Zenon DEF NamesTypeOK
  <2>3. owners' \in Seq(OwnerType) /\ origin' \in Seq(Nat)
    BY <1>2, LengthsAre DEF NamesInv
  <2>4. current' \in Nat
    <3>1. n - 1 \in 0..n
      BY <1>3
    <3> QED BY <3>1, <1>8, <1>10
  <2> QED BY <1>5, <1>6, <1>11, <1>13, <2>1, <2>2, <2>3, <2>4
     DEF NamesTypeOK, ScopeType, OwnerType, ConstructType, LambdaType, CaptureType
<1>15. /\ CapturesHeldOutside'
       /\ \A f \in DOMAIN lambdas' : \A c \in DOMAIN lambdas'[f].captures :
            /\ lambdas'[f].captures[c].source \in 1..Len(owners')
            /\ lambdas'[f].captures[c].binding \in 1..Len(owners')
  <2>1. Len(owners') \in Nat /\ Grown
    <3>1. Len(owners) \in Nat
      BY <1>1, LengthsAre
    <3> QED BY <3>1, <1>2 DEF Grown
  <2>2. \A f \in DOMAIN lambdas' : f \in DOMAIN lambdas /\ lambdas'[f] = lambdas[f]
    BY <1>1, <1>12
  <2>3. ASSUME NEW f \in DOMAIN lambdas', f > 1
        PROVE  lambdas'[f - 1] = lambdas[f - 1]
    <3>1. f - 1 \in 1..m
      BY <2>3, <1>12
    <3> QED BY <3>1, <1>12
  <2> QED BY <1>1, <2>1, <2>2, <2>3, CapturesKept
<1>16. Ranged'
  <2>1. \A f \in DOMAIN lambdas' : 0 < lambdas'[f].id /\ lambdas'[f].id < nextLambda'
    BY <1>1, <1>2, <1>12 DEF Ranged
  <2>2. stage' # "declaring"
    BY <1>1, <1>2
  <2>3. ~ (reference'.at > 0)
    <3>1. ~ (0 > 0)
      OBVIOUS
    <3> QED BY <1>13, <3>1, Zenon
  <2> QED BY <1>15, <2>1, <2>2, <2>3, Zenon DEF Ranged
<1>17. Nested'
  <2>1. Len(scopes') = Len(open') + 1
    BY <1>3, <1>5, <1>6
  <2>2. InLambda(0)' = 0
    <3>1. 0 \in 0..n - 1
      BY <1>3
    <3> QED BY <3>1, <1>1, <1>9 DEF Nested
  <2>3. ASSUME NEW i \in 0..Len(open'), NEW j \in 0..Len(open'), i < j
        PROVE  /\ InLambda(i)' <= InLambda(j)'
               /\ open'[j].kind = "lambda" => InLambda(i)' < InLambda(j)'
    <3>1. i \in 0..n - 1 /\ j \in 0..n - 1 /\ j \in 1..n - 1 /\ i \in 0..n /\ j \in 0..n
      BY <2>3, <1>3, <1>5
    <3>2. /\ InLambda(i) <= InLambda(j)
          /\ open[j].kind = "lambda" => InLambda(i) < InLambda(j)
      BY <3>1, <2>3, <1>1 DEF Nested
    <3> QED BY <3>1, <3>2, <1>5, <1>9
  <2>4. ASSUME NEW j \in 1..Len(open'), open'[j].kind # "lambda"
        PROVE  \A i \in {j - 1} : InLambda(j)' = InLambda(i)'
    <3>1. j \in 1..n - 1 /\ j \in 1..n /\ j \in 0..n - 1 /\ j - 1 \in 0..n - 1
      BY <1>3, <1>5
    <3>2. InLambda(j) = InLambda(j - 1)
      BY <3>1, <2>4, <1>1, <1>5 DEF Nested
    <3> QED BY <3>1, <3>2, <1>9
  <2>5. ASSUME NEW j \in 0..Len(open'), InLambda(j)' # 0
        PROVE  \E f \in DOMAIN lambdas' : lambdas'[f].id = InLambda(j)'
    <3>1. j \in 0..n - 1 /\ j \in 0..n /\ n \in 0..n /\ j < n
      BY <1>3, <1>5
    <3>2. PICK f \in 1..k : lambdas[f].id = InLambda(j)
      BY <3>1, <2>5, <1>1, <1>9 DEF Nested
    <3>3. f \in 1..m
      <4>1. CASE open[n].kind = "lambda" /\ lambdas[f].id = InLambda(n)
        <5>1. InLambda(j) < InLambda(n)
          BY <4>1, <3>1, <1>1, <1>3 DEF Nested
        <5> QED BY <5>1, <4>1, <3>1, <3>2, <1>10
      <4> QED BY <4>1, <1>12
    <3> QED BY <3>1, <3>2, <3>3, <1>9, <1>12
  <2>6. ASSUME NEW f \in DOMAIN lambdas'
        PROVE  \E j \in 1..Len(open') : open'[j].kind = "lambda" /\ InLambda(j)' = lambdas'[f].id
    <3>1. f \in 1..m /\ f \in 1..k /\ lambdas'[f] = lambdas[f]
      BY <1>12
    <3>2. PICK j \in 1..n : open[j].kind = "lambda" /\ InLambda(j) = lambdas[f].id
      BY <1>1, <3>1 DEF Nested
    <3>3. j # n
      <4>1. CASE j = n
        <5>1. lambdas[f].id < InLambda(n) /\ lambdas[f].id = InLambda(n) /\ InLambda(n) \in Nat
          BY <3>1, <3>2, <4>1, <1>3, <1>7, <1>1, <1>12
        <5> QED BY <5>1
      <4> QED BY <4>1
    <3>4. j \in 1..n - 1 /\ j \in 0..n - 1
      BY <3>3, <1>3
    <3> QED BY <3>1, <3>2, <3>4, <1>5, <1>9
  <2>7. ASSUME NEW f \in DOMAIN lambdas', NEW g \in DOMAIN lambdas', f < g
        PROVE  lambdas'[f].id < lambdas'[g].id
    <3>1. f \in 1..k /\ g \in 1..k /\ lambdas'[f] = lambdas[f] /\ lambdas'[g] = lambdas[g]
      BY <1>12
    <3> QED BY <3>1, <2>7, <1>1 DEF Nested
  <2> QED BY <2>1, <2>2, <2>3, <2>4, <2>5, <2>6, <2>7 DEF Nested
<1>18. ScopesOwned'
  <2>1. ASSUME NEW i \in 1..Len(scopes')
        PROVE  \A j \in {i - 1} : Fits(scopes'[i], i = 1, InLambda(j)', owners', origin')
    <3>1. i \in 1..n /\ i - 1 \in 0..n - 1 /\ i \in 1..Len(scopes)
      BY <1>1, <1>3, <1>6
    <3>2. Fits(scopes[i], i = 1, InLambda(i - 1), owners, origin)
      BY <3>1, <1>1 DEF ScopesOwned
    <3> QED BY <3>1, <3>2, <1>2, <1>6, <1>9
  <2> QED BY <2>1 DEF ScopesOwned, Fits
<1>19. ReferencesLexical' /\ InProgress'
  BY <1>12, <1>13, NoReferenceKeeps
<1> QED BY <1>14, <1>15, <1>16, <1>17, <1>18, <1>19 DEF NamesInv

\* While nothing but the reference changes, what is said of scopes and frames stays.
LEMMA OnlyReferred ==
    ASSUME NamesInv, stage = "items", stage' = stage,
           scopes' = scopes, owners' = owners, origin' = origin, families' = families,
           lambdas' = lambdas, current' = current, nextLambda' = nextLambda, open' = open,
           NEW n \in Identifiers, NEW id \in 1..Len(owners), NEW at \in 1..Len(lambdas) + 1,
           reference' = [name |-> n, id |-> id, at |-> at],
           Declaring(n) # {}, origin[id] = Lookup(n),
           \/ owners[id].kind \in {"predefined", "top"}
           \/ owners[id] = Owner("result", current)
           \/ at > 1 /\ Holds(at - 1, id),
           at \in 1..Len(lambdas) => at > 1 /\ Holds(at - 1, id)
    PROVE  NamesInv'
<1>1. /\ NamesTypeOK /\ Ranged /\ Nested /\ ScopesOwned /\ CapturesHeldOutside
      /\ Len(owners) \in Nat /\ Len(lambdas) \in Nat /\ DOMAIN lambdas = 1..Len(lambdas)
  BY LengthsAre DEF NamesInv
<1>2. /\ reference'.name = n /\ reference'.id = id /\ reference'.at = at
      /\ id \in 0..Len(owners) /\ id > 0 /\ at \in 0..Len(lambdas) + 1
  BY <1>1
<1>3. reference' \in [name : Identifiers \cup {""}, id : 0..Len(owners'), at : 0..Len(lambdas') + 1]
  BY <1>2
<1>4. NamesTypeOK'
  BY <1>1, <1>3 DEF NamesTypeOK
<1>5. Ranged'
  BY <1>1, <1>2 DEF Ranged
<1>6. Nested' /\ \A j : InLambda(j)' = InLambda(j)
  BY <1>1, NestedKept
<1>7. ScopesOwned'
  BY <1>1, <1>6 DEF ScopesOwned, Fits
<1>8. CapturesHeldOutside'
  BY <1>1 DEF CapturesHeldOutside, Holds
<1>9. Declaring(n)' = Declaring(n) /\ Lookup(n)' = Lookup(n)
  BY DEF Declaring, Lookup
<1>10. \A i, v : Holds(i, v)' = Holds(i, v)
  BY DEF Holds
<1>11. ReferencesLexical'
  <2>1. Declaring(reference.name)' # {} /\ origin'[reference'.id] = Lookup(reference.name)'
    BY <1>2 DEF Declaring, Lookup
  <2>2. \/ owners'[reference'.id].kind \in {"predefined", "top"}
        \/ owners'[reference'.id] = Owner("result", current')
        \/ reference'.at > 1 /\ Holds(reference.at - 1, reference.id)'
    BY <1>2 DEF Holds
  <2> QED BY <2>1, <2>2 DEF ReferencesLexical
<1>12. InProgress'
  <2>1. Capturing' => at \in 1..Len(lambdas)
    BY <1>1, <1>2 DEF Capturing
  <2>2. Capturing' => reference'.at > 1 /\ Holds(reference.at - 1, reference.id)'
    BY <2>1, <1>2 DEF Holds
  <2> QED BY <2>2 DEF InProgress
<1> QED BY <1>4, <1>5, <1>6, <1>7, <1>8, <1>11, <1>12 DEF NamesInv

\* A lambda that owns a name in scope is on the stack, so a reference finds its frame.
LEMMA ReferKeeps ==
    ASSUME NamesInv, NEW n \in Identifiers, Refer(n)
    PROVE  NamesInv'
<1> DEFINE id == Lookup(n)
           k == Len(lambdas)
           here == owners[id].kind \in {"predefined", "top"} \/ owners[id].lambda = current
<1>1. /\ NamesTypeOK /\ Ranged /\ Nested /\ stage = "items"
      /\ Len(owners) \in Nat /\ k \in Nat /\ DOMAIN lambdas = 1..k /\ current \in Nat
      /\ lambdas \in Seq(LambdaType)
      /\ \A f \in 1..k : lambdas[f] \in LambdaType
      /\ \A i \in 1..Len(owners) : owners[i] \in OwnerType
  BY LengthsAre DEF NamesInv, NamesTypeOK, Refer, Walking
<1>2. CASE Declaring(n) = {}
  BY <1>2, RejectKeeps DEF Refer, Reject
<1>3. CASE Declaring(n) # {}
  <2>1. /\ id \in 1..Len(owners) /\ origin[id] = id
        /\ \/ owners[id].kind \in {"predefined", "top"}
           \/ /\ owners[id].kind \in {"lambda", "result"}
              /\ \E f \in 1..k : lambdas[f].id = owners[id].lambda
    BY <1>3, LookupIs
  <2>2. owners[id] \in OwnerType
    BY <1>1, <2>1
  <2>3. /\ here => Resolved(n, id) /\ stage' = stage
        /\ ~here => IF owners[id].kind = "result"
                    THEN stage' = "failed" /\ reference' = reference
                    ELSE IF FirstFrame(owners[id].lambda) = 0
                    THEN stage' = "panic" /\ reference' = reference
                    ELSE /\ reference' = [name |-> n, id |-> id, at |-> FirstFrame(owners[id].lambda)]
                         /\ stage' = stage
        /\ scopes' = scopes /\ owners' = owners /\ origin' = origin /\ families' = families
        /\ lambdas' = lambdas /\ current' = current /\ nextLambda' = nextLambda /\ open' = open
    BY <1>3 DEF Refer
  <2> HIDE DEF id
  <2>4. CASE here
    <3>1. reference' = [name |-> n, id |-> id, at |-> k + 1] /\ k + 1 \in 1..k + 1
      BY <2>3, <2>4, <1>1 DEF Resolved
    <3>2. ~ (k + 1 \in 1..k)
      BY <1>1
    <3>3. \/ owners[id].kind \in {"predefined", "top"}
          \/ owners[id] = Owner("result", current)
          \/ k + 1 > 1 /\ Holds(k + 1 - 1, id)
      <4>1. CASE owners[id].kind = "result" /\ owners[id].lambda = current
        BY <4>1, <2>2 DEF OwnerType, Owner
      <4>2. CASE owners[id].kind = "lambda" /\ owners[id].lambda = current
        <5>1. k # 0
          BY <2>1, <4>2, <1>1
        <5>2. lambdas # <<>>
          BY <5>1
        <5>3. current = lambdas[k].id
          BY <5>2, CurrentIs
        <5>4. owners[id] = Owner("lambda", lambdas[k].id)
          BY <4>2, <5>3, <2>2 DEF OwnerType, Owner
        <5>5. k + 1 - 1 = k /\ k + 1 > 1
          BY <5>1, <1>1
        <5> QED BY <5>4, <5>5 DEF Holds
      <4> QED BY <2>1, <2>4, <4>1, <4>2
    <3>4. Declaring(n) # {} /\ origin[id] = Lookup(n)
      BY <1>3, <2>1 DEF id
    <3>5. stage' = stage
      BY <2>3, <2>4
    <3> HIDE DEF k
    <3>6. k = Len(lambdas)
      BY DEF k
    <3> QED BY <1>1, <2>1, <2>3, <3>1, <3>2, <3>3, <3>4, <3>5, <3>6, OnlyReferred
  <2>5. CASE ~here /\ owners[id].kind = "result"
    <3>1. Reject
      BY <2>3, <2>5 DEF Reject
    <3> QED BY <3>1, RejectKeeps
  <2>6. CASE ~here /\ owners[id].kind # "result"
    <3>1. owners[id].kind = "lambda" /\ \E f \in DOMAIN lambdas : lambdas[f].id = owners[id].lambda
      BY <2>1, <2>6, <1>1
    <3> DEFINE f == CHOOSE i \in DOMAIN lambdas : lambdas[i].id = owners[id].lambda
    <3>2. f \in 1..k /\ lambdas[f].id = owners[id].lambda
      BY <3>1, <1>1
    <3>3. FirstFrame(owners[id].lambda) = f + 1
      BY <3>1 DEF FirstFrame
    <3> HIDE DEF f
    <3>4. /\ f + 1 # 0 /\ f + 1 \in 1..k + 1 /\ f + 1 > 1 /\ f + 1 - 1 = f
      BY <3>2, <1>1
    <3>5. reference' = [name |-> n, id |-> id, at |-> f + 1] /\ stage' = stage
      BY <2>3, <2>6, <3>3, <3>4
    <3>6. Holds(f, id)
      <4>1. owners[id] = Owner("lambda", lambdas[f].id)
        BY <3>1, <3>2, <2>2 DEF OwnerType, Owner
      <4> QED BY <4>1 DEF Holds
    <3>7. Declaring(n) # {} /\ origin[id] = Lookup(n)
      BY <1>3, <2>1 DEF id
    <3>9. /\ scopes' = scopes /\ owners' = owners /\ origin' = origin /\ families' = families
          /\ lambdas' = lambdas /\ current' = current /\ nextLambda' = nextLambda /\ open' = open
          /\ id \in 1..Len(owners) /\ f + 1 \in 1..Len(lambdas) + 1 /\ stage = "items"
      BY <1>1, <2>1, <2>3, <3>4
    <3> DEFINE at == f + 1
    <3>10. /\ at \in 1..Len(lambdas) + 1 /\ reference' = [name |-> n, id |-> id, at |-> at]
           /\ at > 1 /\ Holds(at - 1, id)
      <4>1. at \in 1..Len(lambdas) + 1 /\ reference' = [name |-> n, id |-> id, at |-> at]
            /\ at > 1 /\ at - 1 = f
        BY <3>2, <3>4, <3>5, <3>9
      <4> HIDE DEF at
      <4> QED BY <4>1, <3>6
    <3> HIDE DEF at
    <3>11. /\ \/ owners[id].kind \in {"predefined", "top"}
              \/ owners[id] = Owner("result", current)
              \/ at > 1 /\ Holds(at - 1, id)
           /\ at \in 1..Len(lambdas) => at > 1 /\ Holds(at - 1, id)
      BY <3>10
    <3> QED BY <3>5, <3>7, <3>9, <3>10, <3>11, OnlyReferred, Zenon
  <2> QED BY <2>4, <2>5, <2>6
<1> QED BY <1>2, <1>3

\* One frame of a reference's way: what it finds or captures there the next frame is given.
LEMMA CaptureKeeps ==
    ASSUME NamesInv, Capture
    PROVE  NamesInv'
<1> DEFINE at == reference.at
           id == reference.id
           n == reference.name
           k == Len(lambdas)
           len == Len(owners)
           frame == lambdas[at]
           Forward(to) == reference' = [reference EXCEPT !.id = to, !.at = at + 1]
<1>0. /\ at = reference.at /\ id = reference.id /\ n = reference.name /\ k = Len(lambdas)
      /\ len = Len(owners) /\ frame = lambdas[at]
  OBVIOUS
<1>1. /\ NamesTypeOK /\ Ranged /\ Nested /\ ScopesOwned /\ CapturesHeldOutside /\ stage = "items"
      /\ ReferencesLexical /\ InProgress
      /\ len \in Nat /\ k \in Nat /\ DOMAIN lambdas = 1..k /\ lambdas \in Seq(LambdaType)
      /\ owners \in Seq(OwnerType) /\ origin \in Seq(Nat) /\ Len(origin) = len
      /\ \A f \in 1..k : lambdas[f] \in LambdaType
      /\ \A i \in 1..len : origin[i] \in Nat
      /\ \A f \in 1..k : 0 < lambdas[f].id /\ lambdas[f].id < nextLambda
  <2>1. NamesTypeOK /\ Ranged
    BY DEF NamesInv
  <2>2. /\ len \in Nat /\ k \in Nat /\ DOMAIN lambdas = 1..k /\ lambdas \in Seq(LambdaType)
        /\ owners \in Seq(OwnerType) /\ origin \in Seq(Nat) /\ Len(origin) = len
        /\ \A f \in 1..k : lambdas[f] \in LambdaType
        /\ \A i \in 1..len : origin[i] \in Nat
    BY <2>1, LengthsAre
  <2>3. \A f \in 1..k : 0 < lambdas[f].id /\ lambdas[f].id < nextLambda
    BY <2>1, <2>2, Zenon DEF Ranged
  <2>4. stage = "items"
    BY DEF Capture
  <2> QED BY <2>1, <2>2, <2>3, <2>4, Zenon DEF NamesInv
<1>1a. reference \in [name : Identifiers \cup {""}, id : 0..len, at : 0..k + 1]
  BY <1>1, Zenon DEF NamesTypeOK
<1>2. Capturing /\ at \in 1..k /\ reference.at > 0 /\ at > 1 /\ Holds(at - 1, id)
  <2>1. Capturing
    BY DEF Capture
  <2>2. at \in 1..k
    BY <2>1, <1>1 DEF Capturing
  <2>3. at > 1 /\ Holds(at - 1, id)
    BY <2>1, <1>1 DEF InProgress
  <2> HIDE DEF at
  <2>4. at > 0
    BY <2>2
  <2> QED BY <1>0, <2>1, <2>2, <2>3, <2>4
<1>3. n \in Identifiers /\ id \in 1..len
  <2>1. n \in Identifiers /\ id > 0
    BY <1>1, <1>2, Zenon DEF Ranged
  <2>2. id \in 0..len
    BY <1>1a
  <2> HIDE DEF id
  <2> QED BY <2>1, <2>2, <1>1
<1>4. Declaring(n) # {} /\ origin[id] = Lookup(n)
  BY <1>1, <1>2, Zenon DEF ReferencesLexical
<1>5. /\ stage' = stage /\ scopes' = scopes /\ families' = families /\ current' = current
      /\ nextLambda' = nextLambda /\ open' = open
  BY DEF Capture
<1>6. frame \in LambdaType
  BY <1>1, <1>2
<1>7. ASSUME NEW to \in Nat, Forward(to)
      PROVE  reference' = [name |-> n, id |-> to, at |-> at + 1]
  BY <1>1a, <1>7
<1>7a. IF frame.self = id
       THEN Forward(id) /\ owners' = owners /\ origin' = origin /\ lambdas' = lambdas
       ELSE IF CapturedIn(frame, id) # {}
       THEN \E i \in CapturedIn(frame, id) : /\ Forward(frame.captures[i].binding)
                                             /\ owners' = owners /\ origin' = origin /\ lambdas' = lambdas
       ELSE /\ owners' = Append(owners, Owner("lambda", frame.id))
            /\ origin' = Append(origin, origin[id])
            /\ lambdas' = [lambdas EXCEPT ![at].captures = Append(@, [source |-> id, binding |-> NewId])]
            /\ Forward(NewId)
  BY DEF Capture
<1> HIDE DEF at, id, n, k, len, frame, Forward
<1>8. at + 1 \in 1..k + 1 /\ at + 1 > 1 /\ at + 1 - 1 = at
  BY <1>1, <1>2
<1>9. ASSUME NEW to \in 1..len, Forward(to), owners' = owners, origin' = origin, lambdas' = lambdas,
             Holds(at, to), origin[to] = origin[id]
      PROVE  NamesInv'
  <2>1. to \in Nat
    OBVIOUS
  <2> DEFINE above == at + 1
  <2>2. /\ reference' = [name |-> n, id |-> to, at |-> above] /\ above \in 1..Len(lambdas) + 1
        /\ above > 1 /\ Holds(above - 1, to) /\ to \in 1..Len(owners) /\ origin[to] = Lookup(n)
        /\ n \in Identifiers /\ Declaring(n) # {} /\ stage = "items"
    <3>1. reference' = [name |-> n, id |-> to, at |-> above]
      BY <1>7, <1>9, <2>1
    <3>2. above \in 1..Len(lambdas) + 1 /\ to \in 1..Len(owners)
      BY <1>0, <1>8, <1>9
    <3>3. above > 1 /\ Holds(above - 1, to)
      <4>1. above > 1 /\ above - 1 = at
        BY <1>1, <1>2, <1>8
      <4> HIDE DEF above
      <4> QED BY <4>1, <1>9
    <3> QED BY <1>1, <1>3, <1>4, <1>9, <3>1, <3>2, <3>3
  <2> HIDE DEF above
  <2>3. /\ \/ owners[to].kind \in {"predefined", "top"}
           \/ owners[to] = Owner("result", current)
           \/ above > 1 /\ Holds(above - 1, to)
        /\ above \in 1..Len(lambdas) => above > 1 /\ Holds(above - 1, to)
    BY <2>2
  <2> QED BY <2>2, <2>3, <1>5, <1>9, OnlyReferred, Zenon
<1>10. CASE frame.self = id
  <2>1. Forward(id) /\ owners' = owners /\ origin' = origin /\ lambdas' = lambdas
    BY <1>10, <1>7a
  <2>2. Holds(at, id)
    BY <1>0, <1>10 DEF Holds
  <2> QED BY <1>3, <1>9, <2>1, <2>2
<1>11. CASE frame.self # id /\ CapturedIn(frame, id) # {}
  <2>1. PICK i \in CapturedIn(frame, id) : /\ Forward(frame.captures[i].binding)
                                           /\ owners' = owners /\ origin' = origin /\ lambdas' = lambdas
    BY <1>11, <1>7a
  <2>2. i \in DOMAIN frame.captures /\ frame.captures[i].source = id
    BY <2>1 DEF CapturedIn
  <2> DEFINE to == frame.captures[i].binding
  <2>3. to \in 1..len
    BY <1>0, <1>1, <1>2, <2>2 DEF Ranged
  <2>4. owners[to] = Owner("lambda", frame.id) /\ origin[to] = origin[id]
    BY <1>0, <1>1, <1>2, <2>2 DEF CapturesHeldOutside
  <2>5. Holds(at, to)
    BY <1>0, <2>4 DEF Holds
  <2> QED BY <1>9, <2>1, <2>3, <2>4, <2>5
<1>12. CASE frame.self # id /\ CapturedIn(frame, id) = {}
  <2> DEFINE new == len + 1
             captures == frame.captures
             capture == [source |-> id, binding |-> new]
             owner == Owner("lambda", frame.id)
             grown == [frame EXCEPT !.captures = Append(captures, capture)]
             m == Len(captures)
  <2>1. /\ owners' = Append(owners, owner) /\ origin' = Append(origin, origin[id])
        /\ lambdas' = [lambdas EXCEPT ![at].captures = Append(@, [source |-> id, binding |-> NewId])]
        /\ Forward(NewId) /\ NewId = new
    BY <1>0, <1>12, <1>7a DEF NewId
  <2>2. captures \in Seq(CaptureType) /\ frame.id \in Nat /\ frame.self \in Nat
        /\ frame = [id |-> frame.id, self |-> frame.self, captures |-> captures]
    BY <1>6 DEF LambdaType
  <2>3. owner \in OwnerType /\ capture \in CaptureType /\ new \in Nat /\ origin[id] \in Nat
    <3>1. origin[id] \in Nat
      BY <1>1, <1>3
    <3> QED BY <3>1, <2>2, <1>1, <1>3 DEF OwnerType, Owner, CaptureType
  <2>4. /\ Append(captures, capture) \in Seq(CaptureType) /\ m \in Nat /\ DOMAIN captures = 1..m
        /\ DOMAIN Append(captures, capture) = 1..m + 1
        /\ \A c \in 1..m : Append(captures, capture)[c] = captures[c]
        /\ Append(captures, capture)[m + 1] = capture
    <3> HIDE DEF captures, capture
    <3> QED BY <2>2, <2>3, AppendIs
  <2>5. /\ grown.id = frame.id /\ grown.self = frame.self
        /\ grown.captures = Append(captures, capture) /\ grown \in LambdaType
    BY <2>2, <2>4 DEF LambdaType
  <2>6. lambdas' = [lambdas EXCEPT ![at] = grown]
    BY <1>0, <2>1
  <2>7. /\ lambdas' \in Seq(LambdaType) /\ Len(lambdas') = k /\ DOMAIN lambdas' = 1..k
        /\ \A f \in 1..k : lambdas'[f] = IF f = at THEN grown ELSE lambdas[f]
    <3> HIDE DEF grown
    <3>1. /\ lambdas' \in Seq(LambdaType) /\ Len(lambdas') = k
          /\ \A f \in 1..k : lambdas'[f] = IF f = at THEN grown ELSE lambdas[f]
      BY <1>1, <1>2, <2>5, <2>6, ExceptSeq
    <3> QED BY <3>1, LenProperties
  <2>8. /\ owners' \in Seq(OwnerType) /\ origin' \in Seq(Nat)
        /\ Len(owners') = len + 1 /\ Len(origin') = len + 1
        /\ owners'[new] = owner /\ origin'[new] = origin[id]
        /\ \A v \in 1..len : owners'[v] = owners[v] /\ origin'[v] = origin[v]
    <3> HIDE DEF owner
    <3>1. /\ owners' \in Seq(OwnerType) /\ Len(owners') = len + 1 /\ owners'[new] = owner
          /\ \A v \in 1..len : owners'[v] = owners[v]
      BY <1>0, <1>1, <2>1, <2>3, AppendIs
    <3>2. /\ origin' \in Seq(Nat) /\ Len(origin') = len + 1 /\ origin'[new] = origin[id]
          /\ \A v \in 1..len : origin'[v] = origin[v]
      BY <1>1, <2>1, <2>3, AppendIs
    <3> QED BY <3>1, <3>2
  <2>9. Grown /\ Len(owners') \in Nat
    BY <1>0, <1>1, <2>8 DEF Grown
  <2>10. reference' = [name |-> n, id |-> new, at |-> at + 1]
    BY <1>7, <2>1, <2>3
  <2> HIDE DEF new, captures, capture, owner, grown, m
  <2>11. /\ reference'.name = n /\ reference'.id = new /\ reference'.at = at + 1
         /\ new \in 1..len + 1 /\ new \in 0..len + 1 /\ new > 0 /\ at + 1 \in 0..k + 1
    BY <2>10, <1>1, <1>2 DEF new
  <2>12. reference' \in [name : Identifiers \cup {""}, id : 0..Len(owners'), at : 0..Len(lambdas') + 1]
    BY <1>3, <2>7, <2>8, <2>10, <2>11
  <2>13. NamesTypeOK'
    <3>1. /\ stage' \in {"declaring", "items", "failed"} /\ families' \subseteq Nat
          /\ scopes' \in Seq([Identifiers -> Nat]) /\ scopes' # <<>>
          /\ current' \in Nat /\ nextLambda' \in Nat \ {0}
          /\ open' \in Seq([kind : {"lambda", "block", "branch", "result"}, outer : Nat])
      BY <1>1, <1>5, Zenon DEF NamesTypeOK
    <3> QED BY <2>7, <2>8, <2>12, <3>1 DEF NamesTypeOK, OwnerType, LambdaType, CaptureType
  <2>14. Nested' /\ \A j : InLambda(j)' = InLambda(j)
    <3>1. DOMAIN lambdas' = DOMAIN lambdas /\ \A f \in DOMAIN lambdas : lambdas'[f].id = lambdas[f].id
      BY <1>0, <1>1, <2>5, <2>7
    <3> QED BY <1>1, <1>5, <3>1, NestedKept
  <2>15. ScopesOwned'
    <3>1. ASSUME NEW i \in 1..Len(scopes)
          PROVE  Fits(scopes[i], i = 1, InLambda(i - 1), owners', origin')
      <4>1. Fits(scopes[i], i = 1, InLambda(i - 1), owners, origin)
        BY <1>1 DEF ScopesOwned
      <4> QED BY <1>1, <2>9, <4>1, FitsKept, Zenon
    <3> QED BY <3>1, <1>5, <2>14 DEF ScopesOwned, Fits
  <2>16. \A f \in 1..k : /\ lambdas'[f].id = lambdas[f].id /\ lambdas'[f].self = lambdas[f].self
    BY <1>0, <2>5, <2>7
  <2>17. ASSUME NEW f \in 1..k, NEW v \in 1..len, Holds(f, v)
         PROVE  Holds(f, v)'
    BY <2>8, <2>16, <2>17 DEF Holds
  <2> DEFINE Kept(f, c) ==
        LET captured == lambdas'[f].captures[c]
        IN  /\ captured.source \in 1..Len(owners') /\ captured.binding \in 1..Len(owners')
            /\ f > 1
            /\ captured.source # lambdas'[f].self
            /\ owners'[captured.source] = Owner("lambda", lambdas'[f - 1].id)
                 \/ captured.source = lambdas'[f - 1].self
            /\ owners'[captured.binding] = Owner("lambda", lambdas'[f].id)
            /\ origin'[captured.binding] = origin'[captured.source]
            /\ \A d \in DOMAIN lambdas'[f].captures :
                   lambdas'[f].captures[d].source = captured.source => d = c
  <2>18. ASSUME NEW f \in 1..k, NEW c \in DOMAIN lambdas[f].captures
         PROVE  LET captured == lambdas[f].captures[c]
                IN  /\ captured.source \in 1..Len(owners') /\ captured.binding \in 1..Len(owners')
                    /\ f > 1 /\ captured.source # lambdas'[f].self
                    /\ owners'[captured.source] = Owner("lambda", lambdas'[f - 1].id)
                         \/ captured.source = lambdas'[f - 1].self
                    /\ owners'[captured.binding] = Owner("lambda", lambdas'[f].id)
                    /\ origin'[captured.binding] = origin'[captured.source]
                    /\ \A d \in DOMAIN lambdas[f].captures :
                           lambdas[f].captures[d].source = captured.source => d = c
    <3> DEFINE source == lambdas[f].captures[c].source
               binding == lambdas[f].captures[c].binding
    <3>1. source \in 1..len /\ binding \in 1..len
      BY <1>0, <1>1, <2>18, Zenon DEF Ranged
    <3>2. /\ f > 1 /\ Holds(f - 1, source) /\ source # lambdas[f].self
          /\ owners[binding] = Owner("lambda", lambdas[f].id) /\ origin[binding] = origin[source]
          /\ \A d \in DOMAIN lambdas[f].captures : lambdas[f].captures[d].source = source => d = c
      BY <1>1, <2>18 DEF CapturesHeldOutside
    <3>3. f - 1 \in 1..k
      BY <3>2, <1>1
    <3> HIDE DEF source, binding
    <3>4. source \in 1..Len(owners') /\ binding \in 1..Len(owners')
      BY <3>1, <2>8, <1>1
    <3>5. owners'[source] = Owner("lambda", lambdas'[f - 1].id) \/ source = lambdas'[f - 1].self
      BY <3>1, <3>2, <3>3, <2>8, <2>16 DEF Holds
    <3> QED BY <3>1, <3>2, <3>4, <3>5, <2>8, <2>16 DEF source, binding
  <2>19. ASSUME NEW f \in 1..k, NEW c \in DOMAIN lambdas'[f].captures
         PROVE  Kept(f, c)
    <3>1. CASE f # at
      <4>1. lambdas'[f].captures = lambdas[f].captures
        BY <3>1, <2>7
      <4> QED BY <4>1, <2>18, <2>19
    <3>2. CASE f = at
      <4>1. /\ lambdas'[f].captures = Append(captures, capture) /\ lambdas[f].captures = captures
            /\ c \in 1..m + 1
        BY <1>0, <3>2, <2>4, <2>5, <2>7, <2>19 DEF captures
      <4>2. \A d \in 1..m : captures[d].source # id
        BY <1>12, <2>4 DEF CapturedIn, captures
      <4>3. CASE c \in 1..m
        <5>1. /\ lambdas'[f].captures[c] = lambdas[f].captures[c] /\ c \in DOMAIN lambdas[f].captures
              /\ lambdas[f].captures[c].source # id
          BY <4>1, <4>2, <4>3, <2>4
        <5>2. ASSUME NEW d \in DOMAIN lambdas'[f].captures,
                     lambdas'[f].captures[d].source = lambdas[f].captures[c].source
              PROVE  d = c
          <6>1. d \in 1..m + 1
            BY <4>1, <5>2, <2>4
          <6>2. d # m + 1
            BY <4>1, <5>1, <5>2, <2>4 DEF capture
          <6>3. d \in 1..m /\ d \in DOMAIN lambdas[f].captures
            BY <6>1, <6>2, <2>4, <4>1
          <6>4. lambdas'[f].captures[d] = lambdas[f].captures[d]
            BY <4>1, <6>3, <2>4
          <6> QED BY <5>1, <5>2, <6>3, <6>4, <2>18
        <5> QED BY <5>1, <5>2, <2>18
      <4>4. CASE c = m + 1
        <5>1. lambdas'[f].captures[c] = capture /\ capture.source = id /\ capture.binding = new
          BY <4>1, <4>4, <2>4 DEF capture
        <5>2. /\ f > 1 /\ id # lambdas'[f].self
              /\ owners'[new] = Owner("lambda", lambdas'[f].id)
          BY <1>0, <3>2, <1>2, <1>12, <2>8, <2>16 DEF owner
        <5>3. /\ id \in 1..Len(owners') /\ new \in 1..Len(owners')
              /\ origin'[new] = origin'[id]
          BY <1>1, <1>3, <2>8, <2>11
        <5>4. owners'[id] = Owner("lambda", lambdas'[f - 1].id) \/ id = lambdas'[f - 1].self
          <6>1. f - 1 \in 1..k
            BY <3>2, <1>2, <1>1
          <6> QED BY <6>1, <3>2, <1>2, <1>3, <2>8, <2>16 DEF Holds
        <5>5. ASSUME NEW d \in DOMAIN lambdas'[f].captures, lambdas'[f].captures[d].source = id
              PROVE  d = c
          <6>1. d \in 1..m + 1
            BY <4>1, <2>4
          <6>2. ~ (d \in 1..m)
            BY <4>1, <4>2, <5>5, <2>4
          <6> QED BY <6>1, <6>2, <4>4, <2>4
        <5> QED BY <5>1, <5>2, <5>3, <5>4, <5>5
      <4>5. c \in 1..m \/ c = m + 1
        BY <4>1, <2>4
      <4> QED BY <4>3, <4>4, <4>5
    <3> QED BY <3>1, <3>2
  <2>20. CapturesHeldOutside'
    <3> SUFFICES ASSUME NEW f \in 1..k, NEW c \in DOMAIN lambdas'[f].captures
                 PROVE  LET captured == lambdas'[f].captures[c]
                        IN  /\ f > 1 /\ \/ owners'[captured.source] = Owner("lambda", lambdas'[f - 1].id)
                                        \/ captured.source = lambdas'[f - 1].self
                            /\ captured.source # lambdas'[f].self
                            /\ owners'[captured.binding] = Owner("lambda", lambdas'[f].id)
                            /\ origin'[captured.binding] = origin'[captured.source]
                            /\ \A d \in DOMAIN lambdas'[f].captures :
                                   lambdas'[f].captures[d].source = captured.source => d = c
      BY <2>7, Zenon DEF CapturesHeldOutside, Holds
    <3> QED BY <2>19
  <2>21. Ranged'
    <3>1. \A f \in 1..k : 0 < lambdas'[f].id /\ lambdas'[f].id < nextLambda'
      BY <1>1, <1>5, <2>16 DEF Ranged
    <3>2. \A f \in 1..k : \A c \in DOMAIN lambdas'[f].captures :
              /\ lambdas'[f].captures[c].source \in 1..Len(owners')
              /\ lambdas'[f].captures[c].binding \in 1..Len(owners')
      BY <2>19
    <3>3. reference'.id > 0 /\ reference'.name \in Identifiers /\ stage' # "declaring"
      BY <1>1, <1>3, <1>5, <2>11
    <3> QED BY <3>1, <3>2, <3>3, <2>7, Zenon DEF Ranged
  <2>22. reference'.at > 1 /\ Holds(reference.at - 1, reference.id)'
    <3>1. owners'[new] = Owner("lambda", lambdas'[at].id)
      BY <1>0, <1>2, <2>8, <2>16 DEF owner
    <3>2. reference'.at - 1 = at /\ reference'.at > 1
      BY <2>11, <1>2
    <3> QED BY <3>1, <3>2, <2>11 DEF Holds
  <2>23. ReferencesLexical'
    <3>1. Declaring(reference.name)' # {} /\ Lookup(reference.name)' = Lookup(n)
      BY <1>4, <1>5, <2>11 DEF Declaring, Lookup
    <3>2. origin'[reference'.id] = Lookup(n)
      BY <1>4, <2>8, <2>11
    <3> QED BY <3>1, <3>2, <2>22 DEF ReferencesLexical
  <2>24. InProgress'
    BY <2>22 DEF InProgress
  <2> QED BY <2>13, <2>14, <2>15, <2>20, <2>21, <2>23, <2>24 DEF NamesInv
<1> QED BY <1>10, <1>11, <1>12

\* Resolver::new: the predefined names belong to the file scope.
LEMMA NamesStart ==
    ASSUME InitNames
    PROVE  NamesInv
<1> DEFINE m == Len(PredefinedNames)
           first == [n \in Identifiers |->
                       IF n \in Range(PredefinedNames)
                       THEN CHOOSE i \in DOMAIN PredefinedNames : PredefinedNames[i] = n
                       ELSE 0]
<1>1. m \in Nat /\ DOMAIN PredefinedNames = 1..m
  BY PredefinedAssumption, LenProperties
<1>2. /\ stage = "declaring" /\ scopes = <<first>>
      /\ owners = [i \in 1..m |-> Predefined] /\ origin = [i \in 1..m |-> i]
      /\ families = {} /\ lambdas = <<>> /\ current = 0 /\ nextLambda = 1
      /\ open = <<>> /\ reference = NoReference
  BY <1>1 DEF InitNames
<1>3. \A n \in Identifiers : first[n] # 0 => first[n] \in 1..m
  <2> SUFFICES ASSUME NEW n \in Identifiers, n \in Range(PredefinedNames)
               PROVE  (CHOOSE i \in DOMAIN PredefinedNames : PredefinedNames[i] = n) \in 1..m
    OBVIOUS
  <2>1. \E i \in DOMAIN PredefinedNames : PredefinedNames[i] = n
    BY DEF Range
  <2> QED BY <1>1, <2>1
<1>4. first \in ScopeType
  <2>1. \A n \in Identifiers : first[n] \in Nat
    <3> HIDE DEF first
    <3> QED BY <1>1, <1>3
  <2> QED BY <2>1 DEF ScopeType
<1> HIDE DEF first
<1>5. scopes \in Seq(ScopeType) /\ Len(scopes) = 1 /\ scopes # <<>> /\ scopes[1] = first
  BY <1>2, <1>4
<1>6. Predefined \in OwnerType /\ Predefined.kind = "predefined"
  BY DEF Predefined, Owner, OwnerType
<1>7. /\ owners \in Seq(OwnerType) /\ origin \in Seq(Nat) /\ Len(owners) = m /\ Len(origin) = m
  <2>1. owners \in [1..m -> OwnerType] /\ origin \in [1..m -> Nat]
    BY <1>1, <1>2, <1>6
  <2>2. owners \in Seq(OwnerType) /\ origin \in Seq(Nat)
    BY <1>1, <2>1, IsASeq
  <2> QED BY <1>1, <1>2, <2>2, LenProperties
<1>8. /\ lambdas \in Seq(LambdaType) /\ open \in Seq(ConstructType) /\ Len(open) = 0 /\ Len(lambdas) = 0
      /\ DOMAIN lambdas = {}
  BY <1>2, EmptySeq
<1>9. /\ reference \in [name : Identifiers \cup {""}, id : 0..Len(owners), at : 0..Len(lambdas) + 1]
      /\ reference.at = 0
  <2>1. "" \in Identifiers \cup {""} /\ 0 \in 0..Len(owners) /\ 0 \in 0..Len(lambdas) + 1
    BY <1>1, <1>7, <1>8
  <2>2. NoReference \in [name : Identifiers \cup {""}, id : 0..Len(owners), at : 0..Len(lambdas) + 1]
    BY <2>1 DEF NoReference
  <2> QED BY <1>2, <2>2 DEF NoReference
<1>10. NamesTypeOK
  <2>1. families \subseteq Nat /\ stage \in {"declaring", "items", "failed"} /\ current \in Nat
        /\ nextLambda \in Nat \ {0}
    BY <1>2
  <2> QED BY <1>5, <1>7, <1>8, <1>9, <2>1
          DEF NamesTypeOK, ScopeType, OwnerType, ConstructType, LambdaType, CaptureType
<1>11. Ranged
  <2>1. ~ (reference.at > 0)
    <3>1. ~ (0 > 0)
      OBVIOUS
    <3> QED BY <1>9, <3>1, Zenon
  <2>2. \A f \in DOMAIN lambdas : FALSE
    BY <1>8
  <2> QED BY <1>2, <1>9, <2>1, <2>2, Zenon DEF Ranged
<1>12. \A j \in 0..0 : InLambda(j) = 0
  BY <1>2, <1>8 DEF InLambda
<1>13. Nested
  BY <1>5, <1>8, <1>12 DEF Nested
<1>14. ScopesOwned
  <2>1. ASSUME NEW n \in Identifiers, first[n] # 0
        PROVE  /\ first[n] \in 1..Len(owners) /\ origin[first[n]] = first[n]
               /\ owners[first[n]].kind \in {"predefined", "top"}
    BY <1>2, <1>3, <1>6, <1>7, <2>1
  <2>2. \A i \in 1..Len(scopes) : i = 1
    BY <1>5
  <2> QED BY <1>5, <2>1, <2>2 DEF ScopesOwned, Fits
<1>15. CapturesHeldOutside
  BY <1>8 DEF CapturesHeldOutside
<1>16. ReferencesLexical /\ InProgress
  <2>1. ~ (reference.at > 0) /\ ~ (reference.at \in DOMAIN lambdas)
    <3>1. ~ (0 > 0)
      OBVIOUS
    <3>2. \A f \in DOMAIN lambdas : FALSE
      BY <1>8
    <3> QED BY <1>9, <3>1, <3>2, Zenon
  <2> QED BY <2>1, Zenon DEF ReferencesLexical, InProgress, Capturing
<1> QED BY <1>10, <1>11, <1>13, <1>14, <1>15, <1>16 DEF NamesInv

\* Every step of the resolver keeps them.
LEMMA NamesStep ==
    ASSUME NamesInv, [NextNames]_names
    PROVE  NamesInv'
<1> DEFINE same == owners' = owners /\ origin' = origin
<1>1. /\ NamesTypeOK /\ ScopesOwned
      /\ owners \in Seq(OwnerType) /\ origin \in Seq(Nat) /\ Len(origin) = Len(owners)
      /\ scopes \in Seq(ScopeType) /\ Len(owners) \in Nat /\ current \in Nat
  BY LengthsAre DEF NamesInv, NamesTypeOK
<1>2. ASSUME same
      PROVE  /\ owners' \in Seq(OwnerType) /\ origin' \in Seq(Nat) /\ Len(origin') = Len(owners')
             /\ Grown
             /\ \A i \in 1..Len(scopes) : Fits(scopes[i], i = 1, InLambda(i - 1), owners', origin')
  BY <1>1, <1>2 DEF Grown, ScopesOwned
<1>3. ASSUME NEW n \in Identifiers, PredeclareExternal(n) PROVE NamesInv'
  <2>1. CASE IsDeclared(n)
    BY <1>3, <2>1, RejectKeeps DEF PredeclareExternal
  <2>2. CASE ~IsDeclared(n)
    <3>1. stage = "declaring" /\ open = <<>> /\ reference.at = 0
      BY <1>3 DEF NamesInv, Ranged, PredeclareExternal
    <3>2. HasOwner /\ LocalOwner = TopLevel
      BY <3>1 DEF HasOwner, LocalOwner
    <3>3. /\ Allocate(<<LocalOwner>>) /\ scopes' = InScope(n, NewId)
          /\ stage' = stage /\ families' = families /\ lambdas' = lambdas /\ current' = current
          /\ open' = open /\ reference' = reference /\ nextLambda' = nextLambda + 1
      BY <1>3, <2>2, <3>2 DEF PredeclareExternal
    <3> QED BY <3>1, <3>2, <3>3, DeclarationKeeps
  <2> QED BY <2>1, <2>2
<1>4. ASSUME ResolveItems PROVE NamesInv'
  <2>1. /\ stage' = "items" /\ scopes' = scopes /\ same /\ families' = families /\ lambdas' = lambdas
        /\ current' = current /\ nextLambda' = nextLambda /\ open' = open /\ reference' = reference
    BY <1>4 DEF ResolveItems
  <2>2. NamesTypeOK'
    BY <2>1, <1>1 DEF NamesTypeOK
  <2>3. Ranged'
    BY <2>1 DEF NamesInv, Ranged
  <2>4. Nested' /\ \A j : InLambda(j)' = InLambda(j)
    BY <2>1, NestedKept DEF NamesInv
  <2>5. ScopesOwned'
    BY <2>1, <2>4 DEF NamesInv, ScopesOwned, Fits
  <2>6. CapturesHeldOutside'
    BY <2>1 DEF NamesInv, CapturesHeldOutside, Holds
  <2>7. ReferencesLexical'
    BY <2>1 DEF NamesInv, ReferencesLexical, Holds, Declaring, Lookup
  <2>8. InProgress'
    BY <2>1 DEF NamesInv, InProgress, Holds, Capturing
  <2> QED BY <2>2, <2>3, <2>4, <2>5, <2>6, <2>7, <2>8 DEF NamesInv
<1>5. ASSUME NEW n \in Identifiers, Declare(n) PROVE NamesInv'
  <2>1. CASE ~HasOwner \/ IsDeclared(n)
    BY <1>5, <2>1, RejectKeeps DEF Declare
  <2>2. CASE ~(~HasOwner \/ IsDeclared(n))
    <3>1. /\ HasOwner /\ Allocate(<<LocalOwner>>) /\ scopes' = InScope(n, NewId)
          /\ stage' = stage /\ families' = families /\ lambdas' = lambdas /\ current' = current
          /\ open' = open /\ reference' = NoReference /\ nextLambda' = nextLambda
      BY <1>5, <2>2 DEF Declare
    <3> QED BY <3>1, DeclarationKeeps
  <2> QED BY <2>1, <2>2
<1>6. ASSUME NEW n \in Identifiers, DeclareFamily(n) PROVE NamesInv'
  <2>1. CASE IsDeclared(n)
    BY <1>6, <2>1, RejectKeeps DEF DeclareFamily
  <2>2. CASE ~IsDeclared(n)
    <3>1. HasOwner /\ LocalOwner = TopLevel
      BY <1>6 DEF HasOwner, LocalOwner, DeclareFamily
    <3>2. /\ Allocate(<<LocalOwner>>) /\ scopes' = InScope(n, NewId)
          /\ stage' = stage /\ families' = families \cup {NewId} /\ lambdas' = lambdas
          /\ current' = current /\ open' = open /\ reference' = NoReference
          /\ nextLambda' = nextLambda
      BY <1>6, <2>2, <3>1 DEF DeclareFamily
    <3> QED BY <3>1, <3>2, DeclarationKeeps
  <2> QED BY <2>1, <2>2
<1>7. ASSUME OpenLambda PROVE NamesInv'
  <2>1. /\ stage = "items" /\ EnterLambda(0) /\ scopes' = Append(scopes, NothingDeclared)
        /\ stage' = stage /\ families' = families /\ same
    BY <1>7 DEF OpenLambda, Walking
  <2> QED BY <1>1, <1>2, <2>1, LambdaKeeps
<1>8. ASSUME NEW n \in Identifiers, OpenOwnLambda(n) PROVE NamesInv'
  <2>1. CASE ~HasOwner \/ IsDeclared(n)
    BY <1>8, <2>1, RejectKeeps DEF OpenOwnLambda
  <2>2. CASE ~(~HasOwner \/ IsDeclared(n))
    <3> DEFINE mid == InScope(n, NewId)
    <3>1. /\ HasOwner /\ Allocate(<<LocalOwner>>) /\ EnterLambda(NewId) /\ stage = "items"
          /\ stage' = stage /\ families' = families /\ scopes' = Append(mid, NothingDeclared)
      BY <1>8, <2>2 DEF OpenOwnLambda, Walking
    <3>2. /\ owners' \in Seq(OwnerType) /\ origin' \in Seq(Nat) /\ Len(origin') = Len(owners')
          /\ Grown /\ NewId \in Nat /\ mid \in Seq(ScopeType) /\ Len(mid) = Len(scopes)
          /\ \A i \in 1..Len(scopes) : Fits(mid[i], i = 1, InLambda(i - 1), owners', origin')
      BY <3>1, DeclaredFits
    <3> HIDE DEF mid
    <3> QED BY <3>1, <3>2, LambdaKeeps
  <2> QED BY <2>1, <2>2
<1>9. ASSUME NEW n \in Identifiers, OpenImplementation(n) PROVE NamesInv'
  <2> DEFINE self == scopes[1][n]
  <2>1. /\ stage = "items" /\ EnterLambda(self) /\ scopes' = Append(scopes, NothingDeclared)
        /\ stage' = stage /\ families' = families /\ same /\ self \in families
    BY <1>9 DEF OpenImplementation, Walking
  <2>2. self \in Nat
    BY <1>1, <2>1 DEF NamesTypeOK
  <2> HIDE DEF self
  <2> QED BY <1>1, <1>2, <2>1, <2>2, LambdaKeeps
<1>10. NothingDeclared \in ScopeType
  BY DEF NothingDeclared, ScopeType
<1>11. ASSUME NEW kind \in {"block", "branch"}, stage = "items", EnterBlock(kind, NothingDeclared), same
       PROVE  NamesInv'
  <2>1. Fits(NothingDeclared, FALSE, current, owners', origin')
    BY DEF Fits, NothingDeclared
  <2>2. kind \in {"block", "branch", "result"}
    OBVIOUS
  <2> QED BY <1>2, <1>10, <1>11, <2>1, <2>2, BlockKeeps
<1>12. ASSUME OpenBlock PROVE NamesInv'
  <2>1. stage = "items" /\ EnterBlock("block", NothingDeclared) /\ same
    BY <1>12 DEF OpenBlock, Walking
  <2> QED BY <1>11, <2>1
<1>13. ASSUME OpenBranch PROVE NamesInv'
  <2>1. stage = "items" /\ EnterBlock("branch", NothingDeclared) /\ same
    BY <1>13 DEF OpenBranch, Walking
  <2> QED BY <1>11, <2>1
<1>14. ASSUME NEW binders \in Seq(Identifiers), OpenResultBlock(binders) PROVE NamesInv'
  <2> DEFINE b == Len(binders)
             given == [i \in DOMAIN binders |-> Owner("result", current)]
             scope == [n \in Identifiers |->
                         IF n \in Range(binders)
                         THEN Len(owners) + (CHOOSE i \in DOMAIN binders : binders[i] = n)
                         ELSE 0]
  <2>1. CASE current = 0 \/ ~IsInjective(binders)
    BY <1>14, <2>1, RejectKeeps DEF OpenResultBlock
  <2>2. CASE ~(current = 0 \/ ~IsInjective(binders))
    <3>1. /\ stage = "items" /\ current # 0 /\ Allocate(given) /\ EnterBlock("result", scope)
      BY <1>14, <2>2 DEF OpenResultBlock, Walking
    <3>2. b \in Nat /\ DOMAIN binders = 1..b
      BY LenProperties
    <3>3. Owner("result", current) \in OwnerType
      BY <1>1 DEF Owner, OwnerType
    <3>4. given \in Seq(OwnerType) /\ Len(given) = b
          /\ \A i \in 1..b : given[i] = Owner("result", current)
      <4>1. given \in [1..b -> OwnerType]
        BY <3>2, <3>3
      <4>2. given \in Seq(OwnerType)
        BY <3>2, <4>1, IsASeq
      <4>3. DOMAIN given = 1..b /\ DOMAIN given = 1..Len(given) /\ Len(given) \in Nat
        BY <3>2, <4>2, LenProperties
      <4> QED BY <3>2, <4>2, <4>3
    <3>5. /\ owners' \in Seq(OwnerType) /\ origin' \in Seq(Nat) /\ Len(origin') = Len(owners')
          /\ Grown
          /\ \A i \in 1..b : /\ Len(owners) + i \in 1..Len(owners')
                             /\ owners'[Len(owners) + i] = Owner("result", current)
                             /\ origin'[Len(owners) + i] = Len(owners) + i
      <4> HIDE DEF given
      <4> QED BY <1>1, <3>1, <3>4, AllocateIs
    <3>6. ASSUME NEW n \in Identifiers, n \in Range(binders)
          PROVE  \E i \in 1..b : scope[n] = Len(owners) + i
      <4>1. \E i \in DOMAIN binders : binders[i] = n
        BY <3>6 DEF Range
      <4>2. (CHOOSE i \in DOMAIN binders : binders[i] = n) \in 1..b
        BY <3>2, <4>1
      <4> QED BY <3>6, <4>2
    <3>7. \A n \in Identifiers : n \notin Range(binders) => scope[n] = 0
      OBVIOUS
    <3>8. scope \in ScopeType
      <4>1. \A n \in Identifiers : scope[n] \in Nat
        <5> HIDE DEF scope
        <5> QED BY <1>1, <3>2, <3>6, <3>7
      <4> QED BY <4>1 DEF ScopeType
    <3> HIDE DEF scope
    <3>9. Fits(scope, FALSE, current, owners', origin')
      <4> SUFFICES ASSUME NEW n \in Identifiers, scope[n] # 0
                   PROVE  /\ scope[n] \in 1..Len(owners') /\ origin'[scope[n]] = scope[n]
                          /\ current # 0 /\ owners'[scope[n]].lambda = current
                          /\ owners'[scope[n]].kind \in {"lambda", "result"}
        BY DEF Fits
      <4>1. PICK i \in 1..b : scope[n] = Len(owners) + i
        BY <3>6, <3>7
      <4> QED BY <3>1, <3>5, <4>1 DEF Owner
    <3> QED BY <3>1, <3>5, <3>8, <3>9, BlockKeeps
  <2> QED BY <2>1, <2>2
<1>15. ASSUME NEW n \in Identifiers, OpenResultBlock(<<n>>) PROVE NamesInv'
  <2>1. <<n>> \in Seq(Identifiers)
    OBVIOUS
  <2> QED BY <1>14, <1>15, <2>1
<1>16. ASSUME NEW n \in Identifiers, NEW m \in Identifiers, OpenResultBlock(<<n, m>>) PROVE NamesInv'
  <2>1. <<n, m>> \in Seq(Identifiers)
    OBVIOUS
  <2> QED BY <1>14, <1>16, <2>1
<1>17. ASSUME UNCHANGED names PROVE NamesInv'
  <2>1. /\ stage' = stage /\ scopes' = scopes /\ same /\ families' = families /\ lambdas' = lambdas
        /\ current' = current /\ nextLambda' = nextLambda /\ open' = open /\ reference' = reference
    BY <1>17 DEF names
  <2>2. NamesTypeOK'
    BY <2>1, <1>1 DEF NamesTypeOK
  <2>3. Ranged'
    BY <2>1 DEF NamesInv, Ranged
  <2>4. Nested' /\ \A j : InLambda(j)' = InLambda(j)
    BY <2>1, NestedKept DEF NamesInv
  <2>5. ScopesOwned'
    BY <2>1, <2>4 DEF NamesInv, ScopesOwned, Fits
  <2>6. CapturesHeldOutside'
    BY <2>1 DEF NamesInv, CapturesHeldOutside, Holds
  <2>7. ReferencesLexical'
    BY <2>1 DEF NamesInv, ReferencesLexical, Holds, Declaring, Lookup
  <2>8. InProgress'
    BY <2>1 DEF NamesInv, InProgress, Holds, Capturing
  <2> QED BY <2>2, <2>3, <2>4, <2>5, <2>6, <2>7, <2>8 DEF NamesInv
<1>18. CASE NextNames
  BY <1>18, <1>3, <1>4, <1>5, <1>6, <1>7, <1>8, <1>9, <1>12, <1>13, <1>15, <1>16,
     CloseKeeps, ReferKeeps, CaptureKeeps, Zenon DEF NextNames
<1> QED BY <1>17, <1>18

\* The state of the resolver is always typed.
THEOREM NamesTyped == NamesSpec => []NamesTypeOK
<1>1. NamesInv => NamesTypeOK
  BY DEF NamesInv
<1> QED BY <1>1, NamesStart, NamesStep, PTL DEF NamesSpec

\* Whatever a file contains, no reference meets a lambda-owned name whose lambda is not on the
\* stack, and what a lambda captures is held where it is written.
THEOREM NamesResolveCorrect == NamesSpec => []NamesResolve
<1>1. NamesInv => NamesResolve
  <2> SUFFICES ASSUME NamesInv PROVE NamesResolve
    OBVIOUS
  <2>1. stage \in {"declaring", "items", "failed"} /\ CapturesHeldOutside /\ ReferencesLexical
    BY DEF NamesInv, NamesTypeOK
  <2> QED BY <2>1 DEF NamesResolve
<1> QED BY <1>1, NamesStart, NamesStep, PTL DEF NamesSpec

==============================================================================

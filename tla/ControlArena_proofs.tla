------------------------- MODULE ControlArena_proofs -------------------------
(***************************************************************************)
(* Proofs about the control arena and the native stack limit, for every    *)
(* program: any bodies, frame layouts, calls, native stacks and builds.    *)
(***************************************************************************)
EXTENDS ControlArena, FiniteSetTheorems, SequenceTheorems, WellFoundedInduction, TLAPS

-----------------------------------------------------------------------------
(* Sequences.                                                               *)

\* A stack without its running body.
LEMMA Dropped ==
    ASSUME NEW S, NEW s \in Seq(S), s # <<>>
    PROVE  /\ Len(s) \in Nat \ {0}
           /\ Last(s) \in S /\ Last(s) = s[Len(s)]
           /\ Front(s) \in Seq(S)
           /\ Len(Front(s)) = Len(s) - 1
           /\ \A i \in 1..Len(s) - 1 : Front(s)[i] = s[i]
<1>1. Len(s) \in Nat \ {0} /\ \A i \in 1..Len(s) : s[i] \in S
  BY ElementOfSeq, EmptySeq, LenProperties
<1>2. \A i \in 1..Len(s) - 1 : s[i] \in S
  BY <1>1
<1>3. /\ SubSeq(s, 1, Len(s) - 1) \in Seq(S)
      /\ Len(SubSeq(s, 1, Len(s) - 1)) = IF 1 <= Len(s) - 1 THEN (Len(s) - 1) - 1 + 1 ELSE 0
      /\ \A i \in 1..(Len(s) - 1) - 1 + 1 : SubSeq(s, 1, Len(s) - 1)[i] = s[1 + i - 1]
  BY <1>1, <1>2, SubSeqProperties
<1>4. Last(s) \in S /\ Last(s) = s[Len(s)]
  BY <1>1 DEF Last
<1> DEFINE n == Len(s)
<1>5. n - 1 = (n - 1) - 1 + 1 /\ (1 > n - 1 => n - 1 = 0)
  <2>1. n \in Nat \ {0}
    BY <1>1
  <2> HIDE DEF n
  <2> QED BY <2>1
<1>6. ASSUME NEW i \in 1..Len(s) - 1 PROVE SubSeq(s, 1, Len(s) - 1)[i] = s[i]
  <2>1. SubSeq(s, 1, Len(s) - 1)[i] = s[1 + i - 1]
    BY <1>3, <1>5
  <2>2. 1 + i - 1 = i
    BY <1>1
  <2> QED BY <2>1, <2>2
<1>7. Len(SubSeq(s, 1, Len(s) - 1)) = Len(s) - 1
  BY <1>1, <1>3, <1>5
<1> QED BY <1>1, <1>3, <1>4, <1>6, <1>7 DEF Front

\* A stack and the same stack with another running body.
LEMMA ReplacedLast ==
    ASSUME NEW S, NEW s \in Seq(S), s # <<>>, NEW e \in S
    PROVE  /\ Append(Front(s), e) \in Seq(S)
           /\ Len(Append(Front(s), e)) = Len(s)
           /\ \A i \in 1..Len(s) - 1 : Append(Front(s), e)[i] = s[i]
           /\ Append(Front(s), e)[Len(s)] = e
<1>1. /\ Len(s) \in Nat \ {0}
      /\ Front(s) \in Seq(S)
      /\ Len(Front(s)) = Len(s) - 1
      /\ \A i \in 1..Len(s) - 1 : Front(s)[i] = s[i]
  BY Dropped
<1> QED BY <1>1, AppendProperties

\* A stack and the same stack with another body above it, the running one changed.
LEMMA Stacking ==
    ASSUME NEW S, NEW s \in Seq(S), s # <<>>, NEW e \in S, NEW f \in S
    PROVE  /\ Append(Append(Front(s), e), f) \in Seq(S)
           /\ Len(Append(Append(Front(s), e), f)) = Len(s) + 1
           /\ \A i \in 1..Len(s) - 1 : Append(Append(Front(s), e), f)[i] = s[i]
           /\ Append(Append(Front(s), e), f)[Len(s)] = e
           /\ Append(Append(Front(s), e), f)[Len(s) + 1] = f
<1>1. /\ Append(Front(s), e) \in Seq(S)
      /\ Len(Append(Front(s), e)) = Len(s)
      /\ \A i \in 1..Len(s) - 1 : Append(Front(s), e)[i] = s[i]
      /\ Append(Front(s), e)[Len(s)] = e
  BY ReplacedLast
<1>2. Len(s) \in Nat \ {0}
  BY Dropped
<1> QED BY <1>1, <1>2, AppendProperties

\* A stack without its running body, the caller changed.
LEMMA Unstacking ==
    ASSUME NEW S, NEW s \in Seq(S), Len(s) > 1, NEW e \in S
    PROVE  /\ Append(Front(Front(s)), e) \in Seq(S)
           /\ Len(Append(Front(Front(s)), e)) = Len(s) - 1
           /\ \A i \in 1..Len(s) - 2 : Append(Front(Front(s)), e)[i] = s[i]
           /\ Append(Front(Front(s)), e)[Len(s) - 1] = e
<1>1. s # <<>>
  OBVIOUS
<1>2. /\ Len(s) \in Nat \ {0}
      /\ Front(s) \in Seq(S)
      /\ Len(Front(s)) = Len(s) - 1
      /\ \A i \in 1..Len(s) - 1 : Front(s)[i] = s[i]
  BY <1>1, Dropped
<1>3. Front(s) # <<>>
  BY <1>2
<1> QED BY <1>2, <1>3, ReplacedLast
-----------------------------------------------------------------------------
(* The doubling of mal_control_grow.                                        *)

LEMMA LeastElement ==
    ASSUME NEW T, T \subseteq Nat, T # {}
    PROVE  \E n \in T : \A m \in T : n <= m
<1> DEFINE Less == {ss \in Nat \X Nat : ss[1] < ss[2]}
<1>1. OpToRel(<, Nat) = Less
  BY Zenon DEF OpToRel
<1>2. IsWellFoundedOn(Less, Nat)
  BY <1>1, NatLessThanWellFounded, Zenon
<1>3. PICK n \in T : \A m \in T : ~ (<<m, n>> \in Less)
  <2> HIDE DEF Less
  <2> QED BY <1>2, WFMin
<1>4. ASSUME NEW m \in T PROVE n <= m
  <2>1. m \in Nat /\ n \in Nat /\ ~ (<<m, n>> \in Less)
    BY <1>3
  <2>2. ~ (m < n)
    BY <2>1
  <2> QED BY <2>1, <2>2
<1> QED BY <1>4

\* One step of the doubling, from the capacity c, when f continues it.
Doubling(f, c, required) ==
    IF c >= required THEN c
    ELSE IF c > SizeMax \div 2 THEN required
    ELSE f[2 * c]

\* The function of the doubling exists.
LEMMA DoublingExists ==
    ASSUME NEW required \in Nat
    PROVE  \E f : f = [c \in Nat |-> Doubling(f, c, required)]
<1> DEFINE From(n) == {c \in Nat : c + n > required}
           Missing == {n \in Nat : ~ \E f : f = [c \in From(n) |-> Doubling(f, c, required)]}
<1>1. SizeMax \in Nat
  BY ControlAssumption
<1>2. 0 \notin Missing
  <2> DEFINE f == [c \in From(0) |-> c]
  <2>1. \A c \in From(0) : Doubling(f, c, required) = c
    BY DEF Doubling
  <2>2. f = [c \in From(0) |-> Doubling(f, c, required)]
    BY <2>1
  <2> QED BY <2>2
<1>3. ASSUME NEW n \in Nat, n \notin Missing PROVE n + 1 \notin Missing
  <2>1. PICK f : f = [c \in From(n) |-> Doubling(f, c, required)]
    BY <1>3
  <2> DEFINE g == [c \in From(n + 1) |->
                     IF c \in From(n) THEN f[c]
                     ELSE IF c > 0 THEN Doubling(f, c, required) ELSE 0]
  <2>2. From(n) \subseteq From(n + 1)
    OBVIOUS
  <2>3. \A c \in From(n + 1) : c \in Nat /\ (c \notin From(n) => c + n = required)
    OBVIOUS
  <2>4. \A c \in From(n + 1) : c > 0 => 2 * c \in From(n)
    OBVIOUS
  <2>5. \A c \in From(n) : g[c] = f[c]
    BY <2>2
  <2>6. \A c \in From(n) : f[c] = Doubling(f, c, required)
    BY <2>1
  <2>7. ASSUME NEW c \in From(n + 1) PROVE g[c] = Doubling(g, c, required)
    <3>1. CASE c > 0
      <4>1. g[2 * c] = f[2 * c]
        BY <2>4, <2>5, <3>1
      <4>2. Doubling(g, c, required) = Doubling(f, c, required)
        BY <4>1 DEF Doubling
      <4>3. g[c] = Doubling(f, c, required)
        BY <2>6, <3>1
      <4> QED BY <4>2, <4>3
    <3>2. CASE c = 0
      <4>1. CASE required = 0
        <5>1. Doubling(g, c, required) = 0
          BY <3>2, <4>1 DEF Doubling
        <5>2. c \in From(n) => f[c] = 0
          BY <2>6, <3>2, <4>1 DEF Doubling
        <5> QED BY <3>2, <5>1, <5>2
      <4>2. CASE required # 0
        <5>1. Doubling(g, c, required) = g[2 * c]
          BY <1>1, <3>2, <4>2 DEF Doubling
        <5>2. 2 * c = c
          BY <3>2
        <5> QED BY <5>1, <5>2
      <4> QED BY <4>1, <4>2
    <3> QED BY <2>3, <3>1, <3>2
  <2>8. g = [c \in From(n + 1) |-> Doubling(g, c, required)]
    <3> HIDE DEF From
    <3> QED BY <2>7
  <2>9. \E h : h = [c \in From(n + 1) |-> Doubling(h, c, required)]
    BY <2>8
  <2> QED BY <2>9
<1>4. Missing = {}
  <2> SUFFICES ASSUME Missing # {} PROVE FALSE
    OBVIOUS
  <2>1. PICK n \in Missing : \A m \in Missing : n <= m
    BY LeastElement
  <2>2. n \in Nat /\ n # 0
    BY <1>2
  <2>3. n - 1 \in Nat /\ n - 1 \notin Missing
    <3> HIDE DEF Missing
    <3> QED BY <2>1, <2>2
  <2>4. (n - 1) + 1 \notin Missing
    BY <1>3, <2>3
  <2> QED BY <2>2, <2>4
<1>5. From(required + 1) = Nat
  OBVIOUS
<1>6. required + 1 \notin Missing
  BY <1>4
<1>7. \E f : f = [c \in From(required + 1) |-> Doubling(f, c, required)]
  BY <1>6
<1> HIDE DEF From
<1> QED BY <1>5, <1>7

\* The grown capacity covers what is required and stays a size.
LEMMA GrownCapacityCovers ==
    ASSUME NEW required \in 0..SizeMax, arena.capacity \in 0..SizeMax
    PROVE  GrownCapacity(required) \in required..SizeMax
<1> DEFINE start == IF arena.capacity = 0 THEN InitialCapacity ELSE arena.capacity
           f == CHOOSE f : f = [c \in Nat |-> Doubling(f, c, required)]
           Short == {k \in Nat : \E c \in 1..SizeMax : k = SizeMax - c /\ f[c] \notin required..SizeMax}
<1>1. SizeMax \in Nat /\ InitialCapacity \in 1..SizeMax
  BY ControlAssumption
<1>2. f = [c \in Nat |-> Doubling(f, c, required)]
  BY <1>1, DoublingExists
<1>3. GrownCapacity(required) = f[start]
  BY DEF GrownCapacity, Doubling
<1>4. start \in 1..SizeMax
  BY <1>1
<1>5. \A c \in Nat : f[c] = Doubling(f, c, required)
  <2> HIDE DEF f
  <2> QED BY <1>2
<1> HIDE DEF f, start
<1>6. Short = {}
  <2> SUFFICES ASSUME Short # {} PROVE FALSE
    OBVIOUS
  <2>1. PICK k \in Short : \A m \in Short : k <= m
    BY LeastElement
  <2>2. PICK c \in 1..SizeMax : k = SizeMax - c /\ f[c] \notin required..SizeMax
    BY <2>1
  <2>3. f[c] = f[2 * c] /\ 2 * c <= SizeMax
    BY <1>1, <1>5, <2>2 DEF Doubling
  <2>4. SizeMax - 2 * c \in Short
    BY <1>1, <2>2, <2>3
  <2> QED BY <1>1, <2>1, <2>2, <2>4
<1>7. f[start] \in required..SizeMax
  <2> SUFFICES ASSUME f[start] \notin required..SizeMax PROVE FALSE
    OBVIOUS
  <2>1. SizeMax - start \in Short
    BY <1>1, <1>4
  <2> QED BY <1>6, <2>1
<1> QED BY <1>3, <1>7
-----------------------------------------------------------------------------
(* Types.                                                                   *)

LEMMA Sizes ==
    /\ SizeMax \in Nat /\ 0 \in 0..SizeMax
    /\ \A site \in FrameSites :
          /\ FrameSize[site] \in Nat /\ 1 <= FrameSize[site] /\ FrameSize[site] <= SizeMax
          /\ FrameSize[site] \in 0..SizeMax
          /\ UnitOf[site] \in Units /\ Framed(UnitOf[site])
    /\ Root \in Units
BY ControlAssumption DEF Framed

LEMMA RunningTypes ==
    ASSUME TypeOK, activations # <<>>
    PROVE  /\ Len(activations) \in Nat \ {0}
           /\ DOMAIN activations = 1..Len(activations)
           /\ Running \in Activations /\ Running = activations[Len(activations)]
           /\ Running.unit \in Units
           /\ Top \in 0..SizeMax /\ View \in Views
<1>1. /\ Len(activations) \in Nat \ {0}
      /\ Running \in Activations /\ Running = activations[Len(activations)]
  BY Dropped DEF TypeOK, Running
<1>2. DOMAIN activations = 1..Len(activations)
  BY LenProperties DEF TypeOK
<1>3. Running.unit \in Units /\ Running.top \in 0..SizeMax /\ Running.view \in Views
  BY <1>1 DEF Activations
<1> QED BY <1>1, <1>2, <1>3 DEF Top, View, TypeOK

LEMMA EnteredType ==
    ASSUME TypeOK, NEW unit \in Units, NEW version \in {"frames", "native"}, NEW top \in 0..SizeMax
    PROVE  Entered(unit, version, top) \in Activations
<1>1. NoStorage \in Views /\ arena \in Views /\ 0 \in 0..SizeMax
  BY Sizes DEF NoStorage, Views, TypeOK
<1> QED BY <1>1 DEF Entered, Activations

LEMMA VersionType == ASSUME NEW unit PROVE VersionOf(unit) \in {"frames", "native"}
BY DEF VersionOf

\* The running body after it pushes or resumes a frame.
LEMMA ContinueType ==
    ASSUME TypeOK, activations # <<>>, NEW body \in Activations, Continue(body)
    PROVE  activations' \in Seq(Activations)
BY ReplacedLast DEF Continue, TypeOK

LEMMA PushType ==
    ASSUME TypeOK, activations # <<>>, NEW site \in FrameSites, NEW view \in Views, NEW storage,
           Push(site, view, storage)
    PROVE  memory' \subseteq FrameSet /\ activations' \in Seq(Activations) /\ sharedTop' \in 0..SizeMax
<1> DEFINE next == (Top + FrameSize[site]) % (SizeMax + 1)
<1>1. Running \in Activations /\ Top \in 0..SizeMax
  BY RunningTypes
<1>2. next \in 0..SizeMax
  BY <1>1, Sizes
<1>3. [Running EXCEPT !.top = next, !.view = view, !.retired = 0] \in Activations
  <2> HIDE DEF next
  <2> QED BY <1>1, <1>2, Sizes DEF Activations
<1>4. [Running EXCEPT !.retired = 0] \in Activations
  BY <1>1, Sizes DEF Activations
<1>5. activations' \in Seq(Activations) /\ sharedTop' \in 0..SizeMax
  <2>1. CASE KeepsLocals(Running)
    BY <1>3, <2>1, ContinueType DEF Push, TypeOK
  <2>2. CASE ~KeepsLocals(Running)
    BY <1>2, <1>4, <2>2, ContinueType DEF Push
  <2> QED BY <2>1, <2>2
<1>6. memory' \subseteq FrameSet
  BY <1>1 DEF Push, WithFrame, TypeOK, FrameSet
<1> QED BY <1>5, <1>6

LEMMA GrownType ==
    ASSUME TypeOK, NEW required \in 0..SizeMax
    PROVE  Grown(required) \subseteq [storage : Nat, capacity : required..SizeMax]
<1>1. arena.storage \in Nat /\ arena.capacity \in 0..SizeMax
  BY DEF TypeOK, Views
<1>2. GrownCapacity(required) \in required..SizeMax
  BY <1>1, GrownCapacityCovers
<1> QED BY <1>1, <1>2 DEF Grown

\* Whatever is read as a frame has the shape of one.
LEMMA ReadType == ASSUME TypeOK PROVE ReadFrames \subseteq FrameSet
BY DEF ReadFrames, TypeOK

LEMMA InitType == Init => TypeOK
<1> SUFFICES ASSUME Init PROVE TypeOK
  OBVIOUS
<1>1. arena \in Views /\ NoStorage \in Views /\ 0 \in 0..SizeMax
  BY Sizes DEF Init, NoStorage, Views
<1>2. Entered(Root, "frames", 0) \in Activations
  BY <1>1, Sizes DEF Init, Entered, Activations
<1>3. localizing \in BOOLEAN
  BY ControlAssumption DEF Init
<1>4. activations \in Seq(Activations)
  BY <1>2 DEF Init
<1> QED BY <1>1, <1>3, <1>4 DEF Init, TypeOK

LEMMA TypeStep == TypeOK /\ [Next]_vars => TypeOK'
<1> SUFFICES ASSUME TypeOK, [Next]_vars PROVE TypeOK'
  OBVIOUS
<1> USE DEF TypeOK
<1>1. CASE UNCHANGED vars
  BY <1>1 DEF vars
<1>2. ASSUME Next PROVE TypeOK'
  <2>1. /\ activations # <<>> /\ localizing' \in BOOLEAN /\ mapping' \in Mappings
    BY <1>2 DEF Next
  <2>2. /\ Len(activations) \in Nat \ {0}
        /\ Running \in Activations /\ Running.unit \in Units
        /\ Top \in 0..SizeMax /\ View \in Views
    BY <2>1, RunningTypes
  <2>3. ASSUME NEW call \in NativeCalls, NEW target \in call.targets, NativeCall(call, target)
        PROVE  TypeOK'
    <3>1. target \in Units
      BY ControlAssumption
    <3>2. Entered(target, VersionOf(target), Top) \in Activations
      BY <2>2, <3>1, EnteredType, VersionType
    <3>3. [Running EXCEPT !.call = call] \in Activations
      BY <2>2 DEF Activations
    <3>4. activations' \in Seq(Activations)
      BY <2>1, <2>3, <3>2, <3>3, Stacking DEF NativeCall
    <3> QED BY <2>1, <2>2, <2>3, <3>4 DEF NativeCall
  <2>4. ASSUME NativeSelfCall PROVE TypeOK'
    <3>1. Entered(Running.unit, VersionOf(Running.unit), sharedTop) \in Activations
      BY <2>2, EnteredType, VersionType
    <3>2. activations' \in Seq(Activations)
      BY <2>4, <3>1, AppendProperties DEF NativeSelfCall
    <3> QED BY <2>1, <2>4, <3>2 DEF NativeSelfCall
  <2>5. ASSUME NativeReturn PROVE TypeOK'
    <3>1. Front(activations) \in Seq(Activations) /\ Front(activations) # <<>>
      BY <2>1, <2>5, Dropped DEF NativeReturn
    <3>2. Caller \in Activations
      BY <3>1, Dropped DEF Caller
    <3>3. Returned(Caller) \in Activations
      BY <3>2 DEF Returned, Activations
    <3>4. activations' \in Seq(Activations)
      BY <2>5, <3>3, Unstacking DEF NativeReturn
    <3> QED BY <2>1, <2>2, <2>5, <3>4 DEF NativeReturn
  <2>6. ASSUME Finish PROVE TypeOK'
    <3>1. NoStorage \in Views
      BY Sizes DEF NoStorage, Views
    <3>2. activations' \in Seq(Activations)
      BY <2>6, EmptySeq DEF Finish
    <3> QED BY <2>1, <2>6, <3>1, <3>2 DEF Finish
  <2>7. ASSUME NEW site \in FrameSites, ReplaceFrame(site) \/ PushCached(site) PROVE TypeOK'
    <3>1. memory' \subseteq FrameSet /\ activations' \in Seq(Activations) /\ sharedTop' \in 0..SizeMax
      BY <2>1, <2>2, <2>7, PushType DEF ReplaceFrame, PushCached
    <3> QED BY <2>1, <2>7, <3>1 DEF ReplaceFrame, PushCached
  <2>8. ASSUME NEW site \in FrameSites, PushReserved(site) PROVE TypeOK'
    <3>1. memory' \subseteq FrameSet /\ activations' \in Seq(Activations) /\ sharedTop' \in 0..SizeMax
      BY <2>1, <2>2, <2>8, PushType DEF PushReserved
    <3> QED BY <2>1, <2>8, <3>1 DEF PushReserved
  <2>9. ASSUME NEW site \in FrameSites, PushGrown(site) PROVE TypeOK'
    <3>1. Top + FrameSize[site] \in 0..SizeMax
      BY <2>2, <2>9, Sizes DEF PushGrown
    <3>2. arena' \in Views
      BY <2>9, <3>1, GrownType DEF PushGrown, Views
    <3>3. memory' \subseteq FrameSet /\ activations' \in Seq(Activations) /\ sharedTop' \in 0..SizeMax
      BY <2>1, <2>9, <3>2, PushType DEF PushGrown
    <3> QED BY <2>1, <2>9, <3>2, <3>3 DEF PushGrown
  <2>10. ASSUME NEW site \in FrameSites, ReserveTraps(site) PROVE TypeOK'
    BY <2>1, <2>10 DEF ReserveTraps
  <2>11. ASSUME ResumeFrame PROVE TypeOK'
    <3> DEFINE resumed(frame) == [Running EXCEPT !.retired = FrameSize[frame.site]]
    <3>1. PICK frame \in ReadFrames :
            /\ memory' = memory \ {frame}
            /\ IF KeepsLocals(Running)
               THEN Continue([resumed(frame) EXCEPT !.top = frame.at]) /\ UNCHANGED sharedTop
               ELSE Continue(resumed(frame)) /\ sharedTop' = frame.at
      BY <2>11 DEF ResumeFrame
    <3>2. frame.at \in 0..SizeMax /\ FrameSize[frame.site] \in 0..SizeMax
      BY ReadType, Sizes DEF FrameSet
    <3>3. /\ resumed(frame) \in Activations
          /\ [resumed(frame) EXCEPT !.top = frame.at] \in Activations
      BY <2>2, <3>2 DEF Activations
    <3>4. activations' \in Seq(Activations) /\ sharedTop' \in 0..SizeMax
      <4> HIDE DEF resumed
      <4> QED BY <2>1, <3>1, <3>2, <3>3, ContinueType
    <3> QED BY <2>1, <2>11, <3>1, <3>4 DEF ResumeFrame
  <2>12. ASSUME RegionTailCall PROVE TypeOK'
    <3>1. [Running EXCEPT !.retired = 0] \in Activations
      BY <2>2, Sizes DEF Activations
    <3>2. activations' \in Seq(Activations)
      BY <2>1, <2>12, <3>1, ContinueType DEF RegionTailCall
    <3> QED BY <2>1, <2>12, <3>2 DEF RegionTailCall
  <2> QED BY <1>2, <2>3, <2>4, <2>5, <2>6, <2>7, <2>8, <2>9, <2>10, <2>11, <2>12 DEF Next
<1> QED BY <1>1, <1>2

\* The variables keep their types; the storage and every view of it stay sizes,
\* whatever the program and the stack it runs on.
THEOREM TypeCorrect == Spec => []TypeOK
BY InitType, TypeStep, PTL DEF Spec
-----------------------------------------------------------------------------
(* The inductive invariant.                                                 *)

\* j is the next activation above i that keeps frames.
Above(stack, i, j) ==
    /\ i < j /\ KeepsFrames(stack[j])
    /\ \A k \in DOMAIN stack : i < k /\ k < j => ~KeepsFrames(stack[k])

\* The innermost activation that keeps frames, or one above it.
Innermost(stack, i) == \A k \in DOMAIN stack : i < k => ~KeepsFrames(stack[k])

\* Where the frames of activation i end in a stack whose top is top.
EndsAt(stack, top, i, t) ==
    \/ \E j \in DOMAIN stack : Above(stack, i, j) /\ t = stack[j].base
    \/ Innermost(stack, i) /\ t = top

BuildKnown == localizing \in Builds

\* A native version was entered above the limit.
EnteredAboveLimit ==
    \A i \in DOMAIN activations : activations[i].version = "native" =>
        ~IsDeep(StackAddress(i), NativeStackLimit(mapping))

\* A suspended body with a view reloads it, or no body above it keeps frames.
ViewKept(i) ==
    LET body == activations[i]
    IN IF i = Len(activations) THEN body.view = arena
       ELSE /\ body.call \in NativeCalls /\ body.call.from = body.unit
            /\ \/ Relocates(body.call)
               \/ /\ body.view = arena
                  /\ \E bodies \in SUBSET Units :
                        /\ StaysClear(NativeCalls, bodies)
                        /\ \A j \in DOMAIN activations : i < j => activations[j].unit \in bodies

ViewsKept == \A i \in DOMAIN activations : KeepsLocals(activations[i]) => ViewKept(i)

\* Outer bodies have their frames below those of inner ones.
BasesOrdered ==
    \A i \in DOMAIN activations : KeepsFrames(activations[i]) =>
        /\ activations[i].base <= Top
        /\ \A j \in DOMAIN activations : i < j /\ KeepsFrames(activations[j]) =>
              activations[i].base <= activations[j].base

\* A body finds its top, and the room of its retired frame, where its callees left them.
EndsKept ==
    \A i \in DOMAIN activations : KeepsFrames(activations[i]) =>
        \A t \in 0..SizeMax : EndsAt(activations, Top, i, t) =>
            /\ t + activations[i].retired <= arena.capacity
            /\ KeepsLocals(activations[i]) => activations[i].top = t

\* The frames fill the arena up to the top, one after the other.
Tiled ==
    /\ \A f, g \in memory : f = g \/ End(f) <= g.at \/ End(g) <= f.at
    /\ \A f \in memory : End(f) <= Top
    /\ Top = 0 \/ \E f \in memory : End(f) = Top
    /\ \A f \in memory : f.at = 0 \/ \E g \in memory : End(g) = f.at
    /\ \A i \in DOMAIN activations : KeepsFrames(activations[i]) =>
          \A f \in memory : End(f) <= activations[i].base \/ activations[i].base <= f.at

Stacked == activations # <<>> => BasesOrdered /\ EndsKept /\ Tiled

\* There are finitely many frames, so a stack of suspended calls has a length.
FramesFinite == IsFiniteSet(memory)

\* main is the outermost body.
RootFirst == activations # <<>> => activations[1].unit = Root

\* The inductive invariant.
IInv ==
    TypeOK /\ BuildKnown /\ ViewsKept /\ Stacked /\ FramesWithinStorage /\ FramesFinite /\ RootFirst
-----------------------------------------------------------------------------
(* How each operation changes the stack of activations.                     *)

LEMMA CallShape ==
    ASSUME TypeOK, activations # <<>>,
           NEW call \in NativeCalls, NEW target \in call.targets, NativeCall(call, target)
    PROVE  /\ Len(activations') = Len(activations) + 1
           /\ \A i \in 1..Len(activations) - 1 : activations'[i] = activations[i]
           /\ activations'[Len(activations)] = [Running EXCEPT !.call = call]
           /\ activations'[Len(activations) + 1] = Entered(target, VersionOf(target), Top)
<1>1. Running \in Activations /\ Top \in 0..SizeMax /\ target \in Units
  BY RunningTypes, ControlAssumption
<1>2. Entered(target, VersionOf(target), Top) \in Activations
  BY <1>1, EnteredType, VersionType
<1>3. [Running EXCEPT !.call = call] \in Activations
  BY <1>1 DEF Activations
<1> QED BY <1>2, <1>3, Stacking DEF NativeCall, TypeOK

LEMMA SelfCallShape ==
    ASSUME TypeOK, activations # <<>>, NativeSelfCall
    PROVE  /\ Len(activations') = Len(activations) + 1
           /\ \A i \in 1..Len(activations) : activations'[i] = activations[i]
           /\ activations'[Len(activations) + 1]
                = Entered(Running.unit, VersionOf(Running.unit), sharedTop)
<1>1. Entered(Running.unit, VersionOf(Running.unit), sharedTop) \in Activations
  BY RunningTypes, EnteredType, VersionType DEF TypeOK
<1> QED BY <1>1, AppendProperties DEF NativeSelfCall, TypeOK

LEMMA ReturnShape ==
    ASSUME TypeOK, activations # <<>>, NativeReturn
    PROVE  /\ Len(activations) - 1 \in Nat \ {0}
           /\ Len(activations') = Len(activations) - 1
           /\ \A i \in 1..Len(activations) - 2 : activations'[i] = activations[i]
           /\ Caller = activations[Len(activations) - 1]
           /\ activations'[Len(activations) - 1] = Returned(Caller)
<1>1. Len(activations) \in Nat /\ Len(activations) > 1
  BY RunningTypes DEF NativeReturn
<1>2. /\ Front(activations) \in Seq(Activations)
      /\ Len(Front(activations)) = Len(activations) - 1
      /\ \A i \in 1..Len(activations) - 1 : Front(activations)[i] = activations[i]
  BY <1>1, Dropped DEF TypeOK
<1>3. Front(activations) # <<>>
  BY <1>1, <1>2
<1>4. Caller \in Activations /\ Caller = Front(activations)[Len(Front(activations))]
  BY <1>2, <1>3, Dropped DEF Caller
<1>5. Caller = activations[Len(activations) - 1]
  BY <1>1, <1>2, <1>4
<1>6. Returned(Caller) \in Activations
  BY <1>4 DEF Returned, Activations, TypeOK
<1>7. /\ Len(activations') = Len(activations) - 1
      /\ \A i \in 1..Len(activations) - 2 : activations'[i] = activations[i]
      /\ activations'[Len(activations) - 1] = Returned(Caller)
  BY <1>1, <1>6, Unstacking DEF NativeReturn, TypeOK
<1> QED BY <1>1, <1>5, <1>7

LEMMA ContinueShape ==
    ASSUME TypeOK, activations # <<>>, NEW body \in Activations, Continue(body)
    PROVE  /\ Len(activations') = Len(activations) /\ activations' # <<>>
           /\ \A i \in 1..Len(activations) - 1 : activations'[i] = activations[i]
           /\ activations'[Len(activations)] = body /\ Running' = body
<1>1. /\ activations' \in Seq(Activations)
      /\ Len(activations') = Len(activations)
      /\ \A i \in 1..Len(activations) - 1 : activations'[i] = activations[i]
      /\ activations'[Len(activations)] = body
  BY ReplacedLast DEF Continue, TypeOK
<1>2. Len(activations) \in Nat \ {0}
  BY RunningTypes
<1> QED BY <1>1, <1>2 DEF Running, Last

\* What does not change when the running body pushes or resumes a frame.
SameBody(a, b) ==
    a.unit = b.unit /\ a.version = b.version /\ a.base = b.base /\ a.call = b.call

\* The operations that leave the same bodies on the stack.
StaysIn ==
    /\ Len(activations') = Len(activations) /\ activations' # <<>>
    /\ \A i \in 1..Len(activations) - 1 : activations'[i] = activations[i]
    /\ SameBody(activations'[Len(activations)], Running)

LEMMA PushStaysIn ==
    ASSUME TypeOK, activations # <<>>, NEW site \in FrameSites, NEW view \in Views, NEW storage,
           Push(site, view, storage)
    PROVE  /\ StaysIn
           /\ Running'.retired = 0
           /\ KeepsLocals(Running) =>
                /\ Running'.top = (Top + FrameSize[site]) % (SizeMax + 1)
                /\ Running'.view = view
                /\ sharedTop' = sharedTop
           /\ ~KeepsLocals(Running) =>
                sharedTop' = (Top + FrameSize[site]) % (SizeMax + 1)
<1> DEFINE next == (Top + FrameSize[site]) % (SizeMax + 1)
           localized == [Running EXCEPT !.top = next, !.view = view, !.retired = 0]
           shared == [Running EXCEPT !.retired = 0]
<1>1. Running \in Activations /\ Top \in 0..SizeMax
  BY RunningTypes
<1>2. next \in 0..SizeMax
  BY <1>1, Sizes
<1>3. CASE KeepsLocals(Running)
  <2>1. Continue(localized) /\ sharedTop' = sharedTop
    BY <1>3 DEF Push
  <2> HIDE DEF next
  <2>2. /\ localized \in Activations /\ SameBody(localized, Running)
        /\ localized.top = next /\ localized.view = view /\ localized.retired = 0
    BY <1>1, <1>2, Sizes DEF Activations, SameBody
  <2> HIDE DEF localized
  <2>3. StaysIn /\ Running' = localized
    BY <2>1, <2>2, ContinueShape DEF StaysIn
  <2> QED BY <1>3, <2>1, <2>2, <2>3 DEF next
<1>4. CASE ~KeepsLocals(Running)
  <2>1. Continue(shared) /\ sharedTop' = next
    BY <1>4 DEF Push
  <2>2. shared \in Activations /\ SameBody(shared, Running) /\ shared.retired = 0
    BY <1>1, Sizes DEF Activations, SameBody
  <2> HIDE DEF shared
  <2>3. StaysIn /\ Running' = shared
    BY <2>1, <2>2, ContinueShape DEF StaysIn
  <2> QED BY <1>4, <2>1, <2>2, <2>3
<1> QED BY <1>3, <1>4

\* The room that each way to push a frame has made for it.
LEMMA PushingStaysIn ==
    ASSUME TypeOK, activations # <<>>, NEW site \in FrameSites,
           ReplaceFrame(site) \/ PushCached(site) \/ PushReserved(site) \/ PushGrown(site)
    PROVE  StaysIn
<1>1. CASE ReplaceFrame(site) \/ PushCached(site)
  BY <1>1, RunningTypes, PushStaysIn DEF ReplaceFrame, PushCached
<1>2. CASE PushReserved(site)
  BY <1>2, PushStaysIn DEF PushReserved, TypeOK
<1>3. CASE PushGrown(site)
  <2>1. Top + FrameSize[site] \in 0..SizeMax
    BY <1>3, RunningTypes, Sizes DEF PushGrown
  <2>2. arena' \in Views
    BY <1>3, <2>1, GrownType DEF PushGrown, Views
  <2> QED BY <1>3, <2>2, PushStaysIn DEF PushGrown
<1> QED BY <1>1, <1>2, <1>3

LEMMA ResumeStaysIn ==
    ASSUME TypeOK, activations # <<>>, ResumeFrame
    PROVE  \E frame \in ReadFrames :
              /\ StaysIn
              /\ memory' = memory \ {frame}
              /\ Running'.retired = FrameSize[frame.site]
              /\ Running'.view = Running.view
              /\ KeepsLocals(Running) => Running'.top = frame.at /\ sharedTop' = sharedTop
              /\ ~KeepsLocals(Running) => sharedTop' = frame.at
<1> DEFINE resumed(frame) == [Running EXCEPT !.retired = FrameSize[frame.site]]
           topped(frame) == [resumed(frame) EXCEPT !.top = frame.at]
<1>1. PICK frame \in ReadFrames :
        /\ memory' = memory \ {frame}
        /\ IF KeepsLocals(Running)
           THEN Continue(topped(frame)) /\ UNCHANGED sharedTop
           ELSE Continue(resumed(frame)) /\ sharedTop' = frame.at
  BY DEF ResumeFrame
<1>2. Running \in Activations
  BY RunningTypes
<1>3. frame.at \in 0..SizeMax /\ FrameSize[frame.site] \in 0..SizeMax
  BY ReadType, Sizes DEF FrameSet
<1>4. /\ resumed(frame) \in Activations /\ SameBody(resumed(frame), Running)
      /\ resumed(frame).retired = FrameSize[frame.site]
      /\ resumed(frame).view = Running.view
  BY <1>2, <1>3 DEF Activations, SameBody
<1>5. /\ topped(frame) \in Activations /\ SameBody(topped(frame), Running)
      /\ topped(frame).retired = FrameSize[frame.site] /\ topped(frame).top = frame.at
      /\ topped(frame).view = Running.view
  BY <1>2, <1>3 DEF Activations, SameBody
<1> HIDE DEF resumed, topped
<1>6. CASE KeepsLocals(Running)
  <2>1. StaysIn /\ Running' = topped(frame)
    BY <1>1, <1>5, <1>6, ContinueShape DEF StaysIn
  <2> QED BY <1>1, <1>5, <1>6, <2>1
<1>7. CASE ~KeepsLocals(Running)
  <2>1. StaysIn /\ Running' = resumed(frame)
    BY <1>1, <1>4, <1>7, ContinueShape DEF StaysIn
  <2> QED BY <1>1, <1>4, <1>7, <2>1
<1> QED BY <1>6, <1>7

LEMMA TailCallStaysIn ==
    ASSUME TypeOK, activations # <<>>, RegionTailCall
    PROVE  /\ StaysIn
           /\ Running'.retired = 0 /\ Running'.view = Running.view /\ Running'.top = Running.top
<1> DEFINE body == [Running EXCEPT !.retired = 0]
<1>1. /\ body \in Activations /\ SameBody(body, Running)
      /\ body.retired = 0 /\ body.view = Running.view /\ body.top = Running.top
  BY RunningTypes, Sizes DEF Activations, SameBody
<1>2. Continue(body)
  BY DEF RegionTailCall
<1> HIDE DEF body
<1>3. StaysIn /\ Running' = body
  BY <1>1, <1>2, ContinueShape DEF StaysIn
<1> QED BY <1>1, <1>3
-----------------------------------------------------------------------------
(* The native stack.                                                        *)

LEMMA AboveLimitKept ==
    ASSUME NEW m \in Mappings, NEW i \in Nat,
           ~IsDeep(m.entry - i * ActivationSize, NativeStackLimit(m))
    PROVE  /\ m.size # 0
           /\ m.entry - i * ActivationSize > m.entry - Budget
           /\ m.entry - i * ActivationSize - ActivationSize - Fallback >= m.low
<1> DEFINE x == m.entry - i * ActivationSize
<1>1. /\ MaxAddress \in Nat /\ Budget \in 1..MaxAddress /\ Reserve \in 1..MaxAddress
      /\ ActivationSize \in 1..MaxAddress /\ Fallback \in Nat
      /\ ActivationSize + Fallback <= Reserve
  BY NativeStackAssumption
<1>2. m.low \in 0..MaxAddress /\ m.size \in 0..MaxAddress /\ m.entry \in 0..MaxAddress
  BY ControlAssumption DEF Address
<1>3. x \in Int /\ x <= m.entry
  <2>1. i * ActivationSize \in Nat
    BY <1>1
  <2> QED BY <1>2, <2>1
<1> HIDE DEF x
<1>4. x > NativeStackLimit(m)
  <2>1. NativeStackLimit(m) \in Int
    BY <1>1, <1>2 DEF NativeStackLimit, Word
  <2> QED BY <1>3, <2>1 DEF IsDeep, x
<1>5. NativeStackLimit(m) # MaxAddress
  BY <1>1, <1>2, <1>3, <1>4
<1>6. /\ m.size # 0 /\ m.entry >= Budget /\ m.low <= MaxAddress - Reserve
      /\ NativeStackLimit(m) >= Word(m.entry - Budget)
      /\ NativeStackLimit(m) >= Word(m.low + Reserve)
  BY <1>1, <1>2, <1>5 DEF NativeStackLimit, Word
<1>7. Word(m.entry - Budget) = m.entry - Budget /\ Word(m.low + Reserve) = m.low + Reserve
  <2> DEFINE e == m.entry
             l == m.low
  <2>1. e - Budget \in 0..MaxAddress /\ l + Reserve \in 0..MaxAddress
    BY <1>1, <1>2, <1>6
  <2>2. \A w \in 0..MaxAddress : w % (MaxAddress + 1) = w
    BY <1>1
  <2> QED BY <2>1, <2>2 DEF Word
<1>8. m.size # 0 /\ x > m.entry - Budget /\ x - ActivationSize - Fallback >= m.low
  <2>1. NativeStackLimit(m) \in Int
    BY <1>1, <1>2 DEF NativeStackLimit, Word
  <2> QED BY <1>1, <1>2, <1>3, <1>4, <1>6, <1>7, <2>1
<1> QED BY <1>8 DEF x

LEMMA AboveLimitEnough == TypeOK /\ EnteredAboveLimit => NativeStackKept
<1> SUFFICES ASSUME TypeOK, EnteredAboveLimit,
                    NEW i \in DOMAIN activations, activations[i].version = "native"
             PROVE  /\ mapping.size # 0
                    /\ StackAddress(i) > mapping.entry - Budget
                    /\ StackAddress(i) - ActivationSize - Fallback >= mapping.low
  BY DEF NativeStackKept
<1>1. i \in Nat
  BY LenProperties DEF TypeOK
<1> QED BY <1>1, AboveLimitKept DEF EnteredAboveLimit, StackAddress, TypeOK

\* A body is entered natively above the limit.
LEMMA EnteredVersion ==
    ASSUME NEW unit, NEW top, Entered(unit, VersionOf(unit), top).version = "native"
    PROVE  ~IsDeep(StackAddress(Len(activations) + 1), NativeStackLimit(mapping))
BY DEF Entered, VersionOf

LEMMA AboveLimitStep == TypeOK /\ EnteredAboveLimit /\ [Next]_vars => EnteredAboveLimit'
<1> SUFFICES ASSUME TypeOK, EnteredAboveLimit, [Next]_vars PROVE EnteredAboveLimit'
  OBVIOUS
<1> DEFINE n == Len(activations)
           Kept(i, a) == a.version = "native" => ~IsDeep(StackAddress(i), NativeStackLimit(mapping))
<1>1. CASE UNCHANGED vars
  BY <1>1 DEF vars, EnteredAboveLimit, StackAddress
<1>2. ASSUME Next PROVE EnteredAboveLimit'
  <2>1. /\ activations # <<>> /\ mapping' = mapping
    BY <1>2 DEF Next
  <2>2. n \in Nat \ {0} /\ DOMAIN activations = 1..n /\ Running = activations[n]
    BY <2>1, RunningTypes
  <2>3. DOMAIN activations' = 1..Len(activations')
    BY <1>2, TypeStep, LenProperties DEF TypeOK
  <2>4. \A i \in 1..n : Kept(i, activations[i])
    BY <2>2 DEF EnteredAboveLimit
  <2>5. (\A i \in 1..Len(activations') : Kept(i, activations'[i])) => EnteredAboveLimit'
    BY <2>1, <2>3 DEF EnteredAboveLimit, StackAddress
  <2> HIDE DEF Kept
  <2>6. ASSUME StaysIn PROVE EnteredAboveLimit'
    <3>1. Kept(n, activations'[n])
      <4>1. activations'[n].version = activations[n].version
        BY <2>2, <2>6 DEF StaysIn, SameBody
      <4>2. Kept(n, activations[n])
        BY <2>2, <2>4
      <4> QED BY <4>1, <4>2 DEF Kept
    <3> QED BY <2>2, <2>4, <2>5, <2>6, <3>1 DEF StaysIn
  <2>7. ASSUME NEW call \in NativeCalls, NEW target \in call.targets, NativeCall(call, target)
        PROVE  EnteredAboveLimit'
    <3>1. /\ Len(activations') = n + 1
          /\ \A i \in 1..n - 1 : activations'[i] = activations[i]
          /\ activations'[n] = [Running EXCEPT !.call = call]
          /\ activations'[n + 1] = Entered(target, VersionOf(target), Top)
      BY <2>1, <2>7, CallShape
    <3>2. Kept(n, activations'[n])
      <4>1. Running \in Activations
        BY <2>1, RunningTypes
      <4>2. activations'[n].version = Running.version
        BY <3>1, <4>1 DEF Activations
      <4>3. Kept(n, activations[n])
        BY <2>2, <2>4
      <4> QED BY <2>2, <4>2, <4>3 DEF Kept
    <3>3. Kept(n + 1, activations'[n + 1])
      BY <3>1, EnteredVersion DEF Kept
    <3> QED BY <2>2, <2>4, <2>5, <3>1, <3>2, <3>3
  <2>8. ASSUME NativeSelfCall PROVE EnteredAboveLimit'
    <3>1. /\ Len(activations') = n + 1
          /\ \A i \in 1..n : activations'[i] = activations[i]
          /\ activations'[n + 1] = Entered(Running.unit, VersionOf(Running.unit), sharedTop)
      BY <2>1, <2>8, SelfCallShape
    <3>2. Kept(n + 1, activations'[n + 1])
      BY <3>1, EnteredVersion DEF Kept
    <3> QED BY <2>2, <2>4, <2>5, <3>1, <3>2
  <2>9. ASSUME NativeReturn PROVE EnteredAboveLimit'
    <3>1. /\ n - 1 \in Nat \ {0}
          /\ Len(activations') = n - 1
          /\ \A i \in 1..n - 2 : activations'[i] = activations[i]
          /\ Caller = activations[n - 1]
          /\ activations'[n - 1] = Returned(Caller)
      BY <2>1, <2>9, ReturnShape
    <3>2. Caller \in Activations
      BY <2>2, <3>1, ElementOfSeq DEF TypeOK
    <3>3. Kept(n - 1, activations'[n - 1])
      <4>1. Returned(Caller).version = Caller.version
        BY <3>2 DEF Returned, Activations
      <4> QED BY <2>2, <2>4, <3>1, <4>1 DEF Kept
    <3> QED BY <2>2, <2>4, <2>5, <3>1, <3>3
  <2>10. ASSUME Finish PROVE EnteredAboveLimit'
    <3>1. Len(activations') = 0
      BY <2>10 DEF Finish
    <3> QED BY <2>5, <3>1
  <2>11. ASSUME NEW site \in FrameSites,
                \/ ReplaceFrame(site) \/ PushCached(site) \/ PushReserved(site) \/ PushGrown(site)
         PROVE  EnteredAboveLimit'
    BY <2>1, <2>6, <2>11, PushingStaysIn
  <2>12. ASSUME NEW site \in FrameSites, ReserveTraps(site) PROVE EnteredAboveLimit'
    <3>1. activations' = activations
      BY <2>12 DEF ReserveTraps
    <3> QED BY <2>4, <2>5, <3>1
  <2>13. ASSUME ResumeFrame PROVE EnteredAboveLimit'
    BY <2>1, <2>6, <2>13, ResumeStaysIn
  <2>14. ASSUME RegionTailCall PROVE EnteredAboveLimit'
    BY <2>1, <2>6, <2>14, TailCallStaysIn
  <2> QED BY <1>2, <2>7, <2>8, <2>9, <2>10, <2>11, <2>12, <2>13, <2>14 DEF Next
<1> QED BY <1>1, <1>2

\* The native version runs only on a stack that is known, within the budget and with room
\* for one more activation and its fallback, whatever mal_native_stack_begin finds.
THEOREM NativeStackSafe == Spec => []NativeStackKept
<1>1. Init => EnteredAboveLimit
  <2> SUFFICES ASSUME Init PROVE EnteredAboveLimit
    OBVIOUS
  <2>1. activations = <<Entered(Root, "frames", 0)>>
    BY DEF Init
  <2> QED BY <2>1 DEF EnteredAboveLimit, Entered
<1> QED BY <1>1, InitType, TypeStep, AboveLimitStep, AboveLimitEnough, PTL DEF Spec
-----------------------------------------------------------------------------
(* Views of the storage.                                                    *)

\* In a build that keeps views, every call of a body with frames that may move the
\* storage has a target that the caller knows to move it.
Settled == TRUE \in Builds => CallsSettled(NativeCalls)

LEMMA SameKeeps ==
    ASSUME NEW a, NEW b, SameBody(a, b)
    PROVE  (KeepsFrames(a) <=> KeepsFrames(b)) /\ (KeepsLocals(a) <=> KeepsLocals(b))
BY DEF SameBody, KeepsFrames, KeepsLocals

LEMMA ViewsStayIn ==
    ASSUME TypeOK, TypeOK', activations # <<>>, ViewsKept, StaysIn, UNCHANGED localizing,
           KeepsLocals(Running) => Running'.view = arena',
           arena' = arena \/ KeepsFrames(Running)
    PROVE  ViewsKept'
<1> DEFINE n == Len(activations)
<1>1. /\ n \in Nat \ {0} /\ DOMAIN activations = 1..n /\ Running = activations[n]
      /\ Len(activations') = n /\ DOMAIN activations' = 1..n /\ Running' = activations'[n]
  BY RunningTypes, LenProperties DEF StaysIn, TypeOK, Running, Last
<1>2. \A i \in 1..n : SameBody(activations'[i], activations[i])
  BY <1>1 DEF StaysIn, SameBody
<1>3. \A a : (KeepsLocals(a))' <=> KeepsLocals(a')
  BY DEF KeepsLocals, Localizes
<1> SUFFICES ASSUME NEW i \in 1..n, KeepsLocals(activations'[i]) PROVE ViewKept(i)'
  BY <1>1 DEF ViewsKept, KeepsLocals, Localizes
<1>4. KeepsLocals(activations[i])
  BY <1>2, SameKeeps
<1>5. ViewKept(i)
  BY <1>1, <1>4 DEF ViewsKept
<1>6. CASE i = n
  BY <1>1, <1>4, <1>6 DEF ViewKept
<1>7. CASE i # n
  <2>1. i \in 1..n - 1 /\ activations'[i] = activations[i]
    <3>1. \A k \in 1..n - 1 : activations'[k] = activations[k]
      BY DEF StaysIn
    <3> HIDE DEF n
    <3> QED BY <1>1, <1>7, <3>1
  <2> DEFINE body == activations[i]
  <2>2. body.call \in NativeCalls /\ body.call.from = body.unit
    BY <1>5, <1>7 DEF ViewKept
  <2>3. CASE Relocates(body.call)
    <3>1. Relocates(activations[i].call)'
      BY <2>1, <2>3 DEF Relocates, Localizes
    <3> QED BY <1>1, <1>7, <2>1, <2>2, <3>1 DEF ViewKept
  <2>4. CASE ~Relocates(body.call)
    <3>1. PICK bodies \in SUBSET Units :
            /\ StaysClear(NativeCalls, bodies)
            /\ \A j \in DOMAIN activations : i < j => activations[j].unit \in bodies
      BY <1>5, <1>7, <2>4 DEF ViewKept
    <3>2. body.view = arena
      BY <1>5, <1>7, <2>4 DEF ViewKept
    <3>3. Running.unit \in bodies
      BY <1>1, <2>1, <3>1
    <3>4. arena' = arena
      BY <3>1, <3>3 DEF StaysClear, KeepsFrames
    <3>5. \A j \in 1..n : i < j => activations'[j].unit \in bodies
      BY <1>1, <1>2, <3>1 DEF SameBody
    <3> QED BY <1>1, <1>7, <2>1, <2>2, <3>1, <3>2, <3>4, <3>5 DEF ViewKept
  <2> QED BY <2>3, <2>4
<1> QED BY <1>6, <1>7

\* A body entered above: the caller has made its call, and only inner bodies are new.
LEMMA ViewsEntered ==
    ASSUME TypeOK, TypeOK', activations # <<>>, ViewsKept, BuildKnown, Settled,
           UNCHANGED <<localizing, arena>>,
           NEW unit, NEW version, NEW top,
           Len(activations') = Len(activations) + 1,
           \A i \in 1..Len(activations) - 1 : activations'[i] = activations[i],
           activations'[Len(activations) + 1] = Entered(unit, version, top),
           \/ /\ ~KeepsLocals(Running) /\ unit = Running.unit
              /\ activations'[Len(activations)] = Running
           \/ \E call \in NativeCalls :
                /\ call.from = Running.unit /\ unit \in call.targets
                /\ activations'[Len(activations)] = [Running EXCEPT !.call = call]
    PROVE  ViewsKept'
<1> DEFINE n == Len(activations)
           new == activations'[n + 1]
<1>1. /\ n \in Nat \ {0} /\ Len(activations) = n /\ n # n + 1
      /\ DOMAIN activations = 1..n /\ Running = activations[n]
      /\ Len(activations') = n + 1 /\ DOMAIN activations' = 1..n + 1
      /\ Running \in Activations
  BY RunningTypes, LenProperties DEF TypeOK
<1>2. activations'[n].unit = Running.unit /\ activations'[n].view = Running.view
      /\ activations'[n].version = Running.version
  BY <1>1 DEF Activations
<1>3. \A bodies : StaysClear(NativeCalls, bodies) /\ Running.unit \in bodies => unit \in bodies
  BY DEF StaysClear
<1>4. new.unit = unit /\ activations'[n + 1].unit = unit
  BY DEF Entered
<1> SUFFICES ASSUME NEW i \in 1..n + 1, KeepsLocals(activations'[i]) PROVE ViewKept(i)'
  BY <1>1 DEF ViewsKept, KeepsLocals, Localizes
<1>9. activations'[n + 1] = Entered(unit, version, top)
  OBVIOUS
<1>10. \A k \in 1..n - 1 : activations'[k] = activations[k]
  OBVIOUS
<1>11. \/ /\ ~KeepsLocals(Running) /\ unit = Running.unit
         /\ activations'[n] = Running
      \/ \E call \in NativeCalls :
            /\ call.from = Running.unit /\ unit \in call.targets
            /\ activations'[n] = [Running EXCEPT !.call = call]
  OBVIOUS
<1> HIDE DEF n
<1>5. CASE i = n + 1
  <2>1. activations'[i].view = arena
    BY <1>5, <1>9 DEF Entered, KeepsLocals
  <2> QED BY <1>1, <1>5, <2>1 DEF ViewKept
<1>6. CASE i = n
  <2>1. KeepsLocals(Running)
    BY <1>2, <1>6 DEF KeepsLocals
  <2>2. Running.view = arena
    BY <1>1, <2>1 DEF ViewsKept, ViewKept
  <2>3. PICK call \in NativeCalls :
          /\ call.from = Running.unit /\ unit \in call.targets
          /\ activations'[n] = [Running EXCEPT !.call = call]
    BY <1>11, <2>1
  <2>4. activations'[n].call = call
    BY <1>1, <2>3 DEF Activations
  <2>5. CASE Relocates(call)
    <3>1. Relocates(activations[i].call)'
      BY <1>6, <2>4, <2>5 DEF Relocates, Localizes
    <3> QED BY <1>1, <1>2, <1>6, <2>3, <2>4, <3>1 DEF ViewKept
  <2>6. CASE ~Relocates(call)
    <3>1. Framed(call.from) /\ localizing
      BY <2>1, <2>3 DEF KeepsLocals, Localizes
    <3>2. ~ \E target \in call.targets : Framed(target)
      BY <2>6, <3>1 DEF Relocates, Localizes
    <3>3. CallsSettled(NativeCalls)
      BY <3>1 DEF Settled, BuildKnown, TypeOK
    <3>4. PICK bodies \in SUBSET Units : StaysClear(NativeCalls, bodies) /\ call.targets \subseteq bodies
      BY <3>1, <3>2, <3>3 DEF CallsSettled
    <3>5. \A j \in 1..n + 1 : n < j => activations'[j].unit \in bodies
      BY <1>1, <1>4, <2>3, <3>4
    <3> QED BY <1>1, <1>2, <1>6, <2>2, <2>3, <2>4, <3>4, <3>5 DEF ViewKept
  <2> QED BY <2>5, <2>6
<1>7. CASE i \in 1..n - 1
  <2> DEFINE body == activations[i]
  <2>1. activations'[i] = body /\ i # n /\ i # n + 1
    BY <1>1, <1>7, <1>10
  <2>2. ViewKept(i)
    BY <1>1, <2>1 DEF ViewsKept
  <2>3. body.call \in NativeCalls /\ body.call.from = body.unit
    BY <1>1, <2>1, <2>2 DEF ViewKept
  <2>4. CASE Relocates(body.call)
    <3>1. Relocates(activations[i].call)'
      BY <2>1, <2>4 DEF Relocates, Localizes
    <3> QED BY <1>1, <2>1, <2>3, <3>1 DEF ViewKept
  <2>5. CASE ~Relocates(body.call)
    <3>1. PICK bodies \in SUBSET Units :
            /\ StaysClear(NativeCalls, bodies)
            /\ \A j \in DOMAIN activations : i < j => activations[j].unit \in bodies
      BY <1>1, <2>1, <2>2, <2>5 DEF ViewKept
    <3>2. body.view = arena
      BY <1>1, <2>1, <2>2, <2>5 DEF ViewKept
    <3>3. Running.unit \in bodies
      BY <1>1, <1>7, <3>1
    <3>4. unit \in bodies
      BY <1>3, <3>1, <3>3
    <3>5. ASSUME NEW j \in 1..n + 1, i < j PROVE activations'[j].unit \in bodies
      <4>1. CASE j = n + 1
        BY <1>4, <3>4, <4>1
      <4>2. CASE j = n
        BY <1>2, <3>3, <4>2
      <4>3. CASE j \in 1..n - 1
        BY <1>1, <1>10, <3>1, <3>5, <4>3
      <4> QED BY <1>1, <4>1, <4>2, <4>3
    <3> QED BY <1>1, <2>1, <2>3, <3>1, <3>2, <3>5 DEF ViewKept
  <2> QED BY <2>4, <2>5
<1> QED BY <1>1, <1>5, <1>6, <1>7

LEMMA ViewsReturned ==
    ASSUME TypeOK, TypeOK', activations # <<>>, ViewsKept, UNCHANGED <<localizing, arena>>, NativeReturn
    PROVE  ViewsKept'
<1> DEFINE n == Len(activations)
<1>1. /\ Len(activations) = n /\ n \in Nat \ {0} /\ DOMAIN activations = 1..n /\ n - 1 \in Nat \ {0}
      /\ Len(activations') = n - 1 /\ DOMAIN activations' = 1..n - 1
      /\ \A i \in 1..n - 2 : activations'[i] = activations[i]
      /\ Caller = activations[n - 1] /\ activations'[n - 1] = Returned(Caller)
  BY RunningTypes, ReturnShape, LenProperties DEF TypeOK
<1> HIDE DEF n
<1>2. Caller \in Activations
  BY <1>1, ElementOfSeq DEF TypeOK
<1>3. /\ Returned(Caller).unit = Caller.unit /\ Returned(Caller).version = Caller.version
      /\ Returned(Caller).view = IF KeepsLocals(Caller) /\ Relocates(Caller.call) THEN arena ELSE Caller.view
  BY <1>2 DEF Returned, Activations
<1> SUFFICES ASSUME NEW i \in 1..n - 1, KeepsLocals(activations'[i]) PROVE ViewKept(i)'
  BY <1>1 DEF ViewsKept, KeepsLocals, Localizes
<1>4. i \in 1..n /\ i # n
  BY <1>1
<1>5. activations'[i].unit = activations[i].unit /\ activations'[i].version = activations[i].version
  BY <1>1, <1>3
<1>6. KeepsLocals(activations[i])
  BY <1>5 DEF KeepsLocals
<1>7. ViewKept(i)
  BY <1>1, <1>4, <1>6 DEF ViewsKept
<1> DEFINE body == activations[i]
<1>8. CASE i = n - 1
  <2>1. Relocates(body.call) \/ body.view = arena
    BY <1>1, <1>4, <1>7 DEF ViewKept
  <2>2. activations'[i].view = arena
    BY <1>1, <1>3, <1>6, <1>8, <2>1
  <2> QED BY <1>1, <1>8, <2>2 DEF ViewKept
<1>9. CASE i \in 1..n - 2
  <2>1. activations'[i] = body /\ i # n - 1
    BY <1>1, <1>9
  <2>2. body.call \in NativeCalls /\ body.call.from = body.unit
    BY <1>1, <1>4, <1>7 DEF ViewKept
  <2>3. CASE Relocates(body.call)
    <3>1. Relocates(activations[i].call)'
      BY <2>1, <2>3 DEF Relocates, Localizes
    <3> QED BY <1>1, <2>1, <2>2, <3>1 DEF ViewKept
  <2>4. CASE ~Relocates(body.call)
    <3>1. PICK bodies \in SUBSET Units :
            /\ StaysClear(NativeCalls, bodies)
            /\ \A j \in DOMAIN activations : i < j => activations[j].unit \in bodies
      BY <1>1, <1>4, <1>7, <2>4 DEF ViewKept
    <3>2. body.view = arena
      BY <1>1, <1>4, <1>7, <2>4 DEF ViewKept
    <3>3. ASSUME NEW j \in 1..n - 1, i < j PROVE activations'[j].unit \in bodies
      <4>1. activations'[j].unit = activations[j].unit
        BY <1>1, <1>3
      <4> QED BY <1>1, <3>1, <3>3, <4>1
    <3> QED BY <1>1, <2>1, <2>2, <3>1, <3>2, <3>3 DEF ViewKept
  <2> QED BY <2>3, <2>4
<1> QED BY <1>1, <1>8, <1>9

LEMMA ViewsStep ==
    TypeOK /\ TypeOK' /\ BuildKnown /\ Settled /\ ViewsKept /\ [Next]_vars => ViewsKept'
<1> SUFFICES ASSUME TypeOK, TypeOK', BuildKnown, Settled, ViewsKept, [Next]_vars PROVE ViewsKept'
  OBVIOUS
<1>1. CASE UNCHANGED vars
  BY <1>1 DEF vars, ViewsKept, ViewKept, KeepsLocals, Localizes, Relocates
<1>2. ASSUME Next PROVE ViewsKept'
  <2>1. /\ activations # <<>> /\ UNCHANGED localizing
    BY <1>2 DEF Next
  <2>2. KeepsLocals(Running) => Running.view = arena /\ View = arena
    BY <2>1, RunningTypes DEF ViewsKept, ViewKept, View
  <2>3. ASSUME NEW call \in NativeCalls, NEW target \in call.targets, NativeCall(call, target)
        PROVE  ViewsKept'
    <3>1. UNCHANGED <<localizing, arena>> /\ call.from = Running.unit
      BY <2>1, <2>3 DEF NativeCall
    <3>2. /\ Len(activations') = Len(activations) + 1
          /\ \A i \in 1..Len(activations) - 1 : activations'[i] = activations[i]
          /\ activations'[Len(activations) + 1] = Entered(target, VersionOf(target), Top)
      BY <2>1, <2>3, CallShape
    <3>3. \E c \in NativeCalls :
            /\ c.from = Running.unit /\ target \in c.targets
            /\ activations'[Len(activations)] = [Running EXCEPT !.call = c]
      BY <2>1, <2>3, <3>1, CallShape
    <3> QED BY <2>1, <3>1, <3>2, <3>3, ViewsEntered
  <2>4. ASSUME NativeSelfCall PROVE ViewsKept'
    <3>1. UNCHANGED <<localizing, arena>> /\ ~KeepsLocals(Running)
      BY <2>1, <2>4 DEF NativeSelfCall, KeepsLocals
    <3>2. Len(activations) \in Nat \ {0} /\ Running = activations[Len(activations)]
      BY <2>1, RunningTypes
    <3>3. /\ Len(activations') = Len(activations) + 1
          /\ \A i \in 1..Len(activations) : activations'[i] = activations[i]
          /\ activations'[Len(activations) + 1]
               = Entered(Running.unit, VersionOf(Running.unit), sharedTop)
      BY <2>1, <2>4, SelfCallShape
    <3>4. /\ \A i \in 1..Len(activations) - 1 : activations'[i] = activations[i]
          /\ activations'[Len(activations)] = Running
      BY <3>2, <3>3
    <3> QED BY <2>1, <3>1, <3>3, <3>4, ViewsEntered
  <2>5. ASSUME NativeReturn PROVE ViewsKept'
    <3>1. UNCHANGED <<localizing, arena>>
      BY <2>1, <2>5 DEF NativeReturn
    <3> QED BY <2>1, <2>5, <3>1, ViewsReturned
  <2>6. ASSUME Finish PROVE ViewsKept'
    <3>1. DOMAIN activations' = {}
      BY <2>6 DEF Finish
    <3> QED BY <3>1 DEF ViewsKept
  <2>7. ASSUME NEW site \in FrameSites, ReplaceFrame(site) \/ PushCached(site) PROVE ViewsKept'
    <3>1. /\ Push(site, View, arena.storage) /\ arena' = arena
          /\ View \in Views
      BY <2>1, <2>7, RunningTypes DEF ReplaceFrame, PushCached
    <3>2. StaysIn /\ (KeepsLocals(Running) => Running'.view = View)
      BY <2>1, <3>1, PushStaysIn
    <3> QED BY <2>1, <2>2, <3>1, <3>2, ViewsStayIn
  <2>8. ASSUME NEW site \in FrameSites, PushReserved(site) PROVE ViewsKept'
    <3>1. Push(site, arena, arena.storage) /\ arena' = arena /\ arena \in Views
      BY <2>8 DEF PushReserved, TypeOK
    <3>2. StaysIn /\ (KeepsLocals(Running) => Running'.view = arena)
      BY <2>1, <3>1, PushStaysIn
    <3> QED BY <2>1, <3>1, <3>2, ViewsStayIn
  <2>9. ASSUME NEW site \in FrameSites, PushGrown(site) PROVE ViewsKept'
    <3>1. Push(site, arena', arena'.storage) /\ arena' \in Views /\ KeepsFrames(Running)
      BY <2>9 DEF PushGrown, SiteOfRunning, TypeOK
    <3>2. StaysIn /\ (KeepsLocals(Running) => Running'.view = arena')
      BY <2>1, <3>1, PushStaysIn
    <3> QED BY <2>1, <3>1, <3>2, ViewsStayIn
  <2>10. ASSUME NEW site \in FrameSites, ReserveTraps(site) PROVE ViewsKept'
    BY <2>1, <2>10 DEF ReserveTraps, ViewsKept, ViewKept, KeepsLocals, Localizes, Relocates
  <2>11. ASSUME ResumeFrame PROVE ViewsKept'
    <3>1. StaysIn /\ Running'.view = Running.view
      BY <2>1, <2>11, ResumeStaysIn
    <3>2. arena' = arena
      BY <2>11 DEF ResumeFrame
    <3> QED BY <2>1, <2>2, <3>1, <3>2, ViewsStayIn
  <2>12. ASSUME RegionTailCall PROVE ViewsKept'
    <3>1. StaysIn /\ Running'.view = Running.view
      BY <2>1, <2>12, TailCallStaysIn
    <3>2. arena' = arena
      BY <2>12 DEF RegionTailCall
    <3> QED BY <2>1, <2>2, <3>1, <3>2, ViewsStayIn
  <2> QED BY <1>2, <2>3, <2>4, <2>5, <2>6, <2>7, <2>8, <2>9, <2>10, <2>11, <2>12 DEF Next
<1> QED BY <1>1, <1>2

LEMMA BuildStep == BuildKnown /\ [Next]_vars => BuildKnown'
BY DEF BuildKnown, Next, vars

LEMMA InitViews == Init => BuildKnown /\ ViewsKept
<1> SUFFICES ASSUME Init PROVE BuildKnown /\ ViewsKept
  OBVIOUS
<1>1. /\ activations = <<Entered(Root, "frames", 0)>> /\ Len(activations) = 1
      /\ DOMAIN activations = 1..1 /\ activations[1] = Entered(Root, "frames", 0)
  BY DEF Init
<1>2. activations[1].unit = Root
  BY <1>1 DEF Entered
<1>3. ~Framed(Root)
  BY ControlAssumption DEF Framed
<1> QED BY <1>1, <1>2, <1>3 DEF ViewsKept, KeepsLocals, Localizes, BuildKnown, Init

\* A body that keeps a view of the storage runs with the view the arena has now, across
\* calls, growth and relocation, in every program whose calls are settled.
THEOREM FrameAddressesSafe == ASSUME Settled PROVE Spec => []FrameAddressesCurrent
<1>1. TypeOK /\ ViewsKept => FrameAddressesCurrent
  BY RunningTypes DEF ViewsKept, ViewKept, FrameAddressesCurrent
<1>2. Settled
  OBVIOUS
<1>3. TypeOK /\ BuildKnown /\ ViewsKept /\ [Next]_vars => TypeOK' /\ BuildKnown' /\ ViewsKept'
  BY <1>2, TypeStep, BuildStep, ViewsStep
<1> QED BY <1>1, <1>3, InitType, InitViews, PTL DEF Spec
-----------------------------------------------------------------------------
(* Frames.                                                                  *)

\* What an operation of the running body leaves of the bodies on the stack.
LEMMA StaysInBodies ==
    ASSUME TypeOK, TypeOK', activations # <<>>, StaysIn, UNCHANGED localizing, NEW n, n = Len(activations)
    PROVE  /\ n \in Nat \ {0} /\ n = Len(activations')
           /\ DOMAIN activations = 1..n /\ DOMAIN activations' = 1..n
           /\ Running = activations[n] /\ Running' = activations'[n]
           /\ \A i \in 1..n - 1 : activations'[i] = activations[i]
           /\ \A i \in 1..n : SameBody(activations'[i], activations[i])
           /\ \A i \in 1..n : KeepsFrames(activations'[i]) <=> KeepsFrames(activations[i])
           /\ \A i \in 1..n : (KeepsLocals(activations[i]))' <=> KeepsLocals(activations[i])
<1>1. /\ n \in Nat \ {0} /\ n = Len(activations')
      /\ DOMAIN activations = 1..n /\ DOMAIN activations' = 1..n
      /\ Running = activations[n] /\ Running' = activations'[n]
      /\ \A i \in 1..n - 1 : activations'[i] = activations[i]
      /\ SameBody(activations'[n], activations[n])
  BY RunningTypes, LenProperties DEF StaysIn, TypeOK, Running, Last
<1>2. \A i \in 1..n : SameBody(activations'[i], activations[i])
  BY <1>1 DEF SameBody
<1>3. \A i \in 1..n : KeepsFrames(activations'[i]) <=> KeepsFrames(activations[i])
  BY <1>2 DEF SameBody, KeepsFrames
<1>4. \A i \in 1..n : (KeepsLocals(activations[i]))' <=> KeepsLocals(activations[i])
  BY <1>2 DEF SameBody, KeepsLocals, Localizes
<1> QED BY <1>1, <1>2, <1>3, <1>4

LEMMA Fitting == ASSUME NEW n \in Nat, NEW max \in Nat, n <= max PROVE n % (max + 1) = n
  OBVIOUS

LEMMA OneMore == ASSUME NEW n \in Nat, NEW j \in 1..n + 1 PROVE j = n + 1 \/ j \in 1..n
  OBVIOUS

\* Places are naturals, and a frame has a size.
LEMMA Places ==
    ASSUME TypeOK
    PROVE  /\ \A i \in DOMAIN activations :
                activations[i].base \in Nat /\ activations[i].retired \in Nat
           /\ \A f \in memory : f.at \in Nat /\ End(f) \in Nat /\ f.at < End(f)
           /\ arena.capacity \in Nat
<1>1. \A i \in DOMAIN activations : activations[i] \in Activations
  BY ElementOfSeq, LenProperties DEF TypeOK
<1>2. \A i \in DOMAIN activations :
        activations[i].base \in Nat /\ activations[i].retired \in Nat
  BY <1>1 DEF Activations
<1>3. \A f \in memory : f.at \in Nat /\ f.site \in FrameSites
  BY DEF TypeOK, FrameSet
<1>4. \A f \in memory : End(f) \in Nat /\ f.at < End(f)
  BY <1>3, Sizes DEF End
<1>5. arena.capacity \in Nat
  BY DEF TypeOK, Views
<1> QED BY <1>2, <1>3, <1>4, <1>5

\* Where the frames end after an operation of a running body that keeps frames.
LEMMA StaysInEnds ==
    ASSUME TypeOK, TypeOK', activations # <<>>, StaysIn, UNCHANGED localizing, KeepsFrames(Running),
           NEW n, n = Len(activations)
    PROVE  /\ \A t : \A i \in 1..n - 1 : EndsAt(activations', Top', i, t) => EndsAt(activations, Top, i, t)
           /\ \A t : EndsAt(activations', Top', n, t) => t = Top'
<1>1. /\ n \in Nat \ {0} /\ DOMAIN activations = 1..n /\ DOMAIN activations' = 1..n
      /\ \A i \in 1..n : activations'[i].base = activations[i].base
      /\ \A i \in 1..n : KeepsFrames(activations'[i]) <=> KeepsFrames(activations[i])
      /\ KeepsFrames(activations[n])
  BY StaysInBodies DEF SameBody
<1>2. ASSUME NEW i \in 1..n - 1, NEW t, EndsAt(activations', Top', i, t) PROVE EndsAt(activations, Top, i, t)
  <2>1. ~Innermost(activations', i)
    BY <1>1 DEF Innermost
  <2>2. PICK j \in 1..n : Above(activations', i, j) /\ t = activations'[j].base
    BY <1>1, <1>2, <2>1 DEF EndsAt
  <2>3. i < j /\ KeepsFrames(activations'[j]) /\ \A k \in 1..n : i < k /\ k < j => ~KeepsFrames(activations'[k])
    BY <1>1, <2>2 DEF Above
  <2>4. Above(activations, i, j) /\ t = activations[j].base
    BY <1>1, <2>2, <2>3 DEF Above
  <2> QED BY <1>1, <2>4 DEF EndsAt
<1>3. ASSUME NEW t, EndsAt(activations', Top', n, t) PROVE t = Top'
  <2>1. ASSUME NEW j \in 1..n PROVE ~Above(activations', n, j)
    <3>1. ~(n < j)
      BY <1>1
    <3> QED BY <3>1 DEF Above
  <2> QED BY <1>1, <1>3, <2>1 DEF EndsAt
<1> QED BY <1>2, <1>3

-----------------------------------------------------------------------------
(* The arena as one stack of suspended calls per body.                      *)

\* Where the frames of an activation end, as a function of the stack and the top.
Ends(stack, top, i) == CHOOSE t : EndsAt(stack, top, i, t)

OwnFrames(stack, frames, top, i) ==
    {f \in frames : stack[i].base <= f.at /\ End(f) <= Ends(stack, top, i)}

CallsOf(stack, frames, top, i) ==
    IF KeepsFrames(stack[i]) THEN InOrder(OwnFrames(stack, frames, top, i)) ELSE <<>>

\* SuspendedCalls by the relation EndsAt.
Abstract ==
    [i \in DOMAIN activations |->
        [unit |-> activations[i].unit, suspended |-> CallsOf(activations, memory, Top, i)]]

LEMMA EndExists ==
    TypeOK /\ activations # <<>> =>
        \A i \in DOMAIN activations : \E t \in 0..SizeMax : EndsAt(activations, Top, i, t)
<1> SUFFICES ASSUME TypeOK, activations # <<>>, NEW i \in DOMAIN activations
             PROVE  \E t \in 0..SizeMax : EndsAt(activations, Top, i, t)
  OBVIOUS
<1> DEFINE above == {j \in DOMAIN activations : i < j /\ KeepsFrames(activations[j])}
<1>1. DOMAIN activations \subseteq Nat /\ Top \in 0..SizeMax
  BY RunningTypes
<1>2. CASE above = {}
  BY <1>1, <1>2 DEF EndsAt, Innermost
<1>3. CASE above # {}
  <2>1. above \subseteq Nat
    BY <1>1
  <2>2. PICK j \in above : \A k \in above : j <= k
    <3> HIDE DEF above
    <3> QED BY <1>3, <2>1, LeastElement
  <2>3. \A k \in DOMAIN activations : i < k /\ k < j => ~KeepsFrames(activations[k])
    BY <1>1, <2>2
  <2>4. Above(activations, i, j)
    BY <2>2, <2>3 DEF Above
  <2>5. activations[j].base \in 0..SizeMax
    <3>1. activations[j] \in Activations
      BY <2>2, ElementOfSeq, LenProperties DEF TypeOK
    <3> QED BY <3>1 DEF Activations
  <2> QED BY <2>2, <2>4, <2>5 DEF EndsAt
<1> QED BY <1>2, <1>3

LEMMA EndIs ==
    ASSUME NEW stack, DOMAIN stack \subseteq Int, NEW top, NEW i, NEW t, EndsAt(stack, top, i, t)
    PROVE  Ends(stack, top, i) = t
<1>1. ASSUME NEW u, EndsAt(stack, top, i, u) PROVE u = t
  <2>1. \A j, k \in DOMAIN stack : Above(stack, i, j) /\ Above(stack, i, k) => j = k
    BY DEF Above
  <2>2. \A j \in DOMAIN stack : ~ (Above(stack, i, j) /\ Innermost(stack, i))
    BY DEF Above, Innermost
  <2> QED BY <1>1, <2>1, <2>2 DEF EndsAt
<1> QED BY <1>1 DEF Ends

\* A stack of the same end has it at the same place.
LEMMA EndStays ==
    ASSUME NEW stack, DOMAIN stack \subseteq Int, NEW top,
           NEW other, DOMAIN other \subseteq Int, NEW bottom, NEW i,
           \E t : EndsAt(other, bottom, i, t),
           \A t : EndsAt(other, bottom, i, t) => EndsAt(stack, top, i, t)
    PROVE  Ends(other, bottom, i) = Ends(stack, top, i)
BY EndIs

\* The sites in the order of their frames, with one more frame above them.
LEMMA InOrderExtended ==
    ASSUME NEW own, IsFiniteSet(own), NEW frame,
           \A g \in own : g.at \in Nat /\ g.at < frame.at, frame.at \in Nat
    PROVE  InOrder(own \cup {frame}) = Append(InOrder(own), frame.site)
<1> DEFINE both == own \cup {frame}
           n == Cardinality(own)
           AtMost(s, h) == {g \in s : g.at <= h.at}
           Nth(s, m) == CHOOSE f \in s : Cardinality(AtMost(s, f)) = m
           Sites(s, k) == [m \in 1..k |-> Nth(s, m).site]
<1>1. frame \notin own
  OBVIOUS
<1>2. n \in Nat /\ Cardinality(both) = n + 1 /\ IsFiniteSet(both)
  BY <1>1, FS_AddElement, FS_CardinalityType
<1>3. \A h \in own : AtMost(both, h) = AtMost(own, h)
  OBVIOUS
<1>4. AtMost(both, frame) = both
  OBVIOUS
<1>5. \A h \in own : Cardinality(AtMost(own, h)) <= n
  <2>1. \A h \in own : AtMost(own, h) \subseteq own
    OBVIOUS
  <2> QED BY <2>1, FS_Subset
<1>6. InOrder(own) = Sites(own, n) /\ InOrder(both) = Sites(both, n + 1)
  BY <1>2 DEF InOrder
<1> HIDE DEF both, n, AtMost
<1>7. both = own \cup {frame} /\ frame \in both
  BY DEF both
<1>8. ASSUME NEW m \in 1..n PROVE Nth(both, m) = Nth(own, m)
  <2>1. Cardinality(AtMost(both, frame)) # m
    BY <1>2, <1>4
  <2>2. \A h : (h \in both /\ Cardinality(AtMost(both, h)) = m) <=>
               (h \in own /\ Cardinality(AtMost(own, h)) = m)
    BY <1>3, <1>7, <2>1
  <2> QED BY <2>2, Zenon
<1>9. Nth(both, n + 1) = frame
  <2>1. Cardinality(AtMost(both, frame)) = n + 1
    BY <1>2, <1>4
  <2>2. ASSUME NEW h \in both, Cardinality(AtMost(both, h)) = n + 1 PROVE h = frame
    <3>1. CASE h \in own
      <4>1. Cardinality(AtMost(own, h)) = n + 1
        BY <1>3, <2>2, <3>1
      <4> QED BY <1>2, <1>5, <3>1, <4>1
    <3> QED BY <1>7, <3>1
  <2> QED BY <1>7, <2>1, <2>2
<1> HIDE DEF Nth
<1> DEFINE S == {Nth(own, m).site : m \in 1..n} \cup {frame.site}
<1>10. Sites(own, n) \in Seq(S) /\ Len(Sites(own, n)) = n
  BY <1>2
<1>11. Sites(both, n + 1) \in Seq(S) /\ Len(Sites(both, n + 1)) = n + 1
  <2>1. \A m \in 1..n + 1 : Nth(both, m).site \in S
    <3> SUFFICES ASSUME NEW m \in 1..n + 1 PROVE Nth(both, m).site \in S
      OBVIOUS
    <3>1. CASE m = n + 1
      BY <1>9, <3>1
    <3>2. CASE m # n + 1
      <4>1. m \in 1..n
        BY <1>2, <3>2
      <4> QED BY <1>8, <4>1
    <3> QED BY <3>1, <3>2
  <2> HIDE DEF S
  <2> QED BY <1>2, <2>1
<1>12. /\ Append(Sites(own, n), frame.site) \in Seq(S)
       /\ Len(Append(Sites(own, n), frame.site)) = n + 1
       /\ \A m \in 1..n : Append(Sites(own, n), frame.site)[m] = Sites(own, n)[m]
       /\ Append(Sites(own, n), frame.site)[n + 1] = frame.site
  <2>1. frame.site \in S
    OBVIOUS
  <2> HIDE DEF S, Sites
  <2> QED BY <1>10, <2>1, AppendProperties
<1>13. \A m \in 1..n + 1 : Append(Sites(own, n), frame.site)[m] = Sites(both, n + 1)[m]
  <2> SUFFICES ASSUME NEW m \in 1..n + 1
               PROVE  Append(Sites(own, n), frame.site)[m] = Sites(both, n + 1)[m]
    OBVIOUS
  <2>1. CASE m = n + 1
    BY <1>2, <1>9, <1>12, <2>1
  <2>2. CASE m # n + 1
    <3>1. m \in 1..n
      BY <1>2, <2>2
    <3> QED BY <1>8, <1>12, <3>1
  <2> QED BY <2>1, <2>2
<1>14. Append(Sites(own, n), frame.site) = Sites(both, n + 1)
  <2> HIDE DEF S, Sites
  <2> QED BY <1>11, <1>12, <1>13, SeqEqual
<1> QED BY <1>6, <1>14 DEF both

LEMMA InOrderEmpty == InOrder({}) = <<>>
<1>1. Cardinality({}) = 0 /\ 1..0 = {}
  BY FS_EmptySet
<1> DEFINE Nth(m) == CHOOSE f \in {} : Cardinality({g \in {} : g.at <= f.at}) = m
<1>2. InOrder({}) = [m \in 1..Cardinality({}) |-> Nth(m).site]
  BY DEF InOrder
<1> HIDE DEF Nth
<1>3. [m \in {} |-> Nth(m).site] = <<>>
  OBVIOUS
<1> QED BY <1>1, <1>2, <1>3
-----------------------------------------------------------------------------
(* Stacks of bodies, as functions.                                          *)

Bodies(s, n) == n \in Nat /\ s = [i \in 1..n |-> s[i]]

LEMMA BodiesSeq ==
    ASSUME NEW s, NEW n, Bodies(s, n)
    PROVE  /\ s \in Seq({s[i] : i \in 1..n}) /\ Len(s) = n /\ DOMAIN s = 1..n
<1> DEFINE S == {s[i] : i \in 1..n}
<1>1. n \in Nat /\ \A i \in 1..n : s[i] \in S
  BY DEF Bodies
<1>2. s = [i \in 1..n |-> s[i]]
  BY DEF Bodies
<1>3. [i \in 1..n |-> s[i]] \in Seq(S)
  <2> HIDE DEF S
  <2> QED BY <1>1
<1>4. s \in Seq(S)
  BY <1>2, <1>3
<1>5. DOMAIN s = 1..n
  BY <1>2
<1>6. Len(s) = n
  <2> HIDE DEF S
  <2> QED BY <1>1, <1>4, <1>5, LenProperties
<1> QED BY <1>4, <1>5, <1>6

LEMMA BodiesAppend ==
    ASSUME NEW s, NEW n, Bodies(s, n), NEW t, NEW m, m = n + 1, Bodies(t, m), \A i \in 1..n : t[i] = s[i]
    PROVE  t = Append(s, t[m])
<1> DEFINE e == t[n + 1]
           S == {s[i] : i \in 1..n} \cup {e}
<1>1. n \in Nat /\ Len(s) = n /\ Len(t) = n + 1
  BY BodiesSeq DEF Bodies
<1>2. s \in Seq(S)
  <2>1. s \in Seq({s[i] : i \in 1..n})
    BY BodiesSeq
  <2> QED BY <2>1, SeqMonotonic
<1>3. \A i \in 1..n + 1 : t[i] \in S
  <2> SUFFICES ASSUME NEW i \in 1..n + 1 PROVE t[i] \in S
    OBVIOUS
  <2>1. i = n + 1 \/ i \in 1..n
    BY <1>1
  <2> QED BY <2>1
<1>4. t \in Seq(S)
  <2>1. t = [i \in 1..n + 1 |-> t[i]]
    BY DEF Bodies
  <2>2. [i \in 1..n + 1 |-> t[i]] \in Seq(S)
    <3> HIDE DEF S
    <3> QED BY <1>1, <1>3
  <2> QED BY <2>1, <2>2
<1>5. e \in S
  OBVIOUS
<1> HIDE DEF S, e
<1>6. /\ Append(s, e) \in Seq(S) /\ Len(Append(s, e)) = n + 1
      /\ \A i \in 1..n : Append(s, e)[i] = s[i]
      /\ Append(s, e)[n + 1] = e
  BY <1>1, <1>2, <1>5, AppendProperties
<1>7. \A i \in 1..n + 1 : t[i] = Append(s, e)[i]
  <2> SUFFICES ASSUME NEW i \in 1..n + 1 PROVE t[i] = Append(s, e)[i]
    OBVIOUS
  <2>1. CASE i = n + 1
    BY <1>6, <2>1 DEF e
  <2>2. CASE i # n + 1
    <3>1. i \in 1..n
      BY <1>1, <2>2
    <3> QED BY <1>6, <3>1
  <2> QED BY <2>1, <2>2
<1>8. t = Append(s, e)
  BY <1>1, <1>4, <1>6, <1>7, SeqEqual
<1> QED BY <1>8 DEF e

LEMMA BodiesFront ==
    ASSUME NEW s, NEW n, Bodies(s, n), n # 0
    PROVE  /\ Front(s) = [i \in 1..n - 1 |-> s[i]] /\ Bodies(Front(s), n - 1)
           /\ Last(s) = s[n] /\ s # <<>>
<1> DEFINE S == {s[i] : i \in 1..n}
           f == [i \in 1..n - 1 |-> s[i]]
<1>1. n \in Nat \ {0} /\ s \in Seq(S) /\ Len(s) = n
  BY BodiesSeq DEF Bodies
<1>2. s # <<>>
  BY <1>1
<1> HIDE DEF S
<1>3. /\ Last(s) = s[n] /\ Front(s) \in Seq(S) /\ Len(Front(s)) = n - 1
      /\ \A i \in 1..n - 1 : Front(s)[i] = s[i]
  BY <1>1, <1>2, Dropped
<1>4. f \in Seq(S) /\ Len(f) = n - 1
  <2>1. \A i \in 1..n - 1 : s[i] \in S
    BY <1>1, ElementOfSeq
  <2> QED BY <1>1, <2>1
<1>5. Front(s) = f
  <2>1. \A i \in 1..n - 1 : Front(s)[i] = f[i]
    BY <1>3
  <2> HIDE DEF f
  <2> QED BY <1>3, <1>4, <2>1, SeqEqual
<1>6. Bodies(f, n - 1)
  BY <1>1 DEF Bodies
<1> QED BY <1>2, <1>3, <1>5, <1>6

LEMMA BodiesShorter ==
    ASSUME NEW s, NEW n, Bodies(s, n), n # 0, NEW t, Bodies(t, n - 1), \A i \in 1..n - 1 : t[i] = s[i]
    PROVE  t = Front(s)
<1>1. Front(s) = [i \in 1..n - 1 |-> s[i]]
  BY BodiesFront
<1>2. t = [i \in 1..n - 1 |-> t[i]]
  BY DEF Bodies
<1> QED BY <1>1, <1>2

LEMMA BodiesChanged ==
    ASSUME NEW s, NEW n, Bodies(s, n), n # 0, NEW t, Bodies(t, n), \A i \in 1..n - 1 : t[i] = s[i]
    PROVE  t = Append(Front(s), t[n])
<1> DEFINE f == Front(s)
           m == n - 1
<1>1. Bodies(f, m)
  BY BodiesFront
<1>2. m + 1 = n
  BY DEF Bodies
<1>3. \A i \in 1..m : t[i] = f[i]
  <2>1. f = [i \in 1..m |-> s[i]]
    BY BodiesFront
  <2> QED BY <2>1
<1> HIDE DEF f, m
<1>4. t = Append(f, t[n])
  BY <1>1, <1>2, <1>3, BodiesAppend
<1> QED BY <1>4 DEF f

\* The steps of ControlStack, between two stacks.
StackStep(s, t) ==
    \/ t = s
    \/ \E unit \in Units : t = Append(s, [unit |-> unit, suspended |-> <<>>])
    \/ \E site \in FrameSites :
          /\ UnitOf[site] = Last(s).unit
          /\ t = Append(Front(s), [Last(s) EXCEPT !.suspended = Append(@, site)])
    \/ Last(s).suspended # <<>> /\ t = Append(Front(s), [Last(s) EXCEPT !.suspended = Front(@)])
    \/ Last(s).suspended = <<>> /\ t = Front(s)

\* The abstract body of an activation.
BodyOf(stack, frames, top, i) == [unit |-> stack[i].unit, suspended |-> CallsOf(stack, frames, top, i)]

LEMMA AbstractBodies ==
    TypeOK => /\ Bodies(Abstract, Len(activations))
              /\ \A i \in 1..Len(activations) : Abstract[i] = BodyOf(activations, memory, Top, i)
<1> SUFFICES ASSUME TypeOK
             PROVE  /\ Bodies(Abstract, Len(activations))
                    /\ \A i \in 1..Len(activations) : Abstract[i] = BodyOf(activations, memory, Top, i)
  OBVIOUS
<1>1. Len(activations) \in Nat /\ DOMAIN activations = 1..Len(activations)
  BY LenProperties DEF TypeOK
<1>2. Abstract = [i \in 1..Len(activations) |-> BodyOf(activations, memory, Top, i)]
  BY <1>1 DEF Abstract, BodyOf
<1>3. \A i \in 1..Len(activations) : Abstract[i] = BodyOf(activations, memory, Top, i)
  BY <1>2
<1>4. Abstract = [i \in 1..Len(activations) |-> Abstract[i]]
  BY <1>2
<1> QED BY <1>1, <1>3, <1>4 DEF Bodies

\* A body of the same frames has the same suspended calls.
LEMMA SameCalls ==
    ASSUME NEW s, NEW frames, NEW top, NEW t, NEW left, NEW bottom, NEW i,
           t[i].unit = s[i].unit,
           KeepsFrames(t[i]) <=> KeepsFrames(s[i]),
           KeepsFrames(s[i]) => OwnFrames(t, left, bottom, i) = OwnFrames(s, frames, top, i)
    PROVE  BodyOf(t, left, bottom, i) = BodyOf(s, frames, top, i)
BY DEF CallsOf, BodyOf

\* A body whose frames end at its base has none.
LEMMA NoCalls ==
    ASSUME NEW s, NEW frames, NEW top, NEW i,
           \A f \in frames : f.at \in Nat /\ End(f) \in Nat /\ f.at < End(f),
           KeepsFrames(s[i]) => Ends(s, top, i) \in Nat /\ s[i].base = Ends(s, top, i)
    PROVE  CallsOf(s, frames, top, i) = <<>>
<1>1. KeepsFrames(s[i]) => OwnFrames(s, frames, top, i) = {}
  BY DEF OwnFrames
<1> QED BY <1>1, InOrderEmpty DEF CallsOf

\* A native call adds a body without suspended calls, and changes none.
LEMMA Calling ==
    ASSUME TypeOK, TypeOK', activations # <<>>, UNCHANGED memory,
           NEW n, n = Len(activations), Len(activations') = n + 1,
           \A i \in 1..n : /\ activations'[i].unit = activations[i].unit
                           /\ activations'[i].version = activations[i].version
                           /\ activations'[i].base = activations[i].base,
           NEW unit \in Units, NEW version, activations'[n + 1] = Entered(unit, version, Top),
           Top' = Top,
           \A t : \A i \in 1..n : EndsAt(activations', Top', i, t) => EndsAt(activations, Top, i, t),
           \A t : EndsAt(activations', Top', n + 1, t) => t = Top
    PROVE  StackStep(Abstract, Abstract')
<1> DEFINE m == n + 1
<1>1. /\ n \in Nat \ {0} /\ DOMAIN activations = 1..n /\ DOMAIN activations' = 1..m
      /\ m \in Nat /\ activations' # <<>> /\ Len(activations') = m
  BY RunningTypes, LenProperties, EmptySeq DEF TypeOK
<1>2. \A i \in 1..m : \E t : EndsAt(activations', Top', i, t)
  <2>1. (TypeOK /\ activations # <<>> =>
           \A i \in DOMAIN activations : \E t \in 0..SizeMax : EndsAt(activations, Top, i, t))'
    BY EndExists, PTL
  <2> QED BY <1>1, <2>1
<1> HIDE DEF m
<1>3. m = n + 1 /\ \A i \in 1..n : i \in 1..m
  BY <1>1 DEF m
<1>4. ASSUME NEW i \in 1..n
      PROVE  BodyOf(activations', memory', Top', i) = BodyOf(activations, memory, Top, i)
  <2>1. DOMAIN activations \subseteq Int /\ DOMAIN activations' \subseteq Int
    BY <1>1
  <2>2. Ends(activations', Top', i) = Ends(activations, Top, i)
    BY <1>2, <1>3, <2>1, EndStays
  <2>3. OwnFrames(activations', memory', Top', i) = OwnFrames(activations, memory, Top, i)
    BY <2>2 DEF OwnFrames
  <2> QED BY <2>3, SameCalls DEF KeepsFrames
<1>5. CallsOf(activations', memory', Top', m) = <<>>
  <2>1. Ends(activations', Top', m) = Top
    <3>1. m \in 1..m
      BY <1>1, <1>3
    <3>2. EndsAt(activations', Top', m, Top)
      BY <1>2, <1>3, <3>1
    <3> QED BY <1>1, <3>2, EndIs
  <2>2. Top \in Nat
    BY RunningTypes
  <2>3. KeepsFrames(activations'[m]) => activations'[m].base = Top
    BY <1>3 DEF Entered, KeepsFrames
  <2> QED BY <2>1, <2>2, <2>3, Places, NoCalls
<1>6. activations'[m].unit = unit
  BY <1>3 DEF Entered
<1>7. /\ Bodies(Abstract, n) /\ Bodies(Abstract', m)
      /\ \A i \in 1..n : Abstract[i] = BodyOf(activations, memory, Top, i)
      /\ \A i \in 1..m : Abstract'[i] = BodyOf(activations', memory', Top', i)
  <2>1. (TypeOK => /\ Bodies(Abstract, Len(activations))
                   /\ \A i \in 1..Len(activations) : Abstract[i] = BodyOf(activations, memory, Top, i))'
    BY AbstractBodies, PTL
  <2> QED BY <1>1, <2>1, AbstractBodies
<1>8. \A i \in 1..n : Abstract'[i] = Abstract[i]
  BY <1>3, <1>4, <1>7
<1>9. Abstract'[m] = [unit |-> unit, suspended |-> <<>>]
  <2>1. m \in 1..m
    BY <1>1, <1>3
  <2> QED BY <1>5, <1>6, <1>7, <2>1 DEF BodyOf
<1>10. Abstract' = Append(Abstract, Abstract'[m])
  BY <1>3, <1>7, <1>8, BodiesAppend
<1> QED BY <1>9, <1>10 DEF StackStep

\* The bodies and the ends of their frames before and after an operation that leaves
\* the same bodies on the stack.
LEMMA StaysInCalls ==
    ASSUME TypeOK, TypeOK', activations # <<>>, StaysIn, UNCHANGED localizing, KeepsFrames(Running),
           BasesOrdered, NEW n, n = Len(activations)
    PROVE  /\ n \in Nat \ {0} /\ Bodies(Abstract, n) /\ Bodies(Abstract', n)
           /\ \A i \in 1..n : /\ Abstract[i] = BodyOf(activations, memory, Top, i)
                             /\ Abstract'[i] = BodyOf(activations', memory', Top', i)
                             /\ SameBody(activations'[i], activations[i])
           /\ Ends(activations, Top, n) = Top /\ Ends(activations', Top', n) = Top'
           /\ \A i \in 1..n - 1 : /\ Ends(activations', Top', i) = Ends(activations, Top, i)
                                 /\ Ends(activations, Top, i) \in Nat
                                 /\ Ends(activations, Top, i) <= activations[n].base
<1>1. /\ n \in Nat \ {0} /\ n = Len(activations')
      /\ DOMAIN activations = 1..n /\ DOMAIN activations' = 1..n
      /\ Running = activations[n] /\ KeepsFrames(activations[n])
      /\ \A i \in 1..n : SameBody(activations'[i], activations[i])
  BY StaysInBodies
<1>2. activations' # <<>>
  BY DEF StaysIn
<1>3. /\ \A t : \A i \in 1..n - 1 : EndsAt(activations', Top', i, t) => EndsAt(activations, Top, i, t)
      /\ \A t : EndsAt(activations', Top', n, t) => t = Top'
  BY StaysInEnds
<1>4. \A i \in 1..n : \E t : EndsAt(activations', Top', i, t)
  <2>1. (TypeOK /\ activations # <<>> =>
           \A i \in DOMAIN activations : \E t \in 0..SizeMax : EndsAt(activations, Top, i, t))'
    BY EndExists, PTL
  <2> QED BY <1>1, <1>2, <2>1
<1>5. DOMAIN activations \subseteq Int /\ DOMAIN activations' \subseteq Int
  BY <1>1
<1>6. n \in 1..n /\ \A i \in 1..n - 1 : i \in 1..n /\ i < n
  BY <1>1
<1>7. Ends(activations', Top', n) = Top'
  BY <1>3, <1>4, <1>5, <1>6, EndIs
<1>8. Ends(activations, Top, n) = Top
  <2>1. Innermost(activations, n)
    BY <1>1 DEF Innermost
  <2> QED BY <1>5, <2>1, EndIs DEF EndsAt
<1>9. ASSUME NEW i \in 1..n - 1
      PROVE  /\ Ends(activations', Top', i) = Ends(activations, Top, i)
             /\ Ends(activations, Top, i) \in Nat
             /\ Ends(activations, Top, i) <= activations[n].base
  <2>1. Ends(activations', Top', i) = Ends(activations, Top, i)
    BY <1>3, <1>4, <1>5, <1>6, EndStays
  <2>2. \E t \in 0..SizeMax : EndsAt(activations, Top, i, t)
    BY <1>1, <1>6, EndExists
  <2>3. PICK t \in 0..SizeMax : EndsAt(activations, Top, i, t)
    BY <2>2
  <2>4. ~Innermost(activations, i)
    BY <1>1, <1>6 DEF Innermost
  <2>5. PICK j \in 1..n : Above(activations, i, j) /\ t = activations[j].base
    BY <1>1, <2>3, <2>4 DEF EndsAt
  <2>6. KeepsFrames(activations[j])
    BY <2>5 DEF Above
  <2>7. j < n => activations[j].base <= activations[n].base
    BY <1>1, <1>6, <2>6 DEF BasesOrdered
  <2>8. t <= activations[n].base
    <3>1. activations[j].base \in Nat
      BY <1>1, Places
    <3>2. j < n \/ j = n
      BY <1>1
    <3> QED BY <2>5, <2>7, <3>1, <3>2
  <2>9. Ends(activations, Top, i) = t
    BY <1>5, <2>3, EndIs
  <2> QED BY <2>1, <2>3, <2>8, <2>9, Sizes
<1>10. /\ Bodies(Abstract, n) /\ Bodies(Abstract', n)
       /\ \A i \in 1..n : /\ Abstract[i] = BodyOf(activations, memory, Top, i)
                         /\ Abstract'[i] = BodyOf(activations', memory', Top', i)
  <2>1. (TypeOK => /\ Bodies(Abstract, Len(activations))
                   /\ \A i \in 1..Len(activations) : Abstract[i] = BodyOf(activations, memory, Top, i))'
    BY AbstractBodies, PTL
  <2> QED BY <1>1, <2>1, AbstractBodies
<1> QED BY <1>1, <1>7, <1>8, <1>9, <1>10

\* A frame written on the top suspends one more call of the running body.
LEMMA Suspending ==
    ASSUME TypeOK, TypeOK', activations # <<>>, StaysIn, UNCHANGED localizing, KeepsFrames(Running),
           BasesOrdered, Tiled, IsFiniteSet(memory),
           NEW site \in FrameSites, UnitOf[site] = Running.unit,
           memory' = memory \cup {[at |-> Top, site |-> site]},
           Top' = Top + FrameSize[site]
    PROVE  StackStep(Abstract, Abstract')
<1> DEFINE n == Len(activations)
           top == Top
           size == FrameSize[site]
           frame == [at |-> top, site |-> site]
           own == OwnFrames(activations, memory, top, n)
<1>1. /\ n \in Nat \ {0} /\ Bodies(Abstract, n) /\ Bodies(Abstract', n)
      /\ \A i \in 1..n : /\ Abstract[i] = BodyOf(activations, memory, top, i)
                        /\ Abstract'[i] = BodyOf(activations', memory', Top', i)
                        /\ SameBody(activations'[i], activations[i])
      /\ Ends(activations, top, n) = top /\ Ends(activations', Top', n) = Top'
      /\ \A i \in 1..n - 1 : /\ Ends(activations', Top', i) = Ends(activations, top, i)
                            /\ Ends(activations, top, i) \in Nat
                            /\ Ends(activations, top, i) <= activations[n].base
  BY StaysInCalls
<1>2. /\ \A f \in memory : f.at \in Nat /\ End(f) \in Nat /\ f.at < End(f)
      /\ \A f \in memory : End(f) <= top
      /\ top \in Nat /\ size \in Nat /\ 1 <= size
  BY Places, RunningTypes, Sizes DEF Tiled
<1>3. /\ Running = activations[n] /\ n \in DOMAIN activations
      /\ activations[n].base \in Nat /\ activations[n].base <= top /\ KeepsFrames(activations[n])
  BY RunningTypes, Places DEF BasesOrdered
<1>4. End(frame) = top + size /\ frame.at = top /\ frame.site = site
  BY DEF End
<1>5. memory' = memory \cup {frame} /\ Top' = top + size
  OBVIOUS
<1> HIDE DEF n, top, size, frame
<1>6. ASSUME NEW i \in 1..n - 1
      PROVE  BodyOf(activations', memory', Top', i) = BodyOf(activations, memory, top, i)
  <2>1. i \in 1..n
    BY <1>1
  <2>2. SameBody(activations'[i], activations[i])
    BY <1>1, <2>1
  <2>3. ~(End(frame) <= Ends(activations, top, i))
    BY <1>1, <1>2, <1>3, <1>4
  <2>4. OwnFrames(activations', memory', Top', i) = OwnFrames(activations, memory, top, i)
    BY <1>1, <1>5, <2>2, <2>3 DEF OwnFrames, SameBody
  <2> QED BY <2>2, <2>4, SameCalls DEF KeepsFrames, SameBody
<1>7. SameBody(activations'[n], activations[n])
  BY <1>1
<1>8. OwnFrames(activations', memory', Top', n) = own \cup {frame}
  <2>1. \A f \in memory : End(f) <= top + size
    BY <1>2
  <2> QED BY <1>1, <1>2, <1>3, <1>4, <1>5, <1>7, <2>1 DEF OwnFrames, SameBody
<1>9. InOrder(own \cup {frame}) = Append(InOrder(own), site)
  <2>1. IsFiniteSet(own)
    BY FS_Subset DEF OwnFrames
  <2>2. \A g \in own : g.at \in Nat /\ g.at < frame.at
    BY <1>2, <1>4 DEF OwnFrames
  <2> HIDE DEF own
  <2> QED BY <1>2, <1>4, <2>1, <2>2, InOrderExtended
<1>10. /\ CallsOf(activations, memory, top, n) = InOrder(own)
       /\ CallsOf(activations', memory', Top', n) = Append(InOrder(own), site)
  BY <1>3, <1>7, <1>8, <1>9 DEF CallsOf, KeepsFrames, SameBody
<1>11. n \in 1..n /\ \A i \in 1..n - 1 : i \in 1..n
  BY <1>1
<1>12. /\ Abstract[n] = [unit |-> activations[n].unit, suspended |-> InOrder(own)]
       /\ Abstract'[n] = [unit |-> activations[n].unit, suspended |-> Append(InOrder(own), site)]
  BY <1>1, <1>7, <1>10, <1>11 DEF BodyOf, SameBody
<1>13. Abstract' = Append(Front(Abstract), Abstract'[n]) /\ Last(Abstract) = Abstract[n]
  <2>1. \A i \in 1..n - 1 : Abstract'[i] = Abstract[i]
    BY <1>1, <1>6, <1>11
  <2> QED BY <1>1, <2>1, BodiesChanged, BodiesFront
<1>14. Abstract'[n] = [Last(Abstract) EXCEPT !.suspended = Append(@, site)]
  <2>1. \A u, x : [[unit |-> u, suspended |-> x] EXCEPT !.suspended = Append(@, site)]
                  = [unit |-> u, suspended |-> Append(x, site)]
    OBVIOUS
  <2>2. Last(Abstract) = [unit |-> activations[n].unit, suspended |-> InOrder(own)]
    BY <1>12, <1>13
  <2> HIDE DEF own
  <2> QED BY <1>12, <2>1, <2>2
<1>15. UnitOf[site] = Last(Abstract).unit
  BY <1>3, <1>12, <1>13
<1> QED BY <1>13, <1>14, <1>15 DEF StackStep

LEMMA FrontAppended ==
    ASSUME NEW S, NEW s \in Seq(S), NEW e \in S
    PROVE  Front(Append(s, e)) = s /\ Append(s, e) # <<>>
<1>1. /\ Append(s, e) \in Seq(S) /\ Len(Append(s, e)) = Len(s) + 1 /\ Append(s, e) # <<>>
      /\ \A i \in 1..Len(s) : Append(s, e)[i] = s[i]
  BY AppendProperties
<1>2. Len(s) \in Nat
  BY LenProperties
<1>3. /\ Front(Append(s, e)) \in Seq(S) /\ Len(Front(Append(s, e))) = Len(Append(s, e)) - 1
      /\ \A i \in 1..Len(Append(s, e)) - 1 : Front(Append(s, e))[i] = Append(s, e)[i]
  BY <1>1, Dropped
<1>4. Len(Front(Append(s, e))) = Len(s) /\ \A i \in 1..Len(s) : Front(Append(s, e))[i] = s[i]
  BY <1>1, <1>2, <1>3
<1>5. Front(Append(s, e)) = s
  BY <1>3, <1>4, SeqEqual
<1> QED BY <1>1, <1>5

LEMMA InOrderBodies ==
    ASSUME NEW frames, Cardinality(frames) \in Nat
    PROVE  Bodies(InOrder(frames), Cardinality(frames))
<1> DEFINE Nth(n) == CHOOSE f \in frames : Cardinality({g \in frames : g.at <= f.at}) = n
<1>1. InOrder(frames) = [n \in 1..Cardinality(frames) |-> Nth(n).site]
  BY DEF InOrder
<1> HIDE DEF Nth
<1>2. InOrder(frames) = [n \in 1..Cardinality(frames) |-> InOrder(frames)[n]]
  BY <1>1
<1> QED BY <1>2 DEF Bodies

\* The frame below the top taken off resumes the last call that the running body suspended.
LEMMA Resuming ==
    ASSUME TypeOK, TypeOK', activations # <<>>, StaysIn, UNCHANGED localizing, KeepsFrames(Running),
           BasesOrdered, Tiled, IsFiniteSet(memory),
           NEW frame \in memory, End(frame) = Top, memory' = memory \ {frame}, Top' = frame.at,
           Running.base <= frame.at, \A f \in memory' : End(f) <= frame.at
    PROVE  StackStep(Abstract, Abstract')
<1> DEFINE n == Len(activations)
           top == Top
           left == OwnFrames(activations', memory', Top', n)
<1>1. /\ n \in Nat \ {0} /\ Bodies(Abstract, n) /\ Bodies(Abstract', n)
      /\ \A i \in 1..n : /\ Abstract[i] = BodyOf(activations, memory, top, i)
                        /\ Abstract'[i] = BodyOf(activations', memory', Top', i)
                        /\ SameBody(activations'[i], activations[i])
      /\ Ends(activations, top, n) = top /\ Ends(activations', Top', n) = Top'
      /\ \A i \in 1..n - 1 : /\ Ends(activations', Top', i) = Ends(activations, top, i)
                            /\ Ends(activations, top, i) \in Nat
                            /\ Ends(activations, top, i) <= activations[n].base
  BY StaysInCalls
<1>2. /\ \A f \in memory : f.at \in Nat /\ End(f) \in Nat /\ f.at < End(f)
      /\ \A f \in memory : End(f) <= top
      /\ top \in Nat
  BY Places, RunningTypes DEF Tiled
<1>3. /\ Running = activations[n] /\ n \in DOMAIN activations
      /\ activations[n].base \in Nat /\ activations[n].base <= frame.at /\ KeepsFrames(activations[n])
  BY RunningTypes, Places
<1>4. End(frame) = top /\ Top' = frame.at
  OBVIOUS
<1> HIDE DEF n, top
<1>5. ASSUME NEW i \in 1..n - 1
      PROVE  BodyOf(activations', memory', Top', i) = BodyOf(activations, memory, top, i)
  <2>1. i \in 1..n
    BY <1>1
  <2>2. SameBody(activations'[i], activations[i])
    BY <1>1, <2>1
  <2>3. ~(End(frame) <= Ends(activations, top, i))
    BY <1>1, <1>2, <1>3, <1>4
  <2>4. OwnFrames(activations', memory', Top', i) = OwnFrames(activations, memory, top, i)
    BY <1>1, <2>2, <2>3 DEF OwnFrames, SameBody
  <2> QED BY <2>2, <2>4, SameCalls DEF KeepsFrames, SameBody
<1>6. SameBody(activations'[n], activations[n])
  BY <1>1
<1>7. OwnFrames(activations, memory, top, n) = left \cup {frame}
  BY <1>1, <1>2, <1>3, <1>4, <1>6 DEF OwnFrames, SameBody
<1>8. left \subseteq memory /\ \A g \in left : g.at \in Nat /\ g.at < frame.at
  <2>1. left \subseteq memory'
    BY DEF OwnFrames
  <2>2. ASSUME NEW g \in left PROVE g.at \in Nat /\ g.at < frame.at
    <3>1. g \in memory /\ End(g) <= frame.at
      BY <2>1
    <3> QED BY <1>2, <3>1
  <2> QED BY <2>1, <2>2
<1>9. IsFiniteSet(left)
  BY <1>8, FS_Subset
<1> HIDE DEF left
<1>10. InOrder(left \cup {frame}) = Append(InOrder(left), frame.site)
  BY <1>2, <1>8, <1>9, InOrderExtended
<1>11. /\ InOrder(left) = Front(Append(InOrder(left), frame.site))
       /\ Append(InOrder(left), frame.site) # <<>>
  <2> DEFINE S == {InOrder(left)[m] : m \in 1..Cardinality(left)} \cup {frame.site}
  <2>1. InOrder(left) \in Seq(S)
    <3>1. Bodies(InOrder(left), Cardinality(left))
      BY <1>9, FS_CardinalityType, InOrderBodies
    <3>2. InOrder(left) \in Seq({InOrder(left)[m] : m \in 1..Cardinality(left)})
      BY <3>1, BodiesSeq
    <3> QED BY <3>2, SeqMonotonic
  <2>2. frame.site \in S
    OBVIOUS
  <2> HIDE DEF S
  <2> QED BY <2>1, <2>2, FrontAppended
<1>12. /\ CallsOf(activations, memory, top, n) = Append(InOrder(left), frame.site)
       /\ CallsOf(activations', memory', Top', n) = InOrder(left)
  BY <1>3, <1>6, <1>7, <1>10 DEF CallsOf, KeepsFrames, SameBody, left
<1>13. n \in 1..n /\ \A i \in 1..n - 1 : i \in 1..n
  BY <1>1
<1>14. /\ Abstract[n] = [unit |-> activations[n].unit, suspended |-> Append(InOrder(left), frame.site)]
       /\ Abstract'[n] = [unit |-> activations[n].unit, suspended |-> InOrder(left)]
  BY <1>1, <1>6, <1>12, <1>13 DEF BodyOf, SameBody
<1>15. Abstract' = Append(Front(Abstract), Abstract'[n]) /\ Last(Abstract) = Abstract[n]
  <2>1. \A i \in 1..n - 1 : Abstract'[i] = Abstract[i]
    BY <1>1, <1>5, <1>13
  <2> QED BY <1>1, <2>1, BodiesChanged, BodiesFront
<1>16. Abstract'[n] = [Last(Abstract) EXCEPT !.suspended = Front(@)]
  <2>1. \A u, x : [[unit |-> u, suspended |-> x] EXCEPT !.suspended = Front(@)]
                  = [unit |-> u, suspended |-> Front(x)]
    OBVIOUS
  <2>2. Last(Abstract) = [unit |-> activations[n].unit, suspended |-> Append(InOrder(left), frame.site)]
    BY <1>14, <1>15
  <2> QED BY <1>11, <1>14, <2>1, <2>2
<1>17. Last(Abstract).suspended # <<>>
  BY <1>11, <1>14, <1>15
<1> QED BY <1>15, <1>16, <1>17 DEF StackStep

\* A native return takes a body without suspended calls off, and changes no other.
LEMMA Leaving ==
    ASSUME TypeOK, TypeOK', activations # <<>>, UNCHANGED memory,
           NEW n, n = Len(activations), NEW m, m \in Nat \ {0}, n = m + 1, Len(activations') = m,
           \A i \in 1..m : /\ activations'[i].unit = activations[i].unit
                           /\ activations'[i].version = activations[i].version
                           /\ activations'[i].base = activations[i].base,
           KeepsFrames(Running) => Top = Running.base,
           \A t : \A i \in 1..m : EndsAt(activations', Top', i, t) => EndsAt(activations, Top, i, t)
    PROVE  StackStep(Abstract, Abstract')
<1>1. /\ n \in Nat \ {0} /\ DOMAIN activations = 1..n /\ DOMAIN activations' = 1..m
      /\ activations' # <<>> /\ Running = activations[n]
  BY RunningTypes, LenProperties, EmptySeq DEF TypeOK
<1>2. m = n - 1 /\ n \in 1..n /\ \A i \in 1..m : i \in 1..n
  BY <1>1
<1>3. \A i \in 1..m : \E t : EndsAt(activations', Top', i, t)
  <2>1. (TypeOK /\ activations # <<>> =>
           \A i \in DOMAIN activations : \E t \in 0..SizeMax : EndsAt(activations, Top, i, t))'
    BY EndExists, PTL
  <2> QED BY <1>1, <2>1
<1>4. ASSUME NEW i \in 1..m
      PROVE  BodyOf(activations', memory', Top', i) = BodyOf(activations, memory, Top, i)
  <2>1. DOMAIN activations \subseteq Int /\ DOMAIN activations' \subseteq Int
    BY <1>1
  <2>2. Ends(activations', Top', i) = Ends(activations, Top, i)
    BY <1>3, <2>1, EndStays
  <2>3. OwnFrames(activations', memory', Top', i) = OwnFrames(activations, memory, Top, i)
    BY <2>2 DEF OwnFrames
  <2> QED BY <2>3, SameCalls DEF KeepsFrames
<1>5. CallsOf(activations, memory, Top, n) = <<>>
  <2>1. Ends(activations, Top, n) = Top
    <3>1. Innermost(activations, n)
      BY <1>1 DEF Innermost
    <3>2. EndsAt(activations, Top, n, Top)
      BY <3>1 DEF EndsAt
    <3>3. DOMAIN activations \subseteq Int
      BY <1>1
    <3> QED BY <3>2, <3>3, EndIs
  <2>2. Top \in Nat
    BY RunningTypes
  <2> QED BY <1>1, <2>1, <2>2, Places, NoCalls
<1>6. /\ Bodies(Abstract, n) /\ Bodies(Abstract', m)
      /\ \A i \in 1..n : Abstract[i] = BodyOf(activations, memory, Top, i)
      /\ \A i \in 1..m : Abstract'[i] = BodyOf(activations', memory', Top', i)
  <2>1. (TypeOK => /\ Bodies(Abstract, Len(activations))
                   /\ \A i \in 1..Len(activations) : Abstract[i] = BodyOf(activations, memory, Top, i))'
    BY AbstractBodies, PTL
  <2> QED BY <2>1, AbstractBodies
<1>7. \A i \in 1..m : Abstract'[i] = Abstract[i]
  BY <1>2, <1>4, <1>6
<1>8. Abstract' = Front(Abstract)
  BY <1>1, <1>2, <1>6, <1>7, BodiesShorter
<1>9. Last(Abstract).suspended = <<>>
  <2>1. Last(Abstract) = Abstract[n]
    BY <1>1, <1>6, BodiesFront
  <2>2. Abstract[n] = BodyOf(activations, memory, Top, n)
    BY <1>2, <1>6
  <2> QED BY <1>5, <2>1, <2>2 DEF BodyOf
<1> QED BY <1>8, <1>9 DEF StackStep

\* main leaves no body.
LEMMA Finishing ==
    ASSUME TypeOK, activations # <<>>, Len(activations) = 1, activations[1].unit = Root,
           activations' = <<>>
    PROVE  StackStep(Abstract, Abstract')
<1>1. Bodies(Abstract, 1) /\ Abstract[1] = BodyOf(activations, memory, Top, 1)
  BY AbstractBodies
<1>2. ~KeepsFrames(activations[1])
  BY ControlAssumption DEF KeepsFrames, Framed
<1>3. Last(Abstract) = Abstract[1] /\ Front(Abstract) = [i \in 1..0 |-> Abstract[i]]
  <2>1. 1 - 1 = 0
    OBVIOUS
  <2> QED BY <1>1, <2>1, BodiesFront
<1>4. Last(Abstract).suspended = <<>>
  BY <1>1, <1>2, <1>3 DEF BodyOf, CallsOf
<1>5. Abstract' = <<>>
  <2>1. DOMAIN activations' = {}
    OBVIOUS
  <2> QED BY <2>1 DEF Abstract
<1>6. Front(Abstract) = <<>>
  <2>1. 1..0 = {}
    OBVIOUS
  <2> QED BY <1>3, <2>1
<1> QED BY <1>4, <1>5, <1>6 DEF StackStep

\* Nothing else of the state is in the stack of suspended calls.
LEMMA Unchanging ==
    ASSUME TypeOK, TypeOK', activations # <<>>, StaysIn, UNCHANGED <<localizing, memory>>,
           KeepsFrames(Running), BasesOrdered, Top' = Top
    PROVE  StackStep(Abstract, Abstract')
<1> DEFINE n == Len(activations)
<1>1. /\ n \in Nat \ {0} /\ Bodies(Abstract, n) /\ Bodies(Abstract', n)
      /\ \A i \in 1..n : /\ Abstract[i] = BodyOf(activations, memory, Top, i)
                        /\ Abstract'[i] = BodyOf(activations', memory', Top', i)
                        /\ SameBody(activations'[i], activations[i])
      /\ Ends(activations, Top, n) = Top /\ Ends(activations', Top', n) = Top'
      /\ \A i \in 1..n - 1 : Ends(activations', Top', i) = Ends(activations, Top, i)
  BY StaysInCalls
<1> HIDE DEF n
<1>2. ASSUME NEW i \in 1..n PROVE Abstract'[i] = Abstract[i]
  <2>1. Ends(activations', Top', i) = Ends(activations, Top, i)
    <3>1. i = n \/ i \in 1..n - 1
      BY <1>1
    <3> QED BY <1>1, <3>1
  <2>2. OwnFrames(activations', memory', Top', i) = OwnFrames(activations, memory, Top, i)
    BY <1>1, <2>1 DEF OwnFrames, SameBody
  <2>3. SameBody(activations'[i], activations[i])
    BY <1>1
  <2>4. BodyOf(activations', memory', Top', i) = BodyOf(activations, memory, Top, i)
    BY <2>2, <2>3, SameCalls DEF KeepsFrames, SameBody
  <2> QED BY <1>1, <2>4
<1>3. Abstract' = Abstract
  <2>1. Abstract = [i \in 1..n |-> Abstract[i]] /\ Abstract' = [i \in 1..n |-> Abstract'[i]]
    BY <1>1 DEF Bodies
  <2> QED BY <1>2, <2>1
<1> QED BY <1>3 DEF StackStep

-----------------------------------------------------------------------------
(* The frames after each operation.                                         *)

\* A frame written on the top.
LEMMA Pushed ==
    ASSUME TypeOK, TypeOK', activations # <<>>, StaysIn, UNCHANGED localizing, KeepsFrames(Running),
           BasesOrdered, EndsKept, Tiled, FramesWithinStorage,
           NEW site \in FrameSites,
           memory' = memory \cup {[at |-> Top, site |-> site]},
           Top' = Top + FrameSize[site],
           Top' <= arena'.capacity, arena.capacity <= arena'.capacity,
           Running'.retired = 0, KeepsLocals(Running) => Running'.top = Top'
    PROVE  BasesOrdered' /\ EndsKept' /\ Tiled' /\ FramesWithinStorage'
<1> DEFINE n == Len(activations)
           frame == [at |-> Top, site |-> site]
           top == Top
           size == FrameSize[site]
<1>1. /\ n \in Nat \ {0} /\ DOMAIN activations = 1..n /\ DOMAIN activations' = 1..n
      /\ Running = activations[n] /\ Running' = activations'[n]
      /\ \A i \in 1..n - 1 : activations'[i] = activations[i]
      /\ \A i \in 1..n : activations'[i].base = activations[i].base
      /\ \A i \in 1..n : KeepsFrames(activations'[i]) <=> KeepsFrames(activations[i])
      /\ \A i \in 1..n : (KeepsLocals(activations[i]))' <=> KeepsLocals(activations[i])
  BY StaysInBodies DEF SameBody
<1>2. /\ \A t : \A i \in 1..n - 1 : EndsAt(activations', Top', i, t) => EndsAt(activations, Top, i, t)
      /\ \A t : EndsAt(activations', Top', n, t) => t = Top'
  BY StaysInEnds
<1>3. top \in Nat /\ size \in Nat /\ 1 <= size /\ Top' = top + size
  BY RunningTypes, Sizes
<1>4. frame.at = top /\ End(frame) = Top'
  BY <1>3 DEF End
<1>5. /\ \A i \in 1..n : activations[i].base \in Nat /\ activations[i].retired \in Nat
      /\ \A f \in memory : f.at \in Nat /\ End(f) \in Nat
      /\ arena.capacity \in Nat /\ arena'.capacity \in Nat
  <2>1. arena'.capacity \in Nat
    BY DEF TypeOK, Views
  <2> QED BY <1>1, <2>1, Places
<1> HIDE DEF n, frame, top, size
<1>6. BasesOrdered'
  <2>1. ASSUME NEW i \in 1..n, KeepsFrames(activations[i]) PROVE activations[i].base <= Top'
    <3>1. activations[i].base <= top
      BY <1>1, <2>1 DEF BasesOrdered, top
    <3>2. activations[i].base \in Nat
      BY <1>5
    <3> QED BY <1>3, <3>1, <3>2
  <2>2. \A i, j \in 1..n : KeepsFrames(activations[i]) /\ i < j /\ KeepsFrames(activations[j]) =>
                              activations[i].base <= activations[j].base
    BY <1>1 DEF BasesOrdered
  <2> QED BY <1>1, <2>1, <2>2 DEF BasesOrdered
<1>7. EndsKept'
  <2> SUFFICES \A i \in 1..n : KeepsFrames(activations'[i]) =>
                 \A t \in 0..SizeMax : EndsAt(activations', Top', i, t) =>
                    /\ t + activations'[i].retired <= arena'.capacity
                    /\ (KeepsLocals(activations[i]))' => activations'[i].top = t
    BY <1>1 DEF EndsKept
  <2> SUFFICES ASSUME NEW i \in 1..n, KeepsFrames(activations'[i]), NEW t \in 0..SizeMax, EndsAt(activations', Top', i, t)
               PROVE  /\ t + activations'[i].retired <= arena'.capacity
                      /\ (KeepsLocals(activations[i]))' => activations'[i].top = t
    OBVIOUS
  <2>1. CASE i = n
    <3>1. t = Top' /\ activations'[i].retired = 0
      BY <1>1, <1>2, <2>1
    <3> QED BY <1>1, <1>3, <2>1, <3>1
  <2>2. CASE i # n
    <3>1. i \in 1..n - 1
      BY <1>1, <2>2
    <3>2. EndsAt(activations, Top, i, t) /\ KeepsFrames(activations[i])
      BY <1>1, <1>2, <3>1
    <3>3. /\ t + activations[i].retired <= arena.capacity
          /\ KeepsLocals(activations[i]) => activations[i].top = t
      BY <1>1, <3>2 DEF EndsKept
    <3> QED BY <1>1, <1>5, <3>1, <3>3
  <2> QED BY <2>1, <2>2
<1>8. \A f \in memory : End(f) <= top
  BY DEF Tiled, top
<1>9. memory' = memory \cup {frame}
  BY DEF frame
<1>10. Tiled'
  <2>1. ASSUME NEW f \in memory', NEW g \in memory' PROVE f = g \/ End(f) <= g.at \/ End(g) <= f.at
    BY <1>4, <1>8, <1>9 DEF Tiled
  <2>2. ASSUME NEW f \in memory' PROVE End(f) <= Top'
    BY <1>3, <1>4, <1>5, <1>8, <1>9
  <2>3. \E f \in memory' : End(f) = Top'
    BY <1>4, <1>9
  <2>4. ASSUME NEW f \in memory' PROVE f.at = 0 \/ \E g \in memory' : End(g) = f.at
    BY <1>4, <1>9 DEF Tiled, top
  <2>5. ASSUME NEW i \in 1..n, KeepsFrames(activations[i]), NEW f \in memory'
        PROVE  End(f) <= activations'[i].base \/ activations'[i].base <= f.at
    BY <1>1, <1>4, <1>9, <2>5 DEF Tiled, BasesOrdered, top
  <2>6. \A f : End(f)' = End(f)
    BY DEF End
  <2> QED BY <1>1, <2>1, <2>2, <2>3, <2>4, <2>5, <2>6 DEF Tiled
<1>11. FramesWithinStorage'
  <2>1. ASSUME NEW f \in memory' PROVE End(f) <= arena'.capacity
    BY <1>4, <1>5, <1>9 DEF FramesWithinStorage
  <2> QED BY <2>1 DEF FramesWithinStorage, End
<1> QED BY <1>6, <1>7, <1>10, <1>11

\* The frame below the top taken off.
LEMMA Resumed ==
    ASSUME TypeOK, TypeOK', activations # <<>>, StaysIn, UNCHANGED <<localizing, arena>>,
           KeepsFrames(Running), Top # Running.base,
           BasesOrdered, EndsKept, Tiled, FramesWithinStorage,
           NEW frame \in memory, End(frame) = Top, memory' = memory \ {frame},
           Top' = frame.at, Running'.retired = FrameSize[frame.site],
           KeepsLocals(Running) => Running'.top = Top', IsFiniteSet(memory)
    PROVE  /\ BasesOrdered' /\ EndsKept' /\ Tiled' /\ FramesWithinStorage'
           /\ StackStep(Abstract, Abstract')
<1> DEFINE n == Len(activations)
           top == Top
           size == FrameSize[frame.site]
<1>1. /\ n \in Nat \ {0} /\ DOMAIN activations = 1..n /\ DOMAIN activations' = 1..n
      /\ Running = activations[n] /\ Running' = activations'[n]
      /\ \A i \in 1..n - 1 : activations'[i] = activations[i]
      /\ \A i \in 1..n : activations'[i].base = activations[i].base
      /\ \A i \in 1..n : KeepsFrames(activations'[i]) <=> KeepsFrames(activations[i])
      /\ \A i \in 1..n : (KeepsLocals(activations[i]))' <=> KeepsLocals(activations[i])
      /\ KeepsFrames(activations[n])
  BY StaysInBodies DEF SameBody
<1>2. /\ \A t : \A i \in 1..n - 1 : EndsAt(activations', Top', i, t) => EndsAt(activations, Top, i, t)
      /\ \A t : EndsAt(activations', Top', n, t) => t = Top'
  BY StaysInEnds
<1>3. /\ \A i \in 1..n : activations[i].base \in Nat
      /\ \A f \in memory : f.at \in Nat /\ End(f) \in Nat /\ f.at < End(f)
      /\ arena.capacity \in Nat
      /\ frame.at \in Nat /\ size \in Nat /\ 1 <= size /\ frame.at + size = top
  <2>1. frame.at \in Nat /\ size \in Nat /\ 1 <= size
    BY Sizes DEF TypeOK, FrameSet
  <2>2. frame.at + size = top
    BY DEF End
  <2> QED BY <1>1, <2>1, <2>2, Places
<1> HIDE DEF n, top, size
<1>4. End(frame) = top /\ Top' = frame.at /\ Running'.retired = size
  BY DEF top, size
<1>5. activations[n].base <= frame.at
  <2>1. activations[n].base <= top /\ top # activations[n].base
    BY <1>1 DEF BasesOrdered, top
  <2>2. End(frame) <= activations[n].base \/ activations[n].base <= frame.at
    BY <1>1 DEF Tiled
  <2> QED BY <1>1, <1>3, <1>4, <2>1, <2>2
<1>6. \A i \in 1..n : KeepsFrames(activations[i]) => activations[i].base <= frame.at
  <2> SUFFICES ASSUME NEW i \in 1..n, KeepsFrames(activations[i]) PROVE activations[i].base <= frame.at
    OBVIOUS
  <2>1. CASE i = n
    BY <1>5, <2>1
  <2>2. CASE i # n
    <3>1. i < n /\ n \in 1..n
      BY <1>1, <2>2
    <3>2. activations[i].base <= activations[n].base
      BY <1>1, <3>1 DEF BasesOrdered
    <3> QED BY <1>1, <1>3, <1>5, <3>1, <3>2
  <2> QED BY <2>1, <2>2
<1>7. BasesOrdered'
  BY <1>1, <1>4, <1>6 DEF BasesOrdered
<1>8. EndsKept'
  <2> SUFFICES \A i \in 1..n : KeepsFrames(activations'[i]) =>
                 \A t \in 0..SizeMax : EndsAt(activations', Top', i, t) =>
                    /\ t + activations'[i].retired <= arena.capacity
                    /\ (KeepsLocals(activations[i]))' => activations'[i].top = t
    BY <1>1 DEF EndsKept
  <2> SUFFICES ASSUME NEW i \in 1..n, KeepsFrames(activations'[i]), NEW t \in 0..SizeMax, EndsAt(activations', Top', i, t)
               PROVE  /\ t + activations'[i].retired <= arena.capacity
                      /\ (KeepsLocals(activations[i]))' => activations'[i].top = t
    OBVIOUS
  <2>1. CASE i = n
    <3>1. t = frame.at /\ activations'[i].retired = size
      BY <1>1, <1>2, <1>4, <2>1
    <3>2. End(frame) <= arena.capacity
      BY DEF FramesWithinStorage
    <3> QED BY <1>1, <1>3, <1>4, <2>1, <3>1, <3>2
  <2>2. CASE i # n
    <3>1. i \in 1..n - 1
      BY <1>1, <2>2
    <3>2. EndsAt(activations, Top, i, t) /\ KeepsFrames(activations[i])
      BY <1>1, <1>2, <3>1
    <3> QED BY <1>1, <3>1, <3>2 DEF EndsKept
  <2> QED BY <2>1, <2>2
<1>9. \A f \in memory' : f \in memory /\ f # frame
  OBVIOUS
<1>10. ASSUME NEW f \in memory' PROVE End(f) <= frame.at
  <2>1. End(f) <= frame.at \/ End(frame) <= f.at
    BY <1>9 DEF Tiled
  <2>2. End(f) <= top
    BY <1>9 DEF Tiled, top
  <2> QED BY <1>3, <1>4, <1>9, <2>1, <2>2
<1>11. Tiled'
  <2>1. ASSUME NEW f \in memory', NEW g \in memory' PROVE f = g \/ End(f) <= g.at \/ End(g) <= f.at
    BY <1>9 DEF Tiled
  <2>2. frame.at = 0 \/ \E f \in memory' : End(f) = frame.at
    <3>1. frame.at = 0 \/ \E f \in memory : End(f) = frame.at
      BY DEF Tiled
    <3>2. End(frame) # frame.at
      BY <1>3, <1>4
    <3> QED BY <3>1, <3>2
  <2>3. ASSUME NEW f \in memory' PROVE f.at = 0 \/ \E g \in memory' : End(g) = f.at
    <3>1. f.at = 0 \/ \E g \in memory : End(g) = f.at
      BY <1>9 DEF Tiled
    <3>2. End(frame) # f.at
      BY <1>3, <1>4, <1>9, <1>10
    <3> QED BY <3>1, <3>2
  <2>4. ASSUME NEW i \in 1..n, KeepsFrames(activations[i]), NEW f \in memory'
        PROVE  End(f) <= activations'[i].base \/ activations'[i].base <= f.at
    BY <1>1, <1>9, <2>4 DEF Tiled
  <2>5. \A f : End(f)' = End(f)
    BY DEF End
  <2> QED BY <1>1, <1>4, <1>10, <2>1, <2>2, <2>3, <2>4, <2>5 DEF Tiled
<1>12. FramesWithinStorage'
  BY <1>9 DEF FramesWithinStorage, End
<1>13. StackStep(Abstract, Abstract')
  <2>1. Running.base <= frame.at
    BY <1>1, <1>5
  <2> QED BY <1>10, <2>1, Resuming
<1> QED BY <1>7, <1>8, <1>11, <1>12, <1>13

\* A body entered above, with the top where it is.
LEMMA Entering ==
    ASSUME TypeOK, TypeOK', activations # <<>>, UNCHANGED <<localizing, arena, memory>>,
           BasesOrdered, EndsKept, Tiled, FramesWithinStorage,
           NEW n, n = Len(activations), Len(activations') = n + 1,
           \A i \in 1..n : /\ SameBody(activations'[i], activations[i]) \/ i = n
                           /\ activations'[i].unit = activations[i].unit
                           /\ activations'[i].version = activations[i].version
                           /\ activations'[i].base = activations[i].base
                           /\ activations'[i].top = activations[i].top
                           /\ activations'[i].retired = activations[i].retired,
           NEW unit \in Units, NEW version, activations'[n + 1] = Entered(unit, version, Top), sharedTop' = Top
    PROVE  /\ BasesOrdered' /\ EndsKept' /\ Tiled'
           /\ StackStep(Abstract, Abstract')
<1> DEFINE top == Top
           new == activations'[n + 1]
<1>1. /\ n \in Nat \ {0} /\ DOMAIN activations = 1..n /\ DOMAIN activations' = 1..n + 1
      /\ Running' = new
  BY RunningTypes, LenProperties DEF TypeOK, Running, Last
<1>2. /\ \A i \in 1..n : activations'[i].base = activations[i].base
      /\ \A i \in 1..n : activations'[i].retired = activations[i].retired
      /\ \A i \in 1..n : activations'[i].top = activations[i].top
      /\ \A i \in 1..n : KeepsFrames(activations'[i]) <=> KeepsFrames(activations[i])
      /\ \A i \in 1..n : (KeepsLocals(activations[i]))' <=> KeepsLocals(activations[i])
  BY DEF KeepsFrames, KeepsLocals, Localizes
<1>3. /\ KeepsFrames(new) => new.base = top
      /\ (KeepsLocals(activations[n + 1]))' => new.top = top
      /\ new.retired = 0
  BY DEF Entered, KeepsFrames, KeepsLocals, Localizes
<1>4. Top' = top
  BY <1>1, <1>3 DEF Top
<1>5. top \in Nat /\ arena.capacity \in Nat /\ \A i \in 1..n : activations[i].base \in Nat
  BY <1>1, RunningTypes, Places
<1>6. top <= arena.capacity
  BY <1>5 DEF Tiled, FramesWithinStorage, top
<1>7. \A i \in 1..n : KeepsFrames(activations[i]) => activations[i].base <= top
  BY <1>1 DEF BasesOrdered, top
<1>8. ASSUME NEW t, NEW i \in 1..n, EndsAt(activations', top, i, t) PROVE EndsAt(activations, top, i, t)
  <2>1. CASE \E j \in 1..n + 1 : Above(activations', i, j) /\ t = activations'[j].base
    <3>1. PICK j \in 1..n + 1 : Above(activations', i, j) /\ t = activations'[j].base
      BY <2>1
    <3>2. /\ i < j /\ KeepsFrames(activations'[j])
          /\ \A k \in 1..n : i < k /\ k < j => ~KeepsFrames(activations[k])
      BY <1>1, <1>2, <3>1 DEF Above
    <3>3. CASE j \in 1..n
      <4>1. Above(activations, i, j) /\ t = activations[j].base
        BY <1>1, <1>2, <3>1, <3>2, <3>3 DEF Above
      <4> QED BY <1>1, <3>3, <4>1 DEF EndsAt
    <3>4. CASE j = n + 1
      <4>1. \A k \in 1..n : i < k => ~KeepsFrames(activations[k])
        BY <1>1, <3>2, <3>4
      <4>2. t = top
        BY <1>3, <3>1, <3>2, <3>4
      <4>3. Innermost(activations, i)
        BY <1>1, <4>1 DEF Innermost
      <4> QED BY <4>2, <4>3 DEF EndsAt
    <3> QED BY <1>1, <3>3, <3>4, OneMore
  <2>2. CASE Innermost(activations', i) /\ t = top
    <3>1. \A k \in 1..n : i < k => ~KeepsFrames(activations[k])
      BY <1>1, <1>2, <2>2 DEF Innermost
    <3>2. Innermost(activations, i)
      BY <1>1, <3>1 DEF Innermost
    <3> QED BY <2>2, <3>2 DEF EndsAt
  <2> QED BY <1>1, <1>8, <2>1, <2>2 DEF EndsAt
<1>9. ASSUME NEW t, EndsAt(activations', top, n + 1, t) PROVE t = top
  <2>1. \A j \in 1..n + 1 : ~(n + 1 < j)
    BY <1>1
  <2> QED BY <1>1, <1>9, <2>1 DEF EndsAt, Above
<1> HIDE DEF top
<1>10. BasesOrdered'
  <2>1. \A i \in 1..n + 1 : KeepsFrames(activations'[i]) => activations'[i].base <= top
    BY <1>1, <1>2, <1>3, <1>5, <1>7
  <2>2. ASSUME NEW i \in 1..n + 1, NEW j \in 1..n + 1,
               KeepsFrames(activations'[i]), i < j, KeepsFrames(activations'[j])
        PROVE  activations'[i].base <= activations'[j].base
    <3>1. CASE j = n + 1
      <4>1. activations'[j].base = top
        BY <1>3, <2>2, <3>1
      <4>2. activations'[i].base <= top
        BY <2>1, <2>2
      <4> QED BY <4>1, <4>2
    <3>2. CASE j # n + 1
      <4>1. i \in 1..n /\ j \in 1..n
        <5>1. j \in 1..n
          BY <1>1, <3>2, OneMore
        <5>2. i # n + 1
          BY <1>1, <2>2, <5>1
        <5> QED BY <1>1, <5>1, <5>2, OneMore
      <4>2. KeepsFrames(activations[i]) /\ KeepsFrames(activations[j])
        BY <1>2, <2>2, <4>1
      <4>3. activations[i].base <= activations[j].base
        BY <1>1, <2>2, <4>1, <4>2 DEF BasesOrdered
      <4>4. activations'[i].base = activations[i].base /\ activations'[j].base = activations[j].base
        BY <1>2, <4>1
      <4> QED BY <4>3, <4>4
    <3> QED BY <3>1, <3>2
  <2> QED BY <1>1, <1>4, <2>1, <2>2 DEF BasesOrdered
<1>11. EndsKept'
  <2> SUFFICES \A i \in 1..n + 1 : KeepsFrames(activations'[i]) =>
                 \A t \in 0..SizeMax : EndsAt(activations', Top', i, t) =>
                    /\ t + activations'[i].retired <= arena.capacity
                    /\ (KeepsLocals(activations[i]))' => activations'[i].top = t
    BY <1>1 DEF EndsKept
  <2> SUFFICES ASSUME NEW i \in 1..n + 1, KeepsFrames(activations'[i]),
                      NEW t \in 0..SizeMax, EndsAt(activations', top, i, t)
               PROVE  /\ t + activations'[i].retired <= arena.capacity
                      /\ (KeepsLocals(activations[i]))' => activations'[i].top = t
    BY <1>4
  <2>1. CASE i = n + 1
    <3>1. t = top
      BY <1>9, <2>1
    <3> QED BY <1>3, <1>5, <1>6, <2>1, <3>1
  <2>2. CASE i # n + 1
    <3>1. i \in 1..n
      BY <1>1, <2>2
    <3>2. EndsAt(activations, Top, i, t)
      BY <1>8, <3>1 DEF top
    <3> QED BY <1>1, <1>2, <3>1, <3>2 DEF EndsKept
  <2> QED BY <2>1, <2>2
<1>12. Tiled'
  <2>1. ASSUME NEW i \in 1..n + 1, KeepsFrames(activations'[i]), NEW f \in memory
        PROVE  End(f) <= activations'[i].base \/ activations'[i].base <= f.at
    <3>1. CASE i = n + 1
      BY <1>3, <2>1, <3>1 DEF Tiled, top
    <3>2. CASE i # n + 1
      <4>1. i \in 1..n
        BY <1>1, <3>2
      <4> QED BY <1>1, <1>2, <2>1, <4>1 DEF Tiled
    <3> QED BY <3>1, <3>2
  <2>2. /\ \A f, g \in memory : f = g \/ End(f) <= g.at \/ End(g) <= f.at
        /\ \A f \in memory : End(f) <= top
        /\ top = 0 \/ \E f \in memory : End(f) = top
        /\ \A f \in memory : f.at = 0 \/ \E g \in memory : End(g) = f.at
    BY DEF Tiled, top
  <2>3. \A f : End(f)' = End(f)
    BY DEF End
  <2> QED BY <1>1, <1>4, <2>1, <2>2, <2>3 DEF Tiled
<1>13. StackStep(Abstract, Abstract')
  <2>1. Top' = Top
    BY <1>4 DEF top
  <2>2. \A t : \A i \in 1..n : EndsAt(activations', Top', i, t) => EndsAt(activations, Top, i, t)
    BY <1>4, <1>8 DEF top
  <2>3. \A t : EndsAt(activations', Top', n + 1, t) => t = Top
    BY <1>4, <1>9 DEF top
  <2> QED BY <2>1, <2>2, <2>3, Calling
<1> QED BY <1>10, <1>11, <1>12, <1>13

\* A body that returns leaves the top where it entered.
LEMMA Returning ==
    ASSUME TypeOK, TypeOK', activations # <<>>, UNCHANGED localizing, NativeReturn,
           NEW n, n = Len(activations),
           BasesOrdered, EndsKept, Tiled, FramesWithinStorage
    PROVE  /\ BasesOrdered' /\ EndsKept' /\ Tiled' /\ FramesWithinStorage'
           /\ StackStep(Abstract, Abstract')
<1> DEFINE top == Top
<1>1. /\ n \in Nat \ {0} /\ DOMAIN activations = 1..n /\ n - 1 \in Nat \ {0}
      /\ Len(activations') = n - 1 /\ DOMAIN activations' = 1..n - 1
      /\ \A i \in 1..n - 2 : activations'[i] = activations[i]
      /\ Caller = activations[n - 1] /\ activations'[n - 1] = Returned(Caller)
      /\ Running = activations[n] /\ Running' = activations'[n - 1]
  BY RunningTypes, ReturnShape, LenProperties DEF TypeOK, Running, Last
<1>2. /\ UNCHANGED <<arena, memory>> /\ sharedTop' = top
      /\ KeepsFrames(activations[n]) => top = activations[n].base
  BY <1>1 DEF NativeReturn
<1>3. Caller \in Activations
  BY <1>1, ElementOfSeq DEF TypeOK
<1>4. /\ Returned(Caller).unit = Caller.unit /\ Returned(Caller).version = Caller.version
      /\ Returned(Caller).base = Caller.base /\ Returned(Caller).top = Caller.top
      /\ Returned(Caller).retired = Caller.retired
  BY <1>3 DEF Returned, Activations
<1>5. ASSUME NEW i \in 1..n - 1
      PROVE  /\ activations'[i].unit = activations[i].unit
             /\ activations'[i].version = activations[i].version
             /\ activations'[i].base = activations[i].base
             /\ activations'[i].top = activations[i].top
             /\ activations'[i].retired = activations[i].retired
  <2>1. CASE i = n - 1
    BY <1>1, <1>4, <2>1
  <2>2. CASE i # n - 1
    <3>1. i \in 1..n - 2
      BY <1>1, <2>2
    <3> QED BY <1>1, <3>1
  <2> QED BY <2>1, <2>2
<1>6. /\ \A i \in 1..n - 1 : KeepsFrames(activations'[i]) <=> KeepsFrames(activations[i])
      /\ \A i \in 1..n - 1 : (KeepsLocals(activations[i]))' <=> KeepsLocals(activations[i])
  BY <1>5 DEF KeepsFrames, KeepsLocals, Localizes
<1>7. \A i \in 1..n - 1 : i \in 1..n /\ i < n /\ n \in 1..n
  BY <1>1
<1>8. ASSUME NEW t, NEW i \in 1..n - 1, EndsAt(activations', top, i, t) PROVE EndsAt(activations, top, i, t)
  <2>1. CASE \E j \in 1..n - 1 : Above(activations', i, j) /\ t = activations'[j].base
    <3>1. PICK j \in 1..n - 1 : Above(activations', i, j) /\ t = activations'[j].base
      BY <2>1
    <3>2. /\ i < j /\ KeepsFrames(activations[j])
          /\ \A k \in 1..n - 1 : i < k /\ k < j => ~KeepsFrames(activations[k])
      BY <1>1, <1>6, <3>1 DEF Above
    <3>3. Above(activations, i, j) /\ t = activations[j].base
      BY <1>1, <1>5, <3>1, <3>2 DEF Above
    <3> QED BY <1>1, <1>7, <3>3 DEF EndsAt
  <2>2. CASE Innermost(activations', i) /\ t = top
    <3>1. \A k \in 1..n - 1 : i < k => ~KeepsFrames(activations[k])
      BY <1>1, <1>6, <2>2 DEF Innermost
    <3>2. CASE KeepsFrames(activations[n])
      <4>1. \A k \in 1..n : i < k /\ k < n => k \in 1..n - 1
        BY <1>1
      <4>2. i < n /\ \A k \in 1..n : i < k /\ k < n => ~KeepsFrames(activations[k])
        BY <1>7, <3>1, <4>1
      <4>3. Above(activations, i, n) /\ t = activations[n].base
        BY <1>1, <1>2, <2>2, <3>2, <4>2 DEF Above
      <4> QED BY <1>1, <1>7, <4>3 DEF EndsAt
    <3>3. CASE ~KeepsFrames(activations[n])
      <4>1. \A k \in 1..n : i < k => ~KeepsFrames(activations[k])
        BY <1>1, <3>1, <3>3
      <4> QED BY <1>1, <2>2, <4>1 DEF EndsAt, Innermost
    <3> QED BY <3>2, <3>3
  <2> QED BY <1>1, <1>8, <2>1, <2>2 DEF EndsAt
<1>9. top \in 0..SizeMax
  BY RunningTypes
<1>10. Top' = top
  <2>1. CASE (KeepsLocals(activations[n - 1]))'
    <3>1. n - 1 \in 1..n - 1 /\ n - 1 \in 1..n
      BY <1>1
    <3>2. KeepsLocals(activations[n - 1]) /\ KeepsFrames(activations[n - 1])
      BY <1>5, <2>1, <3>1 DEF KeepsLocals, KeepsFrames, Localizes
    <3>3. EndsAt(activations', top, n - 1, top)
      <4>1. \A k \in 1..n - 1 : ~(n - 1 < k)
        BY <1>1
      <4> QED BY <1>1, <4>1 DEF EndsAt, Innermost
    <3>4. EndsAt(activations, Top, n - 1, top)
      BY <1>8, <3>1, <3>3
    <3>5. activations[n - 1].top = top
      BY <1>1, <1>9, <3>1, <3>2, <3>4 DEF EndsKept
    <3>6. Top' = activations'[n - 1].top
      BY <1>1, <2>1 DEF Top, KeepsLocals, Localizes
    <3> QED BY <1>5, <3>1, <3>5, <3>6
  <2>2. CASE ~(KeepsLocals(activations[n - 1]))'
    <3>1. Top' = sharedTop'
      BY <1>1, <2>2 DEF Top, KeepsLocals, Localizes
    <3> QED BY <1>2, <3>1
  <2> QED BY <2>1, <2>2
<1>11. \A i \in 1..n - 1 : KeepsFrames(activations[i]) => activations[i].base <= top
  BY <1>1, <1>7 DEF BasesOrdered
<1> HIDE DEF top
<1>12. BasesOrdered'
  <2>1. \A i, j \in 1..n - 1 : KeepsFrames(activations[i]) /\ i < j /\ KeepsFrames(activations[j]) =>
                                  activations[i].base <= activations[j].base
    BY <1>1, <1>7 DEF BasesOrdered
  <2> QED BY <1>1, <1>5, <1>6, <1>10, <1>11, <2>1 DEF BasesOrdered
<1>13. EndsKept'
  <2> SUFFICES \A i \in 1..n - 1 : KeepsFrames(activations'[i]) =>
                 \A t \in 0..SizeMax : EndsAt(activations', Top', i, t) =>
                    /\ t + activations'[i].retired <= arena.capacity
                    /\ (KeepsLocals(activations[i]))' => activations'[i].top = t
    BY <1>1, <1>2 DEF EndsKept
  <2> SUFFICES ASSUME NEW i \in 1..n - 1, KeepsFrames(activations'[i]),
                      NEW t \in 0..SizeMax, EndsAt(activations', top, i, t)
               PROVE  /\ t + activations'[i].retired <= arena.capacity
                      /\ (KeepsLocals(activations[i]))' => activations'[i].top = t
    BY <1>10
  <2>1. EndsAt(activations, Top, i, t)
    BY <1>8 DEF top
  <2> QED BY <1>1, <1>5, <1>6, <1>7, <2>1 DEF EndsKept
<1>14. Tiled'
  <2>1. \A i \in 1..n - 1 : KeepsFrames(activations[i]) =>
          \A f \in memory : End(f) <= activations[i].base \/ activations[i].base <= f.at
    BY <1>1, <1>7 DEF Tiled
  <2>2. /\ \A f, g \in memory : f = g \/ End(f) <= g.at \/ End(g) <= f.at
        /\ \A f \in memory : End(f) <= top
        /\ top = 0 \/ \E f \in memory : End(f) = top
        /\ \A f \in memory : f.at = 0 \/ \E g \in memory : End(g) = f.at
    BY DEF Tiled, top
  <2>3. \A f : End(f)' = End(f)
    BY DEF End
  <2> QED BY <1>1, <1>2, <1>5, <1>6, <1>10, <2>1, <2>2, <2>3 DEF Tiled
<1>15. FramesWithinStorage'
  BY <1>2 DEF FramesWithinStorage, End
<1>16. StackStep(Abstract, Abstract')
  <2> DEFINE m == n - 1
  <2>1. m \in Nat \ {0} /\ n = m + 1 /\ Len(activations') = m
    BY <1>1
  <2>2. \A t : \A i \in 1..m : EndsAt(activations', Top', i, t) => EndsAt(activations, Top, i, t)
    BY <1>8, <1>10 DEF top
  <2>3. KeepsFrames(Running) => Top = Running.base
    BY <1>1, <1>2 DEF top
  <2>4. \A i \in 1..m : /\ activations'[i].unit = activations[i].unit
                       /\ activations'[i].version = activations[i].version
                       /\ activations'[i].base = activations[i].base
    BY <1>5
  <2> HIDE DEF m
  <2> QED BY <1>2, <2>1, <2>2, <2>3, <2>4, Leaving
<1> QED BY <1>12, <1>13, <1>14, <1>15, <1>16

\* A tail call forgets the retired frame and moves nothing.
LEMMA TailCalled ==
    ASSUME TypeOK, TypeOK', activations # <<>>, StaysIn, KeepsFrames(Running),
           UNCHANGED <<localizing, arena, memory, sharedTop>>,
           Running'.retired = 0, Running'.top = Running.top,
           BasesOrdered, EndsKept, Tiled, FramesWithinStorage
    PROVE  /\ BasesOrdered' /\ EndsKept' /\ Tiled' /\ FramesWithinStorage'
           /\ StackStep(Abstract, Abstract')
<1> DEFINE n == Len(activations)
           top == Top
<1>1. /\ n \in Nat \ {0} /\ DOMAIN activations = 1..n /\ DOMAIN activations' = 1..n
      /\ Running = activations[n] /\ Running' = activations'[n]
      /\ \A i \in 1..n - 1 : activations'[i] = activations[i]
      /\ SameBody(activations'[n], activations[n])
      /\ \A i \in 1..n : activations'[i].base = activations[i].base
      /\ \A i \in 1..n : KeepsFrames(activations'[i]) <=> KeepsFrames(activations[i])
      /\ \A i \in 1..n : (KeepsLocals(activations[i]))' <=> KeepsLocals(activations[i])
  BY StaysInBodies DEF SameBody
<1>2. /\ \A t : \A i \in 1..n - 1 : EndsAt(activations', Top', i, t) => EndsAt(activations, Top, i, t)
      /\ \A t : EndsAt(activations', Top', n, t) => t = Top'
  BY StaysInEnds
<1>3. Top' = top
  BY <1>1 DEF Top, SameBody, KeepsLocals, Localizes
<1>4. top \in Nat /\ arena.capacity \in Nat
  BY RunningTypes, Places
<1>5. top <= arena.capacity
  BY <1>4 DEF Tiled, FramesWithinStorage, top
<1>6. KeepsLocals(Running) => activations'[n].top = top
  BY <1>1 DEF Top
<1> HIDE DEF n, top
<1>7. BasesOrdered'
  BY <1>1, <1>3 DEF BasesOrdered, top
<1>8. EndsKept'
  <2> SUFFICES \A i \in 1..n : KeepsFrames(activations'[i]) =>
                 \A t \in 0..SizeMax : EndsAt(activations', Top', i, t) =>
                    /\ t + activations'[i].retired <= arena.capacity
                    /\ (KeepsLocals(activations[i]))' => activations'[i].top = t
    BY <1>1 DEF EndsKept
  <2> SUFFICES ASSUME NEW i \in 1..n, KeepsFrames(activations'[i]), NEW t \in 0..SizeMax,
                      EndsAt(activations', Top', i, t)
               PROVE  /\ t + activations'[i].retired <= arena.capacity
                      /\ (KeepsLocals(activations[i]))' => activations'[i].top = t
    OBVIOUS
  <2>1. CASE i = n
    <3>1. t = top /\ activations'[i].retired = 0
      BY <1>1, <1>2, <1>3, <2>1
    <3>2. (KeepsLocals(activations[i]))' => KeepsLocals(Running)
      BY <1>1, <2>1 DEF KeepsLocals, Localizes, SameBody
    <3> QED BY <1>4, <1>5, <1>6, <2>1, <3>1, <3>2
  <2>2. CASE i # n
    <3>1. i \in 1..n - 1
      BY <1>1, <2>2
    <3>2. EndsAt(activations, Top, i, t) /\ KeepsFrames(activations[i])
      BY <1>1, <1>2, <3>1
    <3> QED BY <1>1, <3>1, <3>2 DEF EndsKept
  <2> QED BY <2>1, <2>2
<1>9. Tiled'
  BY <1>1, <1>3 DEF Tiled, End, top
<1>10. FramesWithinStorage'
  BY DEF FramesWithinStorage, End
<1>11. StackStep(Abstract, Abstract')
  <2>1. Top' = Top
    BY <1>3 DEF top
  <2> QED BY <2>1, Unchanging
<1> QED BY <1>7, <1>8, <1>9, <1>10, <1>11

\* A way to push a frame has room for it, and writes it to the storage.
LEMMA Pushing ==
    ASSUME TypeOK, TypeOK', activations # <<>>, UNCHANGED localizing, NEW site \in FrameSites,
           KeepsFrames(Running), NEW view \in Views, Push(site, view, arena'.storage),
           view.storage = arena'.storage,
           Top + FrameSize[site] <= arena'.capacity, arena.capacity <= arena'.capacity,
           UnitOf[site] = Running.unit, IsFiniteSet(memory),
           BasesOrdered, EndsKept, Tiled, FramesWithinStorage
    PROVE  /\ BasesOrdered' /\ EndsKept' /\ Tiled' /\ FramesWithinStorage'
           /\ StackStep(Abstract, Abstract')
<1> DEFINE top == Top
           size == FrameSize[site]
<1>1. top \in Nat /\ size \in Nat /\ 1 <= size /\ SizeMax \in Nat /\ arena'.capacity \in 0..SizeMax
  BY RunningTypes, Sizes DEF TypeOK, Views
<1>2. (top + size) % (SizeMax + 1) = top + size
  <2>1. top + size <= SizeMax /\ top + size \in Nat
    BY <1>1
  <2> HIDE DEF top, size
  <2> QED BY <1>1, <2>1, Fitting
<1>3. /\ StaysIn
      /\ Running'.retired = 0
      /\ KeepsLocals(Running) => Running'.top = top + size
      /\ ~KeepsLocals(Running) => sharedTop' = top + size
  BY <1>2, PushStaysIn
<1>4. (KeepsLocals(Running))' <=> KeepsLocals(Running)
  <2>1. SameBody(Running', Running)
    BY <1>3, StaysInBodies
  <2> QED BY <2>1 DEF SameBody, KeepsLocals, Localizes
<1>5. Top' = top + size
  BY <1>3, <1>4 DEF Top
<1>6. memory' = memory \cup {[at |-> Top, site |-> site]}
  <2>1. memory' = WithFrame(site)
    BY DEF Push
  <2>2. \A f \in memory : End(f) <= Top
    BY DEF Tiled
  <2> QED BY <2>1, <2>2 DEF WithFrame
<1>7. KeepsLocals(Running) => Running'.top = Top'
  BY <1>3, <1>5
<1>8. Top' = Top + FrameSize[site] /\ Top' <= arena'.capacity
  BY <1>5
<1>9. StackStep(Abstract, Abstract')
  BY <1>3, <1>6, <1>8, Suspending
<1> QED BY <1>3, <1>6, <1>7, <1>8, <1>9, Pushed

LEMMA FiniteStep == FramesFinite /\ [Next]_vars => FramesFinite'
<1> SUFFICES ASSUME FramesFinite, [Next]_vars PROVE IsFiniteSet(memory')
  BY DEF FramesFinite
<1>1. IsFiniteSet(memory) /\ IsFiniteSet({})
  BY FS_EmptySet DEF FramesFinite
<1>2. \A site : IsFiniteSet(WithFrame(site))
  <2> SUFFICES ASSUME NEW site PROVE IsFiniteSet(WithFrame(site))
    OBVIOUS
  <2> DEFINE frame == [at |-> Top, site |-> site]
             kept == {f \in memory : End(f) <= Top \/ End(frame) <= f.at}
  <2>1. IsFiniteSet(kept)
    BY <1>1, FS_Subset
  <2>2. WithFrame(site) = kept \cup {frame}
    BY DEF WithFrame
  <2> HIDE DEF kept, frame
  <2> QED BY <2>1, <2>2, FS_AddElement
<1>3. \A site, view, storage : Push(site, view, storage) => IsFiniteSet(memory')
  BY <1>1, <1>2 DEF Push
<1>4. \A frame : IsFiniteSet(memory \ {frame})
  BY <1>1, FS_Subset
<1>5. CASE UNCHANGED vars
  BY <1>1, <1>5 DEF vars
<1>6. CASE Next
  <2>1. ASSUME NEW call, NEW target, NativeCall(call, target) PROVE IsFiniteSet(memory')
    BY <1>1, <2>1 DEF NativeCall
  <2>2. ASSUME NativeSelfCall \/ NativeReturn \/ Finish \/ RegionTailCall PROVE IsFiniteSet(memory')
    BY <1>1, <2>2 DEF NativeSelfCall, NativeReturn, Finish, RegionTailCall
  <2>3. ASSUME NEW site,
               ReplaceFrame(site) \/ PushCached(site) \/ PushReserved(site) \/ PushGrown(site)
        PROVE  IsFiniteSet(memory')
    BY <1>3, <2>3 DEF ReplaceFrame, PushCached, PushReserved, PushGrown
  <2>4. ASSUME NEW site, ReserveTraps(site) PROVE IsFiniteSet(memory')
    BY <1>1, <2>4 DEF ReserveTraps
  <2>5. ASSUME ResumeFrame PROVE IsFiniteSet(memory')
    BY <1>4, <2>5 DEF ResumeFrame
  <2> QED BY <1>6, <2>1, <2>2, <2>3, <2>4, <2>5 DEF Next
<1> QED BY <1>5, <1>6

LEMMA RootStep == TypeOK /\ RootFirst /\ [Next]_vars => RootFirst'
<1> SUFFICES ASSUME TypeOK, RootFirst, [Next]_vars, activations' # <<>> PROVE activations'[1].unit = Root
  BY DEF RootFirst
<1>1. CASE UNCHANGED vars
  BY <1>1 DEF vars, RootFirst
<1>2. ASSUME Next PROVE activations'[1].unit = Root
  <2> DEFINE n == Len(activations)
  <2>1. activations # <<>>
    BY <1>2 DEF Next
  <2>2. /\ n \in Nat \ {0} /\ Running = activations[n] /\ Running \in Activations
        /\ activations[1].unit = Root
    BY <2>1, RunningTypes DEF RootFirst
  <2> HIDE DEF n
  <2>3. n = 1 \/ 1 \in 1..n - 1
    BY <2>2
  <2>4. ASSUME StaysIn PROVE activations'[1].unit = Root
    BY <2>2, <2>3, <2>4 DEF StaysIn, SameBody, n
  <2>5. ASSUME NEW call \in NativeCalls, NEW target \in call.targets, NativeCall(call, target)
        PROVE  activations'[1].unit = Root
    <3>1. /\ \A i \in 1..n - 1 : activations'[i] = activations[i]
          /\ activations'[n] = [Running EXCEPT !.call = call]
      BY <2>1, <2>5, CallShape DEF n
    <3>2. [Running EXCEPT !.call = call].unit = Running.unit
      BY <2>2 DEF Activations
    <3> QED BY <2>2, <2>3, <3>1, <3>2
  <2>6. ASSUME NativeSelfCall PROVE activations'[1].unit = Root
    <3>1. \A i \in 1..n : activations'[i] = activations[i]
      BY <2>1, <2>6, SelfCallShape DEF n
    <3>2. 1 \in 1..n
      BY <2>2
    <3> QED BY <2>2, <3>1, <3>2
  <2>7. ASSUME NativeReturn PROVE activations'[1].unit = Root
    <3>1. /\ n - 1 \in Nat \ {0}
          /\ \A i \in 1..n - 2 : activations'[i] = activations[i]
          /\ Caller = activations[n - 1] /\ activations'[n - 1] = Returned(Caller)
      BY <2>1, <2>7, ReturnShape DEF n
    <3>2. CASE n - 1 = 1
      <4>1. Caller \in Activations
        <5>1. n - 1 \in 1..n
          BY <2>2, <3>1
        <5> QED BY <3>1, <5>1, ElementOfSeq DEF TypeOK, n
      <4>2. Returned(Caller).unit = Caller.unit
        BY <4>1 DEF Returned, Activations
      <4> QED BY <2>2, <3>1, <3>2, <4>2
    <3>3. CASE n - 1 # 1
      <4>1. 1 \in 1..n - 2
        BY <2>2, <3>1, <3>3
      <4> QED BY <2>2, <3>1, <4>1
    <3> QED BY <3>2, <3>3
  <2>8. ASSUME Finish PROVE activations'[1].unit = Root
    BY <2>8 DEF Finish
  <2>9. ASSUME NEW site \in FrameSites,
               ReplaceFrame(site) \/ PushCached(site) \/ PushReserved(site) \/ PushGrown(site)
        PROVE  activations'[1].unit = Root
    BY <2>1, <2>4, <2>9, PushingStaysIn
  <2>10. ASSUME NEW site \in FrameSites, ReserveTraps(site) PROVE activations'[1].unit = Root
    BY <2>2, <2>10 DEF ReserveTraps
  <2>11. ASSUME ResumeFrame PROVE activations'[1].unit = Root
    BY <2>1, <2>4, <2>11, ResumeStaysIn
  <2>12. ASSUME RegionTailCall PROVE activations'[1].unit = Root
    BY <2>1, <2>4, <2>12, TailCallStaysIn
  <2> QED BY <1>2, <2>5, <2>6, <2>7, <2>8, <2>9, <2>10, <2>11, <2>12 DEF Next
<1> QED BY <1>1, <1>2

LEMMA StackedStep ==
    TypeOK /\ TypeOK' /\ ViewsKept /\ Stacked /\ FramesWithinStorage /\ FramesFinite /\ RootFirst
    /\ [Next]_vars
    => Stacked' /\ FramesWithinStorage' /\ StackStep(Abstract, Abstract')
<1> SUFFICES ASSUME TypeOK, TypeOK', ViewsKept, Stacked, FramesWithinStorage, FramesFinite, RootFirst,
                    [Next]_vars
             PROVE  Stacked' /\ FramesWithinStorage' /\ StackStep(Abstract, Abstract')
  OBVIOUS
<1> DEFINE Goal == Stacked' /\ FramesWithinStorage' /\ StackStep(Abstract, Abstract')
<1>1. ASSUME UNCHANGED <<localizing, arena, memory, sharedTop, activations>> PROVE Goal
  <2>1. Top' = Top
    BY <1>1 DEF Top, Running, KeepsLocals, Localizes
  <2>2. StackStep(Abstract, Abstract')
    BY <1>1, <2>1 DEF Abstract, StackStep
  <2>3. Stacked' /\ FramesWithinStorage'
    BY <1>1 DEF Stacked, FramesWithinStorage, BasesOrdered, EndsKept, Tiled, Top, Running,
                KeepsLocals, Localizes, End
  <2> QED BY <2>2, <2>3
<1>3. CASE UNCHANGED vars
  BY <1>1, <1>3 DEF vars
<1>2. ASSUME Next PROVE Goal
  <2>1. activations # <<>> /\ UNCHANGED localizing
    BY <1>2 DEF Next
  <2>2. BasesOrdered /\ EndsKept /\ Tiled
    BY <2>1 DEF Stacked
  <2>3. /\ Len(activations) \in Nat \ {0} /\ Running = activations[Len(activations)]
        /\ Top \in Nat /\ DOMAIN activations = 1..Len(activations) /\ Running \in Activations
        /\ Len(activations) \in DOMAIN activations
    BY <2>1, RunningTypes
  <2>4. View = arena
    BY <2>3 DEF ViewsKept, ViewKept, View
  <2>5. BasesOrdered' /\ EndsKept' /\ Tiled' /\ FramesWithinStorage' /\ StackStep(Abstract, Abstract')
        => Goal
    BY DEF Stacked
  <2>6. ASSUME NEW call \in NativeCalls, NEW target \in call.targets, NativeCall(call, target)
        PROVE  Goal
    <3>1. UNCHANGED <<localizing, arena, memory>> /\ sharedTop' = Top
      BY <2>1, <2>6 DEF NativeCall
    <3>2. /\ Len(activations') = Len(activations) + 1
          /\ \A i \in 1..Len(activations) - 1 : activations'[i] = activations[i]
          /\ activations'[Len(activations)] = [Running EXCEPT !.call = call]
          /\ activations'[Len(activations) + 1] = Entered(target, VersionOf(target), Top)
      BY <2>1, <2>6, CallShape
    <3>3. ASSUME NEW i \in 1..Len(activations)
          PROVE  /\ SameBody(activations'[i], activations[i]) \/ i = Len(activations)
                 /\ activations'[i].unit = activations[i].unit
                 /\ activations'[i].version = activations[i].version
                 /\ activations'[i].base = activations[i].base
                 /\ activations'[i].top = activations[i].top
                 /\ activations'[i].retired = activations[i].retired
      <4>1. CASE i = Len(activations)
        BY <2>3, <3>2, <4>1 DEF Activations
      <4>2. CASE i # Len(activations)
        <5> DEFINE n == Len(activations)
        <5>1. i \in 1..n - 1
          <6>1. n \in Nat \ {0} /\ i \in 1..n /\ i # n
            BY <2>3, <4>2
          <6> HIDE DEF n
          <6> QED BY <6>1
        <5> QED BY <3>2, <5>1 DEF SameBody
      <4> QED BY <4>1, <4>2
    <3>6. target \in Units
      BY ControlAssumption
    <3>4. BasesOrdered' /\ EndsKept' /\ Tiled' /\ StackStep(Abstract, Abstract')
      BY <2>1, <2>2, <3>1, <3>2, <3>3, <3>6, Entering
    <3>5. FramesWithinStorage'
      BY <3>1 DEF FramesWithinStorage, End
    <3> QED BY <2>5, <3>4, <3>5
  <2>7. ASSUME NativeSelfCall PROVE Goal
    <3>1. UNCHANGED <<localizing, arena, memory>> /\ sharedTop' = sharedTop /\ sharedTop = Top
      BY <2>1, <2>7 DEF NativeSelfCall, Top, KeepsLocals
    <3>2. /\ Len(activations') = Len(activations) + 1
          /\ \A i \in 1..Len(activations) : activations'[i] = activations[i]
          /\ activations'[Len(activations) + 1] = Entered(Running.unit, VersionOf(Running.unit), Top)
      BY <2>1, <2>7, <3>1, SelfCallShape
    <3>3. \A i \in 1..Len(activations) :
            /\ SameBody(activations'[i], activations[i]) \/ i = Len(activations)
            /\ activations'[i].unit = activations[i].unit
            /\ activations'[i].version = activations[i].version
            /\ activations'[i].base = activations[i].base
            /\ activations'[i].top = activations[i].top
            /\ activations'[i].retired = activations[i].retired
      BY <3>2 DEF SameBody
    <3>6. Running.unit \in Units
      BY <2>3 DEF Activations
    <3>4. BasesOrdered' /\ EndsKept' /\ Tiled' /\ StackStep(Abstract, Abstract')
      BY <2>1, <2>2, <3>1, <3>2, <3>3, <3>6, Entering
    <3>5. FramesWithinStorage'
      BY <3>1 DEF FramesWithinStorage, End
    <3> QED BY <2>5, <3>4, <3>5
  <2>8. ASSUME NativeReturn PROVE Goal
    BY <2>1, <2>2, <2>5, <2>8, Returning
  <2>9. ASSUME Finish PROVE Goal
    <3>1. StackStep(Abstract, Abstract')
      BY <2>1, <2>9, Finishing DEF Finish, RootFirst
    <3> QED BY <2>9, <3>1 DEF Finish, Stacked, FramesWithinStorage
  <2>10. ASSUME NEW site \in FrameSites, ReplaceFrame(site) PROVE Goal
    <3>1. /\ UnitOf[site] = Running.unit
          /\ Push(site, View, arena.storage) /\ UNCHANGED arena /\ KeepsFrames(Running)
          /\ Running.retired >= FrameSize[site]
      BY <2>10 DEF ReplaceFrame, SiteOfRunning, FitsRetired
    <3>2. EndsAt(activations, Top, Len(activations), Top)
      <4>1. \A k \in DOMAIN activations : ~(Len(activations) < k)
        BY <2>3
      <4> QED BY <4>1 DEF EndsAt, Innermost
    <3>3. Top \in 0..SizeMax
      BY <2>1, RunningTypes
    <3>4. Top + Running.retired <= arena.capacity
      BY <2>2, <2>3, <3>1, <3>2, <3>3 DEF EndsKept
    <3>5. Running.retired \in Nat /\ FrameSize[site] \in Nat /\ arena.capacity \in Nat
      BY <2>3, Sizes, Places
    <3>6. /\ Top + FrameSize[site] <= arena'.capacity /\ arena.capacity <= arena'.capacity
          /\ arena \in Views
      BY <2>3, <3>1, <3>4, <3>5 DEF TypeOK
    <3> QED BY <2>1, <2>2, <2>4, <2>5, <3>1, <3>6, Pushing DEF FramesFinite
  <2>11. ASSUME NEW site \in FrameSites, PushCached(site) PROVE Goal
    <3>1. /\ UnitOf[site] = Running.unit
          /\ Push(site, View, arena.storage) /\ UNCHANGED arena /\ KeepsFrames(Running)
          /\ KeepsLocals(Running) /\ Top <= SizeMax - FrameSize[site]
          /\ (Top + FrameSize[site]) % (SizeMax + 1) <= Running.view.capacity
      BY <2>11 DEF PushCached, SiteOfRunning, FitsView
    <3>2. Running.view = arena
      BY <2>4, <3>1 DEF View
    <3>3. Top + FrameSize[site] <= arena.capacity
      <4> DEFINE t == Top
                 s == FrameSize[site]
      <4>1. t \in Nat /\ s \in Nat /\ SizeMax \in Nat /\ t <= SizeMax - s
        BY <2>3, <3>1, Sizes
      <4>2. (t + s) % (SizeMax + 1) <= arena.capacity
        BY <3>1, <3>2
      <4> HIDE DEF t, s
      <4>3. t + s <= arena.capacity
        BY <4>1, <4>2
      <4> QED BY <4>3 DEF t, s
    <3>4. arena \in Views /\ arena.capacity <= arena'.capacity
      BY <3>1, Places DEF TypeOK
    <3> QED BY <2>1, <2>2, <2>4, <2>5, <3>1, <3>3, <3>4, Pushing DEF FramesFinite
  <2>12. ASSUME NEW site \in FrameSites, PushReserved(site) PROVE Goal
    <3>1. /\ UnitOf[site] = Running.unit
          /\ Push(site, arena, arena.storage) /\ UNCHANGED arena /\ KeepsFrames(Running)
          /\ Top + FrameSize[site] <= arena.capacity
      BY <2>12 DEF PushReserved, SiteOfRunning
    <3>2. arena \in Views /\ arena.capacity <= arena'.capacity
      BY <3>1, Places DEF TypeOK
    <3> QED BY <2>1, <2>2, <2>5, <3>1, <3>2, Pushing DEF FramesFinite
  <2>13. ASSUME NEW site \in FrameSites, PushGrown(site) PROVE Goal
    <3>1. /\ UnitOf[site] = Running.unit
          /\ Push(site, arena', arena'.storage) /\ KeepsFrames(Running) /\ arena' \in Views
          /\ Top <= SizeMax - FrameSize[site] /\ Top + FrameSize[site] > arena.capacity
          /\ arena' \in Grown(Top + FrameSize[site])
      BY <2>13 DEF PushGrown, SiteOfRunning, TypeOK
    <3>2. Top + FrameSize[site] \in 0..SizeMax
      BY <2>3, <3>1, Sizes
    <3>3. arena'.capacity \in Top + FrameSize[site]..SizeMax
      BY <3>1, <3>2, GrownType
    <3>4. Top + FrameSize[site] <= arena'.capacity /\ arena.capacity <= arena'.capacity
      BY <3>1, <3>2, <3>3, Places, Sizes
    <3> QED BY <2>1, <2>2, <2>5, <3>1, <3>4, Pushing DEF FramesFinite
  <2>14. ASSUME NEW site \in FrameSites, ReserveTraps(site) PROVE Goal
    BY <1>1, <2>1, <2>14 DEF ReserveTraps
  <2>15. ASSUME ResumeFrame PROVE Goal
    <3>1. KeepsFrames(Running) /\ Top # Running.base /\ UNCHANGED arena
      BY <2>15 DEF ResumeFrame
    <3>2. PICK frame \in ReadFrames :
              /\ StaysIn
              /\ memory' = memory \ {frame}
              /\ Running'.retired = FrameSize[frame.site]
              /\ KeepsLocals(Running) => Running'.top = frame.at
              /\ ~KeepsLocals(Running) => sharedTop' = frame.at
      BY <2>1, <2>15, ResumeStaysIn
    <3>3. (KeepsLocals(Running))' <=> KeepsLocals(Running)
      <4>1. SameBody(Running', Running)
        BY <2>1, <2>3, <3>2, StaysInBodies DEF SameBody
      <4> QED BY <2>1, <4>1 DEF SameBody, KeepsLocals, Localizes
    <3>4. Top' = frame.at
      BY <3>2, <3>3 DEF Top
    <3>5. \E f \in memory : End(f) = Top
      <4>1. Running.base <= Top /\ Running.base \in Nat
        BY <2>2, <2>3, <3>1, Places DEF BasesOrdered
      <4>2. Top # 0
        BY <2>3, <3>1, <4>1
      <4> QED BY <2>2, <4>2 DEF Tiled
    <3>6. frame \in memory /\ End(frame) = Top
      BY <2>4, <3>2, <3>5 DEF ReadFrames
    <3>7. KeepsLocals(Running) => Running'.top = Top'
      BY <3>2, <3>4
    <3> QED BY <2>1, <2>2, <2>5, <3>1, <3>2, <3>4, <3>6, <3>7, Resumed DEF FramesFinite
  <2>16. ASSUME RegionTailCall PROVE Goal
    <3>1. /\ KeepsFrames(Running) /\ UNCHANGED <<arena, memory, sharedTop>>
          /\ StaysIn /\ Running'.retired = 0 /\ Running'.top = Running.top
      BY <2>1, <2>16, TailCallStaysIn DEF RegionTailCall
    <3> QED BY <2>1, <2>2, <2>3, <2>5, <3>1, TailCalled
  <2> QED BY <1>2, <2>6, <2>7, <2>8, <2>9, <2>10, <2>11, <2>12, <2>13, <2>14, <2>15, <2>16 DEF Next
<1> QED BY <1>2, <1>3

LEMMA InitStacked == Init => Stacked /\ FramesWithinStorage /\ FramesFinite /\ RootFirst
<1> SUFFICES ASSUME Init PROVE Stacked /\ FramesWithinStorage /\ FramesFinite /\ RootFirst
  OBVIOUS
<1>1. /\ activations = <<Entered(Root, "frames", 0)>> /\ Len(activations) = 1
      /\ DOMAIN activations = 1..1 /\ activations[1] = Entered(Root, "frames", 0)
      /\ memory = {} /\ sharedTop = 0
  BY DEF Init
<1>2. activations[1].unit = Root
  BY <1>1 DEF Entered
<1>3. ~Framed(Root)
  BY ControlAssumption DEF Framed
<1>4. ~KeepsFrames(activations[1]) /\ ~KeepsLocals(activations[1]) /\ Running = activations[1]
  BY <1>1, <1>2, <1>3 DEF KeepsFrames, KeepsLocals, Localizes, Running, Last
<1>5. Top = 0
  BY <1>1, <1>4 DEF Top
<1>6. FramesFinite /\ RootFirst
  BY <1>1, <1>2, FS_EmptySet DEF FramesFinite, RootFirst
<1> QED BY <1>1, <1>4, <1>5, <1>6 DEF Stacked, FramesWithinStorage, BasesOrdered, EndsKept, Tiled

\* Every frame, reserved or in the place of a retired one, is inside the storage, over
\* nested calls, growth and relocation, in every program whose calls are settled.
THEOREM FramesContained == ASSUME Settled PROVE Spec => []FramesWithinStorage
<1>1. Settled
  OBVIOUS
<1>2. Init => IInv
  BY InitType, InitViews, InitStacked DEF IInv
<1>3. IInv /\ [Next]_vars => IInv'
  BY <1>1, TypeStep, BuildStep, ViewsStep, StackedStep, FiniteStep, RootStep DEF IInv
<1>4. IInv => FramesWithinStorage
  BY DEF IInv
<1> QED BY <1>2, <1>3, <1>4, PTL DEF Spec
-----------------------------------------------------------------------------
(* The refinement.                                                          *)

\* UpperEnd is the one end that EndsAt finds.
LEMMA AbstractIs == TypeOK /\ Stacked => SuspendedCalls = Abstract
<1> SUFFICES ASSUME TypeOK, Stacked PROVE SuspendedCalls = Abstract
  OBVIOUS
<1>1. ASSUME NEW i \in DOMAIN activations PROVE Suspended(i) = CallsOf(activations, memory, Top, i)
  <2>1. CASE ~KeepsFrames(activations[i])
    BY <2>1 DEF Suspended, CallsOf
  <2>2. CASE KeepsFrames(activations[i])
    <3>1. activations # <<>>
      OBVIOUS
    <3>2. /\ EndsKept /\ DOMAIN activations \subseteq Nat
          /\ Len(activations) \in Nat /\ DOMAIN activations = 1..Len(activations)
      BY <3>1, RunningTypes DEF Stacked
    <3>3. EndsAt(activations, Top, i, UpperEnd(i))
      <4> DEFINE above == {j \in i + 1..Len(activations) : KeepsFrames(activations[j])}
      <4>1. CASE KeepsLocals(activations[i])
        <5>1. PICK t \in 0..SizeMax : EndsAt(activations, Top, i, t)
          BY <3>1, EndExists
        <5>2. activations[i].top = t
          BY <2>2, <3>2, <4>1, <5>1 DEF EndsKept
        <5> QED BY <4>1, <5>1, <5>2 DEF UpperEnd
      <4>2. CASE ~KeepsLocals(activations[i]) /\ above = {}
        <5>1. UpperEnd(i) = sharedTop
          BY <4>2 DEF UpperEnd
        <5>2. Top = sharedTop
          BY <2>2, <4>2 DEF Top, KeepsLocals, KeepsFrames, Localizes
        <5>3. Innermost(activations, i)
          BY <3>2, <4>2 DEF Innermost
        <5> QED BY <5>1, <5>2, <5>3 DEF EndsAt
      <4>3. CASE ~KeepsLocals(activations[i]) /\ above # {}
        <5>1. above \subseteq Nat
          BY <3>2
        <5>2. UpperEnd(i) = activations[Min(above)].base
          BY <4>3 DEF UpperEnd
        <5> HIDE DEF above
        <5>3. PICK j \in above : \A k \in above : j <= k
          BY <4>3, <5>1, LeastElement
        <5>4. Min(above) \in above /\ \A k \in above : Min(above) <= k
          BY <5>3 DEF Min
        <5>5. Above(activations, i, Min(above))
          <6> DEFINE m == Min(above)
          <6>1. m \in above /\ \A k \in above : m <= k
            BY <5>4
          <6> HIDE DEF m
          <6>2. m \in Nat /\ i < m /\ KeepsFrames(activations[m])
            BY <3>2, <6>1 DEF above
          <6>3. ASSUME NEW k \in DOMAIN activations, i < k, k < m PROVE ~KeepsFrames(activations[k])
            <7>1. k \in i + 1..Len(activations) /\ ~(m <= k)
              BY <3>2, <6>2, <6>3
            <7> QED BY <6>1, <7>1 DEF above
          <6>4. Above(activations, i, m)
            BY <6>2, <6>3 DEF Above
          <6> QED BY <6>4 DEF m
        <5>6. Min(above) \in DOMAIN activations
          BY <3>2, <5>4 DEF above
        <5> QED BY <5>2, <5>5, <5>6 DEF EndsAt
      <4> QED BY <4>1, <4>2, <4>3
    <3>4. Ends(activations, Top, i) = UpperEnd(i)
      BY <3>2, <3>3, EndIs
    <3>5. OwnFrames(activations, memory, Top, i) = FramesOf(i)
      BY <3>4 DEF OwnFrames, FramesOf
    <3> QED BY <2>2, <3>5 DEF Suspended, CallsOf
  <2> QED BY <2>1, <2>2
<1> QED BY <1>1 DEF SuspendedCalls, Abstract

LEMMA AbstractStep ==
    IInv /\ IInv' /\ [Next]_vars => [Stack!Next]_SuspendedCalls
<1> SUFFICES ASSUME IInv, IInv', [Next]_vars PROVE [Stack!Next]_SuspendedCalls
  OBVIOUS
<1>1. SuspendedCalls = Abstract /\ SuspendedCalls' = Abstract'
  <2>1. (TypeOK /\ Stacked => SuspendedCalls = Abstract)'
    BY AbstractIs, PTL
  <2> QED BY <2>1, AbstractIs DEF IInv
<1>2. StackStep(Abstract, Abstract')
  BY StackedStep DEF IInv
<1>3. CASE activations = <<>>
  <2>1. UNCHANGED vars
    BY <1>3 DEF Next
  <2>2. Top' = Top
    BY <2>1 DEF vars, Top, Running, KeepsLocals, Localizes
  <2>3. Abstract' = Abstract
    BY <2>1, <2>2 DEF vars, Abstract
  <2> QED BY <1>1, <2>3
<1>4. CASE activations # <<>>
  <2>1. SuspendedCalls # <<>>
    <3>1. Bodies(Abstract, Len(activations)) /\ Len(activations) # 0
      BY <1>4, RunningTypes, AbstractBodies DEF IInv
    <3> QED BY <1>1, <3>1, BodiesFront
  <2>2. StackStep(SuspendedCalls, SuspendedCalls')
    BY <1>1, <1>2
  <2> DEFINE s == SuspendedCalls
             t == SuspendedCalls'
  <2>3. \A x : Stack!Last(x) = Last(x) /\ Stack!Front(x) = Front(x)
    BY DEF Stack!Last, Stack!Front, Last, Front
  <2>4. ASSUME NEW unit \in Units, t = Append(s, [unit |-> unit, suspended |-> <<>>])
        PROVE  Stack!Call(unit)
    BY <2>4 DEF Stack!Call, Stack!Entered
  <2>5. ASSUME NEW site \in FrameSites, UnitOf[site] = Last(s).unit,
               t = Append(Front(s), [Last(s) EXCEPT !.suspended = Append(@, site)])
        PROVE  Stack!Suspend(site)
    BY <2>5, <2>3 DEF Stack!Suspend, Stack!Running
  <2>6. ASSUME Last(s).suspended # <<>>, t = Append(Front(s), [Last(s) EXCEPT !.suspended = Front(@)])
        PROVE  Stack!Resume
    BY <2>6, <2>3 DEF Stack!Resume, Stack!Running
  <2>7. ASSUME Last(s).suspended = <<>>, t = Front(s) PROVE Stack!Return
    BY <2>7, <2>3 DEF Stack!Return, Stack!Running
  <2>8. t = s \/ Stack!Next
    BY <2>1, <2>2, <2>4, <2>5, <2>6, <2>7 DEF StackStep, Stack!Next
  <2> QED BY <2>8
<1> QED BY <1>3, <1>4

LEMMA AbstractInit == Init /\ IInv => Stack!Init
<1> SUFFICES ASSUME Init, IInv PROVE Stack!Init
  OBVIOUS
<1>1. SuspendedCalls = Abstract
  BY AbstractIs DEF IInv
<1>2. /\ activations = <<Entered(Root, "frames", 0)>> /\ DOMAIN activations = 1..1
      /\ activations[1].unit = Root
  BY DEF Init, Entered
<1>3. ~KeepsFrames(activations[1])
  BY <1>2, ControlAssumption DEF KeepsFrames, Framed
<1>4. Abstract = [i \in 1..1 |-> [unit |-> Root, suspended |-> <<>>]]
  BY <1>2, <1>3 DEF Abstract, CallsOf
<1>5. Abstract = <<[unit |-> Root, suspended |-> <<>>]>>
  BY <1>4
<1> QED BY <1>1, <1>5 DEF Stack!Init, Stack!Entered

\* The frames in the arena are the suspended calls of each body in its own order, in
\* every program whose calls are settled: no growth, relocation, replaced frame or
\* native call loses, reorders or exposes one.
THEOREM KeepsCallsApart == ASSUME Settled PROVE Spec => ImplementsControlStack
<1>1. Init => IInv
  BY InitType, InitViews, InitStacked DEF IInv
<1>2. IInv /\ [Next]_vars => IInv'
  BY TypeStep, BuildStep, ViewsStep, StackedStep, FiniteStep, RootStep DEF IInv
<1>3. Init /\ IInv => Stack!Init
  BY AbstractInit
<1>4. IInv /\ IInv' /\ [Next]_vars => [Stack!Next]_SuspendedCalls
  BY AbstractStep
<1> QED BY <1>1, <1>2, <1>3, <1>4, PTL DEF Spec, ImplementsControlStack, Stack!Spec
=============================================================================

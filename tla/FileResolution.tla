--------------------------- MODULE FileResolution ---------------------------
(***************************************************************************)
(* Resolving the files of a loaded graph (resolve/files.rs): a second      *)
(* depth-first walk, now over file identities and edges, that resolves a   *)
(* file after everything it requires and imports their public names into   *)
(* its scope.  It runs on the graph that SourceGraph has loaded.           *)
(***************************************************************************)
EXTENDS SourceGraph

CONSTANTS Names     \* names a file may declare at its top level

ASSUME NamesAssumption ==
    \A text \in Texts :
        /\ text.declares \subseteq Names    \* the public names it declares
        /\ text.main \in BOOLEAN            \* whether it declares main
        /\ text.body \in BOOLEAN            \* whether all of it parses

VARIABLES
    active,         \* the stack of files with the number of requirements visited
    marks,          \* per file: 0 unvisited, 1 active, 2 resolved
    exports,        \* per file: the public names it exports, None before it is resolved
    resolved,       \* the files in the order their items were resolved
    resolution      \* waiting, resolving, resolved or the error

resolve == <<active, marks, exports, resolved, resolution>>
vars == <<load, resolve>>

\* Option<Exports>: a set of at most one set of names.
None == {}
Some(names) == {names}

Init ==
    /\ InitLoad
    /\ active = <<>> /\ marks = <<>> /\ exports = <<>> /\ resolved = <<>>
    /\ resolution = "waiting"

Text(id) == sources[files[id]]

\* analyze_graph parses every file before it resolves any.
StartResolving ==
    /\ outcome = "loaded" /\ resolution = "waiting"
    /\ IF \A id \in DOMAIN files : Text(id).body
       THEN /\ active' = <<[file |-> 1, next |-> 1]>>
            /\ marks' = [id \in DOMAIN files |-> IF id = 1 THEN 1 ELSE 0]
            /\ exports' = [id \in DOMAIN files |-> None]
            /\ resolution' = "resolving"
       ELSE resolution' = "syntax" /\ UNCHANGED <<active, marks, exports>>
    /\ UNCHANGED <<load, resolved>>

\* Mutant of Visiting: the last requirement is left out.
VisitingAllButLast == Last(active).next < Len(requirements[Last(active).file])

\* The next requirement of the file on top of the stack.
Visiting == Last(active).next \in DOMAIN requirements[Last(active).file]
Target == requirements[Last(active).file][Last(active).next]
Visited == [active EXCEPT ![Len(active)].next = @ + 1]

Resolving == resolution = "resolving" /\ active # <<>>

Stop(error) ==
    /\ resolution' = error
    /\ UNCHANGED <<load, active, marks, exports, resolved>>

\* Mutant of Visit: The requirement is not counted as visited when its file is resolved already.
VisitAgain ==
    /\ Resolving /\ Visiting
    /\ CASE marks[Target] = 0 ->
              /\ marks' = [marks EXCEPT ![Target] = 1]
              /\ active' = Append(Visited, [file |-> Target, next |-> 1])
              /\ UNCHANGED <<load, exports, resolved, resolution>>
         [] marks[Target] = 1 -> Stop("cyclic")
         [] marks[Target] = 2 -> UNCHANGED vars

Visit ==
    /\ Resolving /\ Visiting
    /\ CASE marks[Target] = 0 ->
              /\ marks' = [marks EXCEPT ![Target] = 1]
              /\ active' = Append(Visited, [file |-> Target, next |-> 1])
              /\ UNCHANGED <<load, exports, resolved, resolution>>
         [] marks[Target] = 1 -> Stop("cyclic")
         [] marks[Target] = 2 ->
              /\ active' = Visited
              /\ UNCHANGED <<load, marks, exports, resolved, resolution>>

\* Mutant of Imported: Names are exported transitively.
ImportedTransitively(id) ==
    UNION UNION {exports[dependency] : dependency \in DOMAIN exports \ {id}}

\* import: the public names of the required files, which must not meet.
Imported(id) == UNION UNION {exports[dependency] : dependency \in Range(requirements[id])}
ImportsMeet(id) ==
    \E i, j \in DOMAIN requirements[id] :
        /\ i < j
        /\ (UNION exports[requirements[id][i]]) \cap (UNION exports[requirements[id][j]]) # {}

\* resolve_file, for the file on top of the stack, which it pops.
ResolveFile ==
    /\ Resolving /\ ~Visiting
    /\ LET id == Last(active).file
       IN  IF \E dependency \in Range(requirements[id]) : exports[dependency] = None
             THEN Stop("panic")
           ELSE IF ImportsMeet(id) THEN Stop("conflict")
           ELSE IF id # 1 /\ Text(id).main THEN Stop("main")
           ELSE IF Imported(id) \cap Text(id).declares # {} THEN Stop("conflict")
           ELSE /\ active' = Front(active)
                /\ exports' = [exports EXCEPT ![id] = Some(Text(id).declares)]
                /\ resolved' = Append(resolved, id)
                /\ marks' = [marks EXCEPT ![id] = 2]
                /\ UNCHANGED <<load, resolution>>

FinishResolving ==
    /\ resolution = "resolving" /\ active = <<>>
    /\ resolution' = "resolved"
    /\ UNCHANGED <<load, active, marks, exports, resolved>>

Next ==
    \/ NextLoad /\ UNCHANGED resolve
    \/ StartResolving \/ Visit \/ ResolveFile \/ FinishResolving

\* One loop after another on one thread: while a step is possible, it is taken.
Spec == Init /\ [][Next]_vars /\ WF_vars(Next)

-----------------------------------------------------------------------------
(* Properties. *)

\* Every variable keeps to the values its declaration in files.rs allows.
TypeOK ==
    /\ LoadTypeOK
    /\ active \in Seq([file : DOMAIN files, next : Nat])
    /\ marks \in [DOMAIN marks -> {0, 1, 2}]
    /\ exports \in [DOMAIN exports -> {None} \cup {Some(names) : names \in SUBSET Names}]
    /\ resolution # "waiting" /\ resolution # "syntax" =>
          DOMAIN marks = DOMAIN files /\ DOMAIN exports = DOMAIN files
    /\ resolved \in Seq(DOMAIN files)
    /\ resolution \in {"waiting", "resolving", "resolved", "syntax", "conflict", "main"}

\* The walk agrees with the loader's: a graph it has loaded never shows a cycle, and whatever a
\* file requires has been resolved, exported and placed before the file itself, so that the
\* "dependency is resolved before its importer" of resolve_file cannot fail.
DependenciesFirst ==
    /\ resolution \notin {"panic", "cyclic"}
    /\ \A i \in DOMAIN resolved :
          /\ exports[resolved[i]] # None
          /\ Range(requirements[resolved[i]]) \subseteq {resolved[j] : j \in 1..i - 1}

\* The names one file declares, and those of everything it requires, seen without an order.
Declared(path) == sources[path].declares
ClashesIn(path) ==
    LET required == Requires(sources, path) \cap MalFiles
    IN  \/ \E one, other \in required : one # other /\ Declared(one) \cap Declared(other) # {}
        \/ \E one \in required : Declared(one) \cap Declared(path) # {}

\* Every file of the program is resolved exactly once and nothing else is; an error is one the
\* program has, wherever in the graph it lies.
ResolvesEveryFileOnce ==
    /\ IsInjective(resolved)
    /\ resolution = "resolved" =>
          /\ {files[id] : id \in Range(resolved)} = Program(sources, Root)
          /\ \A path \in Program(sources, Root) : ~ClashesIn(path) /\ (path = Root \/ ~sources[path].main)
    /\ resolution = "conflict" => \E path \in Program(sources, Root) : ClashesIn(path)
    /\ resolution = "main" => \E path \in Program(sources, Root) \ {Root} : sources[path].main
    /\ resolution = "syntax" => \E path \in Program(sources, Root) : ~sources[path].body

\* Loading and resolving end for every program.
AnalysisEnds == <>(outcome \in Errors \/ resolution \notin {"waiting", "resolving"})
=============================================================================

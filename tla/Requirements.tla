---------------------------- MODULE Requirements ----------------------------
(***************************************************************************)
(* What the require declarations of source files say, without an order of  *)
(* loading: the reference for the loader (SourceGraph) and the meaning of  *)
(* a load for the language server (LanguageServer).  sources gives every   *)
(* .mal path its contents and onDisk the .c paths that exist.              *)
(***************************************************************************)
EXTENDS Integers, FiniteSets, Sequences, SequencesExt

CONSTANTS
    MalFiles,       \* canonical paths with the extension .mal
    CFiles,         \* canonical paths with the extension .c
    OtherPaths,     \* requirement paths that are absolute, empty or of another extension
    Texts,          \* contents of files: [header, requires, ...]
    Missing         \* the contents of a path that no file or overlay has

ASSUME TextsAssumption ==
    /\ IsFiniteSet(MalFiles)
    /\ MalFiles \cap CFiles = {} /\ (MalFiles \cup CFiles) \cap OtherPaths = {}
    /\ Missing \notin Texts
    /\ \A text \in Texts :
          /\ text.header \in BOOLEAN      \* whether its requirements parse
          /\ text.requires \in Seq(MalFiles \cup CFiles \cup OtherPaths)

Readable(sources, path) == sources[path] # Missing /\ sources[path].header
Requires(sources, path) == IF Readable(sources, path) THEN Range(sources[path].requires) ELSE {}

\* Every .mal path some chain of requirements leads to from the paths in seed.
ReachableFrom(sources, seed) ==
    LET Within[n \in 0..Cardinality(MalFiles)] ==
            IF n = 0 THEN seed
            ELSE LET nearer == Within[n - 1]
                 IN  nearer \cup UNION {Requires(sources, path) \cap MalFiles : path \in nearer}
    IN  Within[Cardinality(MalFiles)]

Program(sources, root) == ReachableFrom(sources, {root})
OnCycle(sources, path) == path \in ReachableFrom(sources, Requires(sources, path) \cap MalFiles)

\* The files of a program that keep it from being loaded.
Obstacles(sources, onDisk, root) ==
    {path \in Program(sources, root) :
        \/ ~Readable(sources, path) \/ OnCycle(sources, path)
        \/ ~(Requires(sources, path) \cap CFiles \subseteq onDisk)
        \/ Requires(sources, path) \cap OtherPaths # {}}

Loadable(sources, onDisk, root) == Obstacles(sources, onDisk, root) = {}

\* What must be true of the program for an error to be the right answer.
Explains(error, sources, onDisk, root) ==
    \/ error = "unreadable" /\ sources[root] = Missing
    \/ \E path \in Program(sources, root) :
          \/ error = "cyclic" /\ OnCycle(sources, path)
          \/ error = "missing" /\ (\/ sources[path] = Missing
                                   \/ ~(Requires(sources, path) \cap CFiles \subseteq onDisk))
          \/ error = "invalid" /\ (\/ sources[path] # Missing /\ ~sources[path].header
                                   \/ Requires(sources, path) \cap OtherPaths # {})
=============================================================================

---------------------------- MODULE SourceGraph ----------------------------
(***************************************************************************)
(* Loading the requirement graph of one program (mal-syntax graph.rs): the *)
(* root file and every .mal file it requires, depth first over an explicit *)
(* stack.  Each canonical path becomes one file whose identity is its      *)
(* position; a cycle, a missing file or an invalid requirement ends the    *)
(* load with an error.                                                     *)
(***************************************************************************)
EXTENDS Requirements

CONSTANTS Root      \* the file the program is loaded from

ASSUME RootAssumption == Root \in MalFiles

VARIABLES
    sources,        \* what each .mal path holds, overlays before the disk
    onDisk,         \* the .c paths that exist
    files,          \* the paths loaded so far; a FileId is a position
    requirements,   \* for every file, the files it requires
    states,         \* per path: unseen, loading, or loaded as a file
    pending,        \* the stack of files whose requirements are being loaded
    cSources,       \* the C sources to link, in order of first mention
    outcome         \* waiting, loading, loaded or the error

load == <<sources, onDisk, files, requirements, states, pending, cSources, outcome>>

Unseen == [kind |-> "unseen", id |-> 0]
Loading == [kind |-> "loading", id |-> 0]
Loaded(id) == [kind |-> "loaded", id |-> id]

InitLoad ==
    /\ sources \in [MalFiles -> Texts \cup {Missing}]
    /\ onDisk \in SUBSET CFiles
    /\ files = <<>> /\ requirements = <<>>
    /\ states = [path \in MalFiles |-> Unseen]
    /\ pending = <<>>
    /\ cSources = <<>>
    /\ outcome = "waiting"

-----------------------------------------------------------------------------
(* The steps of load_graph. *)

Fail(error) ==
    /\ outcome' = error
    /\ UNCHANGED <<sources, onDisk, files, requirements, states, pending, cSources>>

\* begin_mal: the file gets the next identity and goes on top of the stack.
Begin(path, by, below) ==
    IF sources[path] = Missing THEN Fail("unreadable")
    ELSE IF ~sources[path].header THEN Fail("invalid")
    ELSE /\ files' = Append(files, path)
         /\ requirements' = Append(requirements, <<>>)
         /\ states' = [states EXCEPT ![path] = Loading]
         /\ pending' = Append(below, [path |-> path, id |-> Len(files) + 1,
                                      rest |-> sources[path].requires, by |-> by])
         /\ outcome' = "loading"
         /\ UNCHANGED <<sources, onDisk, cSources>>

\* Mutant of WithEdge: An edge is added for every requirement, the second to the same file too.
WithEveryEdge(edges, importer, dependency) ==
    [edges EXCEPT ![importer] = Append(@, dependency)]

\* add_mal_requirement: one edge to each required file, whatever the number of requirements.
WithEdge(edges, importer, dependency) ==
    IF dependency \in Range(edges[importer]) THEN edges
    ELSE [edges EXCEPT ![importer] = Append(@, dependency)]

Top == Last(pending)

\* The stack once the top frame has taken its next requirement.
Advanced == [pending EXCEPT ![Len(pending)].rest = Tail(@)]

Start == outcome = "waiting" /\ Begin(Root, 0, <<>>)

Complete ==
    /\ outcome = "loading" /\ pending # <<>> /\ Top.rest = <<>>
    /\ pending' = Front(pending)
    /\ states' = [states EXCEPT ![Top.path] = Loaded(Top.id)]
    /\ requirements' = IF Top.by = 0 THEN requirements ELSE WithEdge(requirements, Top.by, Top.id)
    /\ UNCHANGED <<sources, onDisk, files, cSources, outcome>>

Taking(paths) ==
    /\ outcome = "loading" /\ pending # <<>> /\ Top.rest # <<>>
    /\ Head(Top.rest) \in paths

RequireLoaded ==
    /\ Taking(MalFiles)
    /\ LET required == Head(Top.rest)
       IN  /\ sources[required] # Missing
           /\ states[required].kind = "loaded"
           /\ requirements' = WithEdge(requirements, Top.id, states[required].id)
    /\ pending' = Advanced
    /\ UNCHANGED <<sources, onDisk, files, states, cSources, outcome>>

\* Mutant of RequireLoading: A file still loading is taken for a diamond and skipped.
RequireLoadingSkipped ==
    /\ Taking(MalFiles)
    /\ sources[Head(Top.rest)] # Missing
    /\ states[Head(Top.rest)] = Loading
    /\ pending' = Advanced
    /\ UNCHANGED <<sources, onDisk, files, requirements, states, cSources, outcome>>

RequireLoading ==
    /\ Taking(MalFiles)
    /\ sources[Head(Top.rest)] # Missing
    /\ states[Head(Top.rest)] = Loading
    /\ Fail("cyclic")

RequireUnseen ==
    /\ Taking(MalFiles)
    /\ sources[Head(Top.rest)] # Missing
    /\ states[Head(Top.rest)] = Unseen
    /\ Begin(Head(Top.rest), Top.id, Advanced)

RequireMissing ==
    /\ Taking(MalFiles)
    /\ sources[Head(Top.rest)] = Missing
    /\ Fail("missing")

RequireC ==
    /\ Taking(CFiles)
    /\ LET required == Head(Top.rest)
       IN  IF required \notin onDisk THEN Fail("missing")
           ELSE /\ cSources' = IF required \in Range(cSources) THEN cSources
                               ELSE Append(cSources, required)
                /\ pending' = Advanced
                /\ UNCHANGED <<sources, onDisk, files, requirements, states, outcome>>

RequireOther == Taking(OtherPaths) /\ Fail("invalid")

Finish ==
    /\ outcome = "loading" /\ pending = <<>>
    /\ outcome' = "loaded"
    /\ UNCHANGED <<sources, onDisk, files, requirements, states, pending, cSources>>

NextLoad ==
    \/ Start \/ Complete \/ Finish
    \/ RequireLoaded \/ RequireLoading \/ RequireUnseen \/ RequireMissing
    \/ RequireC \/ RequireOther

Errors == {"unreadable", "missing", "invalid", "cyclic"}
Ended == outcome \in Errors \cup {"loaded"}

-----------------------------------------------------------------------------
(* Properties. *)

\* Every variable keeps to the values its declaration in graph.rs allows.
LoadTypeOK ==
    /\ sources \in [MalFiles -> Texts \cup {Missing}] /\ onDisk \subseteq CFiles
    /\ files \in Seq(MalFiles) /\ cSources \in Seq(CFiles)
    /\ Len(requirements) = Len(files)
    /\ \A id \in DOMAIN files : requirements[id] \in Seq(DOMAIN files)
    /\ states \in [MalFiles -> {Unseen, Loading} \cup {Loaded(id) : id \in DOMAIN files}]
    /\ \A i \in DOMAIN pending :
          /\ pending[i].path \in MalFiles /\ pending[i].id \in DOMAIN files
          /\ pending[i].by \in {0} \cup DOMAIN files
          /\ pending[i].rest \in Seq(MalFiles \cup CFiles \cup OtherPaths)
    /\ outcome \in Errors \cup {"waiting", "loading", "loaded"}

\* The files on the stack are those marked as loading, from the root along requirements, each
\* once: "still loading" then means an ancestor, and reaching one is a cycle and never a diamond.
StackIsRequirementPath ==
    /\ outcome = "loading" =>
          /\ IsInjective([i \in DOMAIN pending |-> pending[i].path])
          /\ {pending[i].path : i \in DOMAIN pending}
                = {path \in MalFiles : states[path] = Loading}
    /\ \A i \in DOMAIN pending :
          /\ files[pending[i].id] = pending[i].path
          /\ IF i = 1 THEN pending[i].by = 0 /\ pending[i].path = Root
             ELSE /\ pending[i].by = pending[i - 1].id
                  /\ pending[i].path \in Requires(sources, pending[i - 1].path)

\* A canonical path is one file: no two identities share a path, and the identity a state
\* remembers is the position of that path.
OneFilePerPath ==
    /\ IsInjective(files)
    /\ \A path \in MalFiles : states[path].kind = "loaded" => files[states[path].id] = path

\* A loaded file has exactly one edge for each .mal file it requires, whether that file was
\* loaded for it, for another importer before, or is required twice.
EdgesAreRequirements ==
    \A path \in MalFiles :
        LET edges == requirements[states[path].id]
        IN  states[path].kind = "loaded" =>
              /\ IsInjective(edges)
              /\ {files[id] : id \in Range(edges)} = Requires(sources, path) \cap MalFiles

\* The stack, the files and the edges describe one graph.
GraphWellFormed == StackIsRequirementPath /\ OneFilePerPath /\ EdgesAreRequirements

\* The load succeeds exactly for the programs it should, with exactly the files and C sources
\* their requirements reach, and an error is one the program really has.
LoadsWhatIsRequired ==
    /\ outcome = "loaded" =>
          /\ Loadable(sources, onDisk, Root)
          /\ Range(files) = Program(sources, Root)
          /\ IsInjective(cSources)
          /\ Range(cSources)
                = UNION {Requires(sources, path) \cap CFiles : path \in Program(sources, Root)}
    /\ outcome \in Errors =>
          ~Loadable(sources, onDisk, Root) /\ Explains(outcome, sources, onDisk, Root)
=============================================================================

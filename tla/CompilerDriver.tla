--------------------------- MODULE CompilerDriver ---------------------------
(***************************************************************************)
(* A build of the compiler (mal-compiler driver/build.rs) among others: it *)
(* loads its program, and once that is loaded it takes a temporary         *)
(* directory while its files are resolved.  The other builds, of its       *)
(* process or another, meet it in the directories only (driver/files.rs):  *)
(* builds of one process take numbers from a counter, a crashed process    *)
(* leaves its directories, and a later process can have its id.            *)
(***************************************************************************)
EXTENDS FileResolution

CONSTANTS
    BuiltSources,   \* the programs whose directories are modelled too (bound)
    Processes,      \* process ids
    Builds,         \* builds, each of one process at a time
    NoBuild,        \* the owner of a directory a crashed process left
    Attempts,       \* 100
    MaxSequence     \* names of one process id (bound)

ASSUME DirectoryAssumption ==
    /\ NoBuild \notin Builds
    /\ Attempts \in Nat \ {0} /\ MaxSequence \in Nat

VARIABLES
    next,           \* NEXT_TEMPORARY of each process
    builds,         \* the progress of each build
    directories     \* the owner of each existing directory, by process id and number

directoryVars == <<next, builds, directories>>

Idle == [state |-> "idle"]
Trying(p, attempts) == [state |-> "trying", process |-> p, attempts |-> attempts]
Named(p, attempts, name) ==
    [state |-> "named", process |-> p, attempts |-> attempts, name |-> name]
Holding(p, name) == [state |-> "holding", process |-> p, name |-> name]

InitDirectories ==
    /\ next = [p \in Processes |-> 0]
    /\ builds = [b \in Builds |-> Idle]
    /\ directories = [n \in {} |-> NoBuild]

\* A build begins in a process.
BeginBuild(b, p) ==
    /\ builds[b] = Idle
    /\ builds' = [builds EXCEPT ![b] = Trying(p, 0)]
    /\ UNCHANGED <<next, directories>>

\* Mutant of Taken: the number is read and not added to.
SameNumber(n) == n

\* fetch_add.
Taken(n) == n + 1

\* The number is taken before the directory is created: another build can act in
\* between.
TakeNumber(b) ==
    /\ builds[b].state = "trying" /\ builds[b].attempts < Attempts
    /\ LET p == builds[b].process
       IN /\ next[p] <= MaxSequence
          /\ next' = [next EXCEPT ![p] = Taken(@)]
          /\ builds' = [builds EXCEPT ![b] = Named(p, @.attempts, <<p, next[p]>>)]
    /\ UNCHANGED directories

Exists(name) == name \in DOMAIN directories

\* create_dir.
CreateDirectory(b) ==
    /\ builds[b].state = "named" /\ ~Exists(builds[b].name)
    /\ LET name == builds[b].name
       IN /\ directories' = [n \in DOMAIN directories \cup {name} |->
                                IF n = name THEN b ELSE directories[n]]
          /\ builds' = [builds EXCEPT ![b] = Holding(@.process, name)]
    /\ UNCHANGED next

\* Mutant of Retry: create_dir_all, which accepts a directory that is there.
RetryAccepts(b) ==
    /\ builds[b].state = "named" /\ Exists(builds[b].name)
    /\ builds' = [builds EXCEPT ![b] = Holding(@.process, @.name)]
    /\ UNCHANGED <<next, directories>>

\* AlreadyExists: the next attempt.
Retry(b) ==
    /\ builds[b].state = "named" /\ Exists(builds[b].name)
    /\ builds' = [builds EXCEPT ![b] = Trying(@.process, @.attempts + 1)]
    /\ UNCHANGED <<next, directories>>

\* "could not allocate a unique temporary directory", or another error of create_dir.
GiveUp(b) ==
    /\ \/ builds[b].state = "trying" /\ builds[b].attempts = Attempts
       \/ builds[b].state = "named"
    /\ builds' = [builds EXCEPT ![b] = Idle]
    /\ UNCHANGED <<next, directories>>

\* The build ends, however it ends, and drops its TemporaryDirectory; removing it
\* can fail, which is ignored.
Drop(b) ==
    /\ builds[b].state = "holding"
    /\ \E removed \in {{}, {builds[b].name}} :
        directories' = [n \in DOMAIN directories \ removed |->
                            IF n = builds[b].name THEN NoBuild ELSE directories[n]]
    /\ builds' = [builds EXCEPT ![b] = Idle]
    /\ UNCHANGED next

\* The process ends, without drops if builds are running; its id can be used again.
EndProcess(p) ==
    LET ended == {b \in Builds : builds[b] # Idle /\ builds[b].process = p}
    IN /\ next[p] > 0
       /\ next' = [next EXCEPT ![p] = 0]
       /\ builds' = [b \in Builds |-> IF b \in ended THEN Idle ELSE builds[b]]
       /\ directories' = [n \in DOMAIN directories |->
                            IF directories[n] \in ended THEN NoBuild ELSE directories[n]]

NextDirectories ==
    \/ \E b \in Builds :
        \/ \E p \in Processes : BeginBuild(b, p)
        \/ TakeNumber(b)
        \/ CreateDirectory(b)
        \/ Retry(b)
        \/ GiveUp(b)
        \/ Drop(b)
    \/ \E p \in Processes : EndProcess(p)

-----------------------------------------------------------------------------
(* The build. *)

driver == <<vars, directoryVars>>

InitDriver == Init /\ InitDirectories

Analyze == Next /\ UNCHANGED directoryVars
UseDirectories ==
    /\ outcome = "loaded" /\ sources \in BuiltSources
    /\ NextDirectories
    /\ UNCHANGED vars
NextDriver == Analyze \/ UseDirectories

\* The build goes on; what other builds do is up to them.
DriverSpec == InitDriver /\ [][NextDriver]_driver /\ WF_driver(Analyze)

-----------------------------------------------------------------------------
\* The directory a build writes to, and removes when it ends, exists and is the one
\* it created: no other build, of its process or another, holds it.
OwnDirectoryOnly ==
    \A b \in Builds :
        builds[b].state = "holding" =>
            builds[b].name \in DOMAIN directories /\ directories[builds[b].name] = b

\* A build gives up a name only to a directory left behind: concurrent builds never
\* make each other fail.
RetriesOnlyLeftovers ==
    \A b \in Builds :
        builds[b].state = "trying" =>
            builds[b].attempts <=
                Cardinality({n \in DOMAIN directories :
                                n[1] = builds[b].process /\ directories[n] = NoBuild})
=============================================================================

-------------------------- MODULE MCCompilerDriver --------------------------
(* The programs of three files: the root, and two that may require each    *)
(* other, a C source, a file twice, or nothing that exists; for one that   *)
(* can be built, two builds in one process id at a time and what they      *)
(* leave.  For the program of one file that requires nothing, the walk of  *)
(* its names, which ResolveFile takes in one step, follows name by name.   *)
EXTENDS CompilerDriver, NameResolution

Plain == [header |-> TRUE, body |-> TRUE, main |-> FALSE, declares |-> {}, requires |-> <<>>]
Requiring(paths) == [Plain EXCEPT !.requires = paths]

MCTexts ==
    {Requiring(<<>>), Requiring(<<"a">>), Requiring(<<"b">>), Requiring(<<"root">>),
     Requiring(<<"a", "b">>), Requiring(<<"b", "a", "b">>), Requiring(<<"a", "c">>),
     Requiring(<<"c", "c">>), Requiring(<<"/absolute">>),
     [Plain EXCEPT !.declares = {"n"}], [Requiring(<<"b">>) EXCEPT !.declares = {"n"}],
     [Plain EXCEPT !.main = TRUE], [Plain EXCEPT !.body = FALSE], [Plain EXCEPT !.header = FALSE]}

MCBuiltSources == {[path \in MalFiles |-> IF path = Root THEN Requiring(<<"a">>) ELSE Requiring(<<>>)]}
MCNamedSources == [path \in MalFiles |-> IF path = Root THEN Requiring(<<>>) ELSE Missing]
MCPredefinedNames == <<"get">>

MCInit == InitDriver /\ InitNames
ResolveNames ==
    /\ resolution = "resolved" /\ sources = MCNamedSources /\ onDisk = {}
    /\ NextNames
    /\ UNCHANGED driver
MCNext == (NextDriver /\ UNCHANGED names) \/ ResolveNames
MCSpec ==
    MCInit /\ [][MCNext]_<<driver, names>> /\ WF_<<driver, names>>(Analyze /\ UNCHANGED names)
=============================================================================

-------------------------- MODULE MCLanguageServer --------------------------
(* Three files: texts that require the second, the third or nothing, with   *)
(* and without errors; two of the three files exist on disk at the start.   *)
EXTENDS LanguageServer

Text(requires) ==
    [header |-> TRUE, body |-> TRUE, typed |-> TRUE, imports |-> FALSE, requires |-> requires]

Untyped == [Text(<<>>) EXCEPT !.typed = FALSE]
Unparsed == [Text(<<>>) EXCEPT !.body = FALSE]
Importing == [Text(<<"c">>) EXCEPT !.imports = TRUE]

MCTexts == {Text(<<>>), Untyped, Unparsed, Text(<<"b">>), Importing}

\* The first file requires the others or breaks itself, the second may stand between it and the
\* third, and the third may close a cycle.
MCContents == [path \in {"a", "b", "c"} |->
    CASE path = "a" -> {Text(<<"b">>), Importing, Untyped}
      [] path = "b" -> {Text(<<>>), Importing, Unparsed}
      [] path = "c" -> {Text(<<"b">>), Untyped}]

\* At the start the first file is not on disk.
MCInit == Init /\ disk["a"] = Missing
MCSpec == MCInit /\ [][Next]_vars
=============================================================================

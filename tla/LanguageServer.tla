--------------------------- MODULE LanguageServer ---------------------------
(***************************************************************************)
(* Open documents, analyses and published diagnostics of the language      *)
(* server (mal-lsp server/mod.rs and server/analysis.rs).  A document's    *)
(* analysis reads the buffers of all open documents and the disk for the   *)
(* rest; a notification marks stale the analyses that read the changed     *)
(* file, analyses them again and publishes what changed.                   *)
(***************************************************************************)
EXTENDS Requirements

CONSTANTS
    Contents,       \* the texts each path may hold, in a buffer or on disk (bound)
    MaxVersion      \* versions of a document, numbered from 1 (bound)

ASSUME ServerAssumption ==
    /\ Contents \in [MalFiles -> SUBSET Texts]
    /\ MaxVersion \in Nat \ {0}
    /\ \A text \in Texts :
          /\ text.body \in BOOLEAN      \* whether all of it parses and resolves
          /\ text.typed \in BOOLEAN     \* whether it passes the type checker
          /\ text.imports \in BOOLEAN   \* whether it uses a name of a file it requires

VARIABLES
    documents,      \* the open documents, by path
    disk,           \* the files on disk
    client          \* the diagnostics the editor shows for each path

vars == <<documents, disk, client>>

\* An analysis and the texts it read: a function on the files of its graph, empty without one.
NoGraph == <<>>
Stale == [state |-> "stale", graph |-> NoGraph, semantic |-> NoGraph]
Failed(graph) == [state |-> "failed", graph |-> graph, semantic |-> NoGraph]
Ready(graph) == [state |-> "ready", graph |-> graph, semantic |-> NoGraph]

Report(version, kind, at) == [version |-> version, kind |-> kind, at |-> at]
Unpublished == Report(0, "unpublished", {})
\* publish_diagnostics with no version and no diagnostics.
Nothing == Report(0, "none", {})

Closed == [open |-> FALSE, version |-> 0, text |-> Missing, analysis |-> Stale,
           published |-> Unpublished]

Init ==
    /\ documents = [path \in MalFiles |-> Closed]
    /\ disk \in {files \in [MalFiles -> Texts \cup {Missing}] :
                  \A path \in MalFiles : files[path] \in Contents[path] \cup {Missing}}
    /\ client = [path \in MalFiles |-> Nothing]

-----------------------------------------------------------------------------
(* Analysis: analyze_document. *)

\* load_with_overlays: open buffers come before the disk.
Visible(docs) == [path \in MalFiles |-> IF docs[path].open THEN docs[path].text ELSE disk[path]]

Graph(sources, root) == [path \in Program(sources, root) |-> sources[path]]

Analyzed(sources, root) ==
    LET graph == Graph(sources, root)
    IN  IF ~Loadable(sources, {}, root) THEN Failed(NoGraph)
        ELSE IF \E path \in DOMAIN graph : ~graph[path].body THEN Failed(graph)
        ELSE Ready(graph)

\* The files the diagnostics of a root are about.  Where the code reports the first error of
\* several, this names all files that have one.
Diagnosis(sources, root, version) ==
    LET own == sources[root]
        obstacles == Obstacles(sources, {}, root)
        program == Program(sources, root)
        unparsed == {path \in program : ~sources[path].body}
        untyped == {path \in program : ~sources[path].typed}
    IN  CASE obstacles # {} /\ (~own.header \/ ~own.body \/ ~own.typed \/ own.imports) ->
               Report(version, "alone", {root})
          [] obstacles # {} -> Report(version, "load", obstacles)
          [] obstacles = {} /\ unparsed # {} -> Report(version, "parse", unparsed)
          [] obstacles = {} /\ unparsed = {} /\ untyped # {} -> Report(version, "type", untyped)
          [] OTHER -> Report(version, "none", {})

-----------------------------------------------------------------------------
(* Invalidation and publication. *)

\* Mutant of Reads: only the file itself and those it requires directly count.
ReadsDirectly(document, path) ==
    \/ document.analysis.state = "stale"
    \/ document.analysis = Failed(NoGraph)
    \/ path \in Range(document.text.requires) \cap DOMAIN document.analysis.graph

\* invalidate_analyses_reading, for one document.
Reads(document, path) ==
    \/ document.analysis.state = "stale"
    \/ document.analysis = Failed(NoGraph)
    \/ path \in DOMAIN document.analysis.graph

\* Mutant of Invalidated: a change marks every open document stale.
InvalidatedAll(docs, changed) ==
    [path \in MalFiles |->
        IF docs[path].open THEN [docs[path] EXCEPT !.analysis = Stale] ELSE docs[path]]

Invalidated(docs, changed) ==
    [path \in MalFiles |->
        IF docs[path].open /\ (path = changed \/ Reads(docs[path], changed))
        THEN [docs[path] EXCEPT !.analysis = Stale] ELSE docs[path]]

\* Mutant of Suppressed: equal diagnostics of an earlier version are not sent again.
SuppressedAnyVersion(document, report) ==
    [document.published EXCEPT !.version = report.version] = report

\* Whether diagnostics leaves out a message because the client has this report.
Suppressed(document, report) == document.published = report

\* publish_workspace_diagnostics: every stale document is analysed and what changed is sent.
Publishes(docs, shown) ==
    LET sources == Visible(docs)
        Refreshed(path) ==
            LET report == Diagnosis(sources, path, docs[path].version)
            IN  [docs[path] EXCEPT !.analysis = Analyzed(sources, path),
                                   !.published = IF Suppressed(docs[path], report) THEN @ ELSE report]
    IN  /\ documents' = [path \in MalFiles |->
              IF docs[path].open /\ docs[path].analysis = Stale THEN Refreshed(path) ELSE docs[path]]
        /\ client' = [path \in MalFiles |->
              IF documents'[path].published # docs[path].published
              THEN documents'[path].published ELSE shown[path]]

-----------------------------------------------------------------------------
(* Notifications and requests. *)

\* A second didOpen of an open document replaces it.  Its version starts again at 1.
DidOpen(path, text) ==
    /\ LET opened == [documents EXCEPT ![path] =
                        [open |-> TRUE, version |-> 1, text |-> text,
                         analysis |-> Stale, published |-> Unpublished]]
       IN  Publishes(Invalidated(opened, path), client)
    /\ UNCHANGED disk

\* A version the document has passed is ignored.
DidChange(path, version, text) ==
    /\ documents[path].open /\ version > documents[path].version
    /\ LET changed == [documents EXCEPT ![path].version = version, ![path].text = text]
       IN  Publishes(Invalidated(changed, path), client)
    /\ UNCHANGED disk

\* Mutant of DidClose: the document stays, marked as closed.
DidCloseKeepsDocument(path) ==
    /\ documents[path].open
    /\ LET closed == [Invalidated(documents, path) EXCEPT ![path].open = FALSE]
       IN  Publishes(closed, [client EXCEPT ![path] = Nothing])
    /\ UNCHANGED disk

DidClose(path) ==
    /\ documents[path].open
    /\ LET closed == [Invalidated(documents, path) EXCEPT ![path] = Closed]
       IN  Publishes(closed, [client EXCEPT ![path] = Nothing])
    /\ UNCHANGED disk

\* A semantic request: the index is built once from the analysis, which is made if it is stale.
Query(path) ==
    /\ documents[path].open
    /\ LET analysis == IF documents[path].analysis = Stale
                       THEN Analyzed(Visible(documents), path) ELSE documents[path].analysis
       IN  documents' = [documents EXCEPT ![path].analysis =
              IF analysis.state = "ready" /\ analysis.semantic = NoGraph
              THEN [analysis EXCEPT !.semantic = analysis.graph] ELSE analysis]
    /\ UNCHANGED <<disk, client>>

\* The editor writes the buffer of an open document to its file.  No notification tells the
\* server, and while the document is open the file is not read.
Save(path) ==
    /\ documents[path].open /\ disk[path] # documents[path].text
    /\ disk' = [disk EXCEPT ![path] = documents[path].text]
    /\ UNCHANGED <<documents, client>>

Next ==
    \E path \in MalFiles :
        \/ \E text \in Contents[path] :
              \/ DidOpen(path, text)
              \/ \E version \in 1..MaxVersion : DidChange(path, version, text)
        \/ DidClose(path) \/ Query(path) \/ Save(path)

Spec == Init /\ [][Next]_vars

-----------------------------------------------------------------------------
(* Properties. *)

Reports == [version : 0..MaxVersion, at : SUBSET MalFiles,
            kind : {"unpublished", "none", "alone", "load", "parse", "type"}]

\* Documents, analyses and reports have the shape mod.rs declares.
TypeOK ==
    /\ disk \in [MalFiles -> Texts \cup {Missing}]
    /\ client \in [MalFiles -> Reports]
    /\ \A path \in MalFiles :
          LET document == documents[path]
          IN  /\ document.open => document.text \in Texts /\ document.version \in 1..MaxVersion
              /\ ~document.open => document = Closed
              /\ document.analysis.state \in {"stale", "failed", "ready"}
              /\ DOMAIN document.analysis.graph \subseteq MalFiles
              /\ document.published \in Reports

\* After every message the editor shows, for each open document, the diagnostics that its
\* current version has with the buffers and files of this moment, whichever file changed last
\* and however indirectly the document reads it; a closed document shows none.
ShownIsCurrent ==
    \A path \in MalFiles :
        client[path] = IF documents[path].open
                       THEN Diagnosis(Visible(documents), path, documents[path].version)
                       ELSE Nothing

\* No analysis is left stale, so that no request makes one whose diagnostics nobody publishes,
\* and the graph an analysis keeps holds the texts that its files have now.
AnalysesAreCurrent ==
    \A path \in MalFiles :
        LET analysis == documents[path].analysis
        IN  documents[path].open =>
              /\ analysis.state # "stale"
              /\ [analysis EXCEPT !.semantic = NoGraph] = Analyzed(Visible(documents), path)

\* The index that hover, references and rename answer from belongs to the current texts.
QueriesAnswerCurrentText ==
    \A path \in MalFiles :
        LET analysis == documents[path].analysis
        IN  analysis.semantic # NoGraph =>
              \A file \in DOMAIN analysis.semantic :
                  analysis.semantic[file] = Visible(documents)[file]

\* What the server knows of a document is what its texts of this moment say.
AnswersAreCurrent == AnalysesAreCurrent /\ QueriesAnswerCurrentText

\* A change to one file leaves alone every other analysis that succeeded without reading it,
\* its index included (the test reanalyzes_only_documents_that_read_the_changed_file).
KeepsUnrelatedAnalyses ==
    [][LET Buffer(document) == <<document.open, document.version, document.text>>
           touched == {path \in MalFiles : Buffer(documents'[path]) # Buffer(documents[path])}
       IN  \A path \in MalFiles :
              LET document == documents[path]
              IN  /\ document.open /\ document.analysis.state = "ready"
                  /\ touched # {} /\ touched \cap DOMAIN document.analysis.graph = {}
                  => documents'[path] = document]_vars
=============================================================================

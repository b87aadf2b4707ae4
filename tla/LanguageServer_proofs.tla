------------------------ MODULE LanguageServer_proofs ------------------------
(***************************************************************************)
(* After every message the editor shows what the texts of that moment say, *)
(* for any number of documents that require each other in any way.  An     *)
(* analysis that is not made again did not read the changed file, so its   *)
(* program, and all that is said of it, are what they were.                *)
(***************************************************************************)
EXTENDS LanguageServer, Requirements_proofs

\* The texts that an analysis sees: Visible, with the disk as an argument.
Seen(docs, files) == [path \in MalFiles |-> IF docs[path].open THEN docs[path].text ELSE files[path]]

Document(open, version, text, analysis, published) ==
    [open |-> open, version |-> version, text |-> text, analysis |-> analysis, published |-> published]

Indexed(graph) == [state |-> "ready", graph |-> graph, semantic |-> graph]

\* An open document of path and what the editor shows for it.
OpenHolds(sources, path, document, shown) ==
    \E version \in 1..MaxVersion, text \in Texts :
        \E analysis :
            /\ document = Document(TRUE, version, text, analysis, Diagnosis(sources, path, version))
            /\ shown = Diagnosis(sources, path, version)
            /\ \/ analysis = Analyzed(sources, path)
               \/ /\ Analyzed(sources, path) = Ready(Graph(sources, path))
                  /\ analysis = Indexed(Graph(sources, path))

Holds(sources, path, document, shown) ==
    \/ OpenHolds(sources, path, document, shown)
    \/ document = Closed /\ shown = Nothing

\* Every analysis is of the texts of this moment, and so is every report sent.
ServerInv ==
    /\ documents = [path \in MalFiles |-> documents[path]]
    /\ client = [path \in MalFiles |-> client[path]]
    /\ disk \in [MalFiles -> Texts \cup {Missing}]
    /\ \A path \in MalFiles : Holds(Seen(documents, disk), path, documents[path], client[path])

\* A record of a document is told apart by its parts.
LEMMA Parts ==
    /\ \A o, v, t, a, p : /\ Document(o, v, t, a, p).open = o /\ Document(o, v, t, a, p).version = v
                          /\ Document(o, v, t, a, p).text = t /\ Document(o, v, t, a, p).analysis = a
                          /\ Document(o, v, t, a, p).published = p
    /\ Closed = Document(FALSE, 0, Missing, Stale, Unpublished)
    /\ \A g : /\ Failed(g).state = "failed" /\ Failed(g).graph = g /\ Failed(g).semantic = NoGraph
              /\ Ready(g).state = "ready" /\ Ready(g).graph = g /\ Ready(g).semantic = NoGraph
              /\ Indexed(g).state = "ready" /\ Indexed(g).graph = g /\ Indexed(g).semantic = g
    /\ Stale.state = "stale" /\ Stale.graph = NoGraph /\ Stale.semantic = NoGraph
    /\ \A v, k, at : Report(v, k, at).kind = k /\ Report(v, k, at).version = v /\ Report(v, k, at).at = at
  BY DEF Document, Closed, Failed, Ready, Indexed, Stale, Report

\* What a diagnosis may be.
LEMMA DiagnosisIs ==
    ASSUME NEW sources, NEW path \in MalFiles, NEW version \in 0..MaxVersion
    PROVE  /\ Diagnosis(sources, path, version) \in Reports
           /\ Diagnosis(sources, path, version) # Unpublished
           /\ Diagnosis(sources, path, version).version = version
<1> DEFINE program == Program(sources, path)
           kinds == {"none", "alone", "load", "parse", "type"}
           d == Diagnosis(sources, path, version)
<1>1. program \subseteq MalFiles
  BY ProgramIs
<1>2. Obstacles(sources, {}, path) \subseteq MalFiles
  BY <1>1 DEF Obstacles
<1>3. \E kind \in kinds, at \in SUBSET MalFiles : d = Report(version, kind, at)
  <2> DEFINE obstacles == Obstacles(sources, {}, path)
             unparsed == {p \in program : ~sources[p].body}
             untyped == {p \in program : ~sources[p].typed}
             own == sources[path]
             alone == obstacles # {} /\ (~own.header \/ ~own.body \/ ~own.typed \/ own.imports)
  <2>1. d = CASE alone -> Report(version, "alone", {path})
              [] obstacles # {} -> Report(version, "load", obstacles)
              [] obstacles = {} /\ unparsed # {} -> Report(version, "parse", unparsed)
              [] obstacles = {} /\ unparsed = {} /\ untyped # {} -> Report(version, "type", untyped)
              [] OTHER -> Report(version, "none", {})
    BY DEF Diagnosis
  <2>2. unparsed \in SUBSET MalFiles /\ untyped \in SUBSET MalFiles /\ {path} \in SUBSET MalFiles
        /\ obstacles \in SUBSET MalFiles /\ {} \in SUBSET MalFiles
    BY <1>1, <1>2
  <2> HIDE DEF unparsed, untyped, obstacles, d, alone
  <2> QED BY <2>1, <2>2
<1> HIDE DEF d
<1>4. PICK kind \in kinds, at \in SUBSET MalFiles : d = Report(version, kind, at)
  BY <1>3
<1>5. d \in Reports
  BY <1>4 DEF Report, Reports
<1>6. d # Unpublished /\ d.version = version
  BY <1>4 DEF Report, Unpublished
<1> QED BY <1>5, <1>6 DEF d

\* What an analysis may be.
LEMMA AnalyzedIs ==
    ASSUME NEW sources, NEW path \in MalFiles
    PROVE  LET a == Analyzed(sources, path)
               graph == Graph(sources, path)
           IN  /\ a = Failed(NoGraph) \/ a = Failed(graph) \/ a = Ready(graph)
               /\ a # Failed(NoGraph) => Obstacles(sources, {}, path) = {}
               /\ DOMAIN graph = Program(sources, path) /\ path \in DOMAIN graph
               /\ DOMAIN graph \subseteq MalFiles /\ graph # NoGraph
               /\ \A file \in DOMAIN graph : graph[file] = sources[file]
<1> DEFINE graph == Graph(sources, path)
<1>1. path \in Program(sources, path) /\ Program(sources, path) \subseteq MalFiles
  BY ProgramIs
<1>2. DOMAIN graph = Program(sources, path) /\ \A file \in DOMAIN graph : graph[file] = sources[file]
  BY DEF Graph
<1>3. graph # NoGraph
  <2>1. DOMAIN NoGraph = {}
    BY DEF NoGraph
  <2> HIDE DEF graph
  <2> QED BY <1>1, <1>2, <2>1
<1>4. /\ ~Loadable(sources, {}, path) => Analyzed(sources, path) = Failed(NoGraph)
      /\ Loadable(sources, {}, path) => \/ Analyzed(sources, path) = Failed(graph)
                                        \/ Analyzed(sources, path) = Ready(graph)
  BY DEF Analyzed
<1> QED BY <1>1, <1>2, <1>3, <1>4 DEF Loadable

\* Texts that agree on the files of a program give the same answers.
LEMMA SameAnswers ==
    ASSUME NEW sources, NEW others, NEW path \in MalFiles, NEW version,
           \A file \in Program(sources, path) : others[file] = sources[file]
    PROVE  /\ Graph(others, path) = Graph(sources, path)
           /\ Analyzed(others, path) = Analyzed(sources, path)
           /\ Diagnosis(others, path, version) = Diagnosis(sources, path, version)
<1>1. /\ Program(others, path) = Program(sources, path)
      /\ Obstacles(others, {}, path) = Obstacles(sources, {}, path)
  BY SameProgram
<1>2. Graph(others, path) = Graph(sources, path)
  BY <1>1 DEF Graph
<1>3. Loadable(others, {}, path) <=> Loadable(sources, {}, path)
  BY <1>1 DEF Loadable
<1>4. Analyzed(others, path) = Analyzed(sources, path)
  BY <1>2, <1>3 DEF Analyzed
<1>5. path \in Program(sources, path)
  BY ProgramIs
<1>6. /\ {file \in Program(others, path) : ~others[file].body}
           = {file \in Program(sources, path) : ~sources[file].body}
      /\ {file \in Program(others, path) : ~others[file].typed}
           = {file \in Program(sources, path) : ~sources[file].typed}
      /\ others[path] = sources[path]
  BY <1>1, <1>5
<1>7. Diagnosis(others, path, version) = Diagnosis(sources, path, version)
  BY <1>1, <1>6 DEF Diagnosis
<1> QED BY <1>2, <1>4, <1>7

\* An open document that does not read the changed file keeps what it says.
LEMMA UnreadKept ==
    ASSUME NEW sources, NEW others, NEW path \in MalFiles, NEW document, NEW shown, NEW changed,
           OpenHolds(sources, path, document, shown), ~Reads(document, changed),
           \A file \in MalFiles : file # changed => others[file] = sources[file]
    PROVE  OpenHolds(others, path, document, shown)
<1>1. PICK version \in 1..MaxVersion, text \in Texts : \E analysis :
            /\ document = Document(TRUE, version, text, analysis, Diagnosis(sources, path, version))
            /\ shown = Diagnosis(sources, path, version)
            /\ \/ analysis = Analyzed(sources, path)
               \/ /\ Analyzed(sources, path) = Ready(Graph(sources, path))
                  /\ analysis = Indexed(Graph(sources, path))
  BY DEF OpenHolds
<1>2. PICK analysis :
            /\ document = Document(TRUE, version, text, analysis, Diagnosis(sources, path, version))
            /\ shown = Diagnosis(sources, path, version)
            /\ \/ analysis = Analyzed(sources, path)
               \/ /\ Analyzed(sources, path) = Ready(Graph(sources, path))
                  /\ analysis = Indexed(Graph(sources, path))
  BY <1>1
<1>3. analysis # Failed(NoGraph) /\ changed \notin DOMAIN analysis.graph
  <2>1. analysis = document.analysis
    <3> DEFINE d == Diagnosis(sources, path, version)
    <3>1. document = Document(TRUE, version, text, analysis, d)
      BY <1>2
    <3> HIDE DEF d
    <3> QED BY <3>1 DEF Document
  <2> QED BY <2>1 DEF Reads
<1> DEFINE graph == Graph(sources, path)
           a == Analyzed(sources, path)
<1>4. /\ a = Failed(NoGraph) \/ a = Failed(graph) \/ a = Ready(graph)
      /\ DOMAIN graph = Program(sources, path) /\ DOMAIN graph \subseteq MalFiles
  BY AnalyzedIs
<1>5. analysis.graph = graph
  <2>1. CASE analysis = a
    <3>1. a = Failed(graph) \/ a = Ready(graph)
      BY <1>3, <1>4, <2>1
    <3> HIDE DEF graph, a
    <3> QED BY <2>1, <3>1, Parts, Zenon
  <2>2. CASE analysis = Indexed(graph)
    <3> HIDE DEF graph
    <3> QED BY <2>2, Parts, Zenon
  <2> QED BY <1>2, <2>1, <2>2
<1>6. \A file \in Program(sources, path) : others[file] = sources[file]
  BY <1>3, <1>4, <1>5
<1>7. /\ Graph(others, path) = graph /\ Analyzed(others, path) = a
      /\ Diagnosis(others, path, version) = Diagnosis(sources, path, version)
  BY <1>6, SameAnswers
<1> QED BY <1>2, <1>7 DEF OpenHolds

-----------------------------------------------------------------------------
(* Publishing after a change. *)

\* The document after its analysis is made again and its report sent unless it was already.
Fresh(sources, path, document) ==
    LET report == Diagnosis(sources, path, document.version)
    IN  [document EXCEPT !.analysis = Analyzed(sources, path),
                         !.published = IF Suppressed(document, report) THEN @ ELSE report]

\* The records with these parts, of which there is one.
Alike(version, text, analysis, published) ==
    [open : {TRUE}, version : {version}, text : {text}, analysis : {analysis}, published : {published}]

\* A document is its parts.
LEMMA OneDocument ==
    ASSUME NEW version, NEW text, NEW analysis, NEW published,
           NEW document \in Alike(version, text, analysis, published)
    PROVE  document = Document(TRUE, version, text, analysis, published)
<1> DEFINE R == Alike(version, text, analysis, published)
<1>1. Document(TRUE, version, text, analysis, published) \in R
  BY DEF Alike, Document
<1>2. \A a, b \in R : a = b
  <2> TAKE a \in R, b \in R
  <2>1. /\ a.open = b.open /\ a.version = b.version /\ a.text = b.text
        /\ a.analysis = b.analysis /\ a.published = b.published
    BY DEF Alike
  <2> QED BY <2>1 DEF Alike
<1> HIDE DEF R
<1>3. document \in R
  BY DEF R
<1> QED BY <1>1, <1>2, <1>3

\* A fresh document has the analysis and the report of its texts.
LEMMA FreshIs ==
    ASSUME NEW sources, NEW path, NEW version, NEW text, NEW analysis, NEW published
    PROVE  Fresh(sources, path, Document(TRUE, version, text, analysis, published))
             = Document(TRUE, version, text, Analyzed(sources, path), Diagnosis(sources, path, version))
<1> DEFINE d == Document(TRUE, version, text, analysis, published)
           report == Diagnosis(sources, path, version)
           made == Analyzed(sources, path)
<1>1. d.version = version /\ d.published = published
  BY DEF Document
<1>2. Fresh(sources, path, d)
        = [d EXCEPT !.analysis = made, !.published = IF published = report THEN @ ELSE report]
  <2> HIDE DEF d
  <2> QED BY <1>1 DEF Fresh, Suppressed
<1> HIDE DEF made, report
<1>3. [d EXCEPT !.analysis = made, !.published = IF published = report THEN @ ELSE report]
        = Document(TRUE, version, text, made, report)
  <2>1. [d EXCEPT !.analysis = made, !.published = IF published = report THEN @ ELSE report]
          \in Alike(version, text, made, report)
    BY DEF Alike, Document
  <2> QED BY <2>1, OneDocument
<1>4. Fresh(sources, path, d) = Document(TRUE, version, text, made, report)
  <2> HIDE DEF d
  <2> QED BY <1>2, <1>3
<1> QED BY <1>4 DEF made, report

\* A document marked stale.
LEMMA StaleIs ==
    ASSUME NEW version, NEW text, NEW analysis, NEW published
    PROVE  [Document(TRUE, version, text, analysis, published) EXCEPT !.analysis = Stale]
             = Document(TRUE, version, text, Stale, published)
<1>1. [Document(TRUE, version, text, analysis, published) EXCEPT !.analysis = Stale]
        \in Alike(version, text, Stale, published)
  BY DEF Alike, Document
<1> QED BY <1>1, OneDocument

\* What publishing leaves of one document: stale ones are made fresh, the others stay.
LEMMA PublishesIs ==
    ASSUME NEW docs, NEW shown, Publishes(docs, shown)
    PROVE  /\ documents' = [path \in MalFiles |-> documents'[path]]
           /\ client' = [path \in MalFiles |-> client'[path]]
           /\ \A path \in MalFiles :
                 /\ documents'[path] = IF docs[path].open /\ docs[path].analysis = Stale
                                       THEN Fresh(Seen(docs, disk), path, docs[path]) ELSE docs[path]
                 /\ client'[path] = IF documents'[path].published # docs[path].published
                                    THEN documents'[path].published ELSE shown[path]
<1>1. Visible(docs) = Seen(docs, disk)
  BY DEF Visible, Seen
<1>2. /\ documents' = [path \in MalFiles |->
            IF docs[path].open /\ docs[path].analysis = Stale
            THEN Fresh(Seen(docs, disk), path, docs[path]) ELSE docs[path]]
      /\ client' = [path \in MalFiles |->
            IF documents'[path].published # docs[path].published
            THEN documents'[path].published ELSE shown[path]]
  BY <1>1 DEF Publishes, Fresh
<1> QED BY <1>2

\* An open document whose report, if it has one, is the one shown.
Opened(document, shown) ==
    \E version \in 1..MaxVersion, text \in Texts :
        \E analysis, published :
            /\ document = Document(TRUE, version, text, analysis, published)
            /\ published # Unpublished => shown = published

\* A document that holds is an open one with the report shown.
LEMMA OpenIs ==
    ASSUME NEW sources, NEW path, NEW document, NEW shown, OpenHolds(sources, path, document, shown)
    PROVE  Opened(document, shown) /\ document.open = TRUE
<1>1. PICK version \in 1..MaxVersion, text \in Texts : \E analysis :
            /\ document = Document(TRUE, version, text, analysis, Diagnosis(sources, path, version))
            /\ shown = Diagnosis(sources, path, version)
  BY DEF OpenHolds
<1>2. PICK analysis :
            /\ document = Document(TRUE, version, text, analysis, Diagnosis(sources, path, version))
            /\ shown = Diagnosis(sources, path, version)
  BY <1>1
<1> DEFINE report == Diagnosis(sources, path, version)
<1>3. document = Document(TRUE, version, text, analysis, report) /\ shown = report
  BY <1>2
<1> HIDE DEF report
<1>4. document.open = TRUE
  BY <1>3 DEF Document
<1>5. Opened(document, shown)
  BY <1>3, Zenon DEF Opened
<1> QED BY <1>4, <1>5

Staled(document) == [document EXCEPT !.analysis = Stale]
Reported(fresh, stale, shown) == IF fresh.published # stale.published THEN fresh.published ELSE shown

\* A stale document is analysed again and its report reaches the editor.
LEMMA Renewed ==
    ASSUME NEW sources, NEW path \in MalFiles, NEW document, NEW shown, Opened(document, shown)
    PROVE  /\ Staled(document).open = TRUE /\ Staled(document).analysis = Stale
           /\ Staled(document).text = document.text
           /\ Fresh(sources, path, Staled(document)).open = document.open
           /\ Fresh(sources, path, Staled(document)).version = document.version
           /\ Fresh(sources, path, Staled(document)).text = document.text
           /\ OpenHolds(sources, path, Fresh(sources, path, Staled(document)),
                        Reported(Fresh(sources, path, Staled(document)), Staled(document), shown))
<1> DEFINE stale == Staled(document)
<1>1. PICK version \in 1..MaxVersion, text \in Texts : \E analysis, published :
            /\ document = Document(TRUE, version, text, analysis, published)
            /\ published # Unpublished => shown = published
  BY DEF Opened
<1>2. PICK analysis, published :
            /\ document = Document(TRUE, version, text, analysis, published)
            /\ published # Unpublished => shown = published
  BY <1>1
<1> DEFINE fresh == Fresh(sources, path, stale)
           report == Diagnosis(sources, path, version)
           made == Analyzed(sources, path)
<1>3. stale = Document(TRUE, version, text, Stale, published)
  <2>1. document = Document(TRUE, version, text, analysis, published)
    BY <1>2
  <2>2. stale = [Document(TRUE, version, text, analysis, published) EXCEPT !.analysis = Stale]
    BY <2>1, Zenon DEF Staled
  <2>3. [Document(TRUE, version, text, analysis, published) EXCEPT !.analysis = Stale]
          = Document(TRUE, version, text, Stale, published)
    BY StaleIs
  <2> QED BY <2>2, <2>3, Zenon
<1>4. fresh = Document(TRUE, version, text, made, report)
  <2>1. Fresh(sources, path, Document(TRUE, version, text, Stale, published))
          = Document(TRUE, version, text, made, report)
    BY FreshIs
  <2> QED BY <1>3, <2>1, Zenon
<1>5. report # Unpublished
  <2>1. version \in 0..MaxVersion
    BY ServerAssumption
  <2> QED BY <2>1, DiagnosisIs
<1>6. /\ stale.open = TRUE /\ stale.analysis = Stale /\ stale.text = text /\ stale.published = published
      /\ document.open = TRUE /\ document.version = version /\ document.text = text
  BY <1>2, <1>3 DEF Document
<1> HIDE DEF report, made, fresh, stale
<1>7. fresh.open = TRUE /\ fresh.version = version /\ fresh.text = text /\ fresh.published = report
  BY <1>4 DEF Document
<1> DEFINE seen == Reported(fresh, stale, shown)
<1>8. seen = report
  BY <1>2, <1>5, <1>6, <1>7 DEF Reported
<1> HIDE DEF seen
<1>9. OpenHolds(sources, path, fresh, seen)
  <2>1. /\ fresh = Document(TRUE, version, text, Analyzed(sources, path), Diagnosis(sources, path, version))
        /\ seen = Diagnosis(sources, path, version)
    BY <1>4, <1>8 DEF report, made
  <2> QED BY <2>1 DEF OpenHolds
<1>10. /\ stale.open = TRUE /\ stale.analysis = Stale /\ stale.text = document.text
       /\ fresh.open = document.open /\ fresh.version = document.version
       /\ fresh.text = document.text
  BY <1>6, <1>7
<1> QED BY <1>9, <1>10 DEF fresh, seen, stale

Buffer(document) == <<document.open, document.version, document.text>>

\* A closed document is not open.
LEMMA ClosedIs == Closed.open = FALSE
  BY DEF Closed

\* Whatever one document has become, publishing makes every report one of its moment, and
\* touches no document that did not read the change.
LEMMA Republished ==
    ASSUME ServerInv, NEW changed \in MalFiles, NEW docs, NEW shown,
           \A path \in MalFiles :
              path # changed => docs[path] = documents[path] /\ shown[path] = client[path],
           Opened(docs[changed], shown[changed]) \/ (docs[changed] = Closed /\ shown[changed] = Nothing),
           Publishes(Invalidated(docs, changed), shown), disk' = disk
    PROVE  /\ ServerInv'
           /\ \A path \in MalFiles : path # changed =>
                 /\ Buffer(documents'[path]) = Buffer(documents[path])
                 /\ documents[path].open /\ ~Reads(documents[path], changed)
                       => documents'[path] = documents[path]
<1> DEFINE before == Seen(documents, disk)
           after == Seen(docs, disk)
           marked == Invalidated(docs, changed)
           Marks(path) == docs[path].open /\ (path = changed \/ Reads(docs[path], changed))
<1>1. /\ documents' = [path \in MalFiles |-> documents'[path]]
      /\ client' = [path \in MalFiles |-> client'[path]]
      /\ \A path \in MalFiles :
            /\ documents'[path] = IF marked[path].open /\ marked[path].analysis = Stale
                                  THEN Fresh(Seen(marked, disk), path, marked[path]) ELSE marked[path]
            /\ client'[path] = IF documents'[path].published # marked[path].published
                               THEN documents'[path].published ELSE shown[path]
  <2> HIDE DEF marked
  <2>1. Publishes(marked, shown)
    BY DEF marked
  <2> QED BY <2>1, PublishesIs
<1>2. \A path \in MalFiles :
        marked[path] = IF Marks(path) THEN [docs[path] EXCEPT !.analysis = Stale] ELSE docs[path]
  BY DEF Invalidated
<1>3. \A path \in MalFiles : Holds(before, path, documents[path], client[path])
  BY DEF ServerInv
<1>4. ASSUME NEW path \in MalFiles
      PROVE  Opened(docs[path], shown[path]) \/ (docs[path] = Closed /\ shown[path] = Nothing)
  <2>1. CASE path = changed
    BY <2>1
  <2>2. CASE path # changed
    <3>1. docs[path] = documents[path] /\ shown[path] = client[path]
      BY <2>2
    <3>2. CASE OpenHolds(before, path, documents[path], client[path])
      <4>1. Opened(documents[path], client[path])
        <5> HIDE DEF before
        <5> QED BY <3>2, OpenIs
      <4> QED BY <3>1, <4>1
    <3> QED BY <1>3, <3>1, <3>2 DEF Holds
  <2> QED BY <2>1, <2>2
<1>5. ASSUME NEW path \in MalFiles, Opened(docs[path], shown[path]) PROVE docs[path].open = TRUE
  <2>1. PICK version \in 1..MaxVersion, text \in Texts : \E analysis, published :
            docs[path] = Document(TRUE, version, text, analysis, published)
    BY <1>5 DEF Opened
  <2>2. PICK analysis, published : docs[path] = Document(TRUE, version, text, analysis, published)
    BY <2>1
  <2> QED BY <2>2 DEF Document
<1> HIDE DEF marked
<1>6. Seen(marked, disk) = after
  <2> SUFFICES ASSUME NEW path \in MalFiles
               PROVE  marked[path].open = docs[path].open /\ marked[path].text = docs[path].text
    BY DEF Seen
  <2>1. CASE Marks(path)
    <3>1. Opened(docs[path], shown[path])
      BY <1>4, <2>1, ClosedIs
    <3>2. marked[path] = Staled(docs[path])
      BY <1>2, <2>1 DEF Staled
    <3>3. marked[path].open = TRUE /\ marked[path].text = docs[path].text
      <4>1. Staled(docs[path]).open = TRUE /\ Staled(docs[path]).text = docs[path].text
        BY <3>1, Renewed, Zenon
      <4> QED BY <3>2, <4>1
    <3> QED BY <1>5, <3>1, <3>3
  <2>2. CASE ~Marks(path)
    BY <1>2, <2>2
  <2> QED BY <2>1, <2>2
<1> HIDE DEF after
<1>7. ASSUME NEW path \in MalFiles
      PROVE  /\ Holds(after, path, documents'[path], client'[path])
             /\ Buffer(documents'[path]) = Buffer(docs[path])
             /\ ~Marks(path) => documents'[path] = docs[path]
  <2>1. CASE Marks(path)
    <3> DEFINE fresh == Fresh(after, path, marked[path])
    <3>1. Opened(docs[path], shown[path])
      BY <1>4, <2>1, ClosedIs
    <3>2. marked[path] = Staled(docs[path])
      BY <1>2, <2>1 DEF Staled
    <3> DEFINE stale == Staled(docs[path])
               renewed == Fresh(after, path, stale)
    <3>0. /\ stale.open = TRUE /\ stale.analysis = Stale
          /\ renewed.open = docs[path].open /\ renewed.version = docs[path].version
          /\ renewed.text = docs[path].text
          /\ OpenHolds(after, path, renewed, Reported(renewed, stale, shown[path]))
      <4> DEFINE d == docs[path]
                 s == shown[path]
      <4>1. Opened(d, s)
        BY <3>1
      <4> HIDE DEF d, s
      <4>2. Staled(d).open = TRUE /\ Staled(d).analysis = Stale
        BY <4>1, Renewed, ZenonT(60)
      <4>3. Fresh(after, path, Staled(d)).open = d.open
        BY <4>1, Renewed, ZenonT(60)
      <4>4. Fresh(after, path, Staled(d)).version = d.version
        BY <4>1, Renewed, ZenonT(60)
      <4>5. Fresh(after, path, Staled(d)).text = d.text
        BY <4>1, Renewed, ZenonT(60)
      <4>6. OpenHolds(after, path, Fresh(after, path, Staled(d)),
                      Reported(Fresh(after, path, Staled(d)), Staled(d), s))
        BY <4>1, Renewed, ZenonT(60)
      <4> QED BY <4>2, <4>3, <4>4, <4>5, <4>6 DEF d, s
    <3> HIDE DEF stale
    <3>3. /\ marked[path].open = TRUE /\ marked[path].analysis = Stale
          /\ fresh.open = docs[path].open /\ fresh.version = docs[path].version
          /\ fresh.text = docs[path].text
          /\ OpenHolds(after, path, fresh, Reported(fresh, marked[path], shown[path]))
      <4>1. marked[path] = stale
        BY <3>2 DEF stale
      <4> QED BY <3>0, <4>1, Zenon
    <3>4. documents'[path] = fresh
      BY <1>1, <1>6, <3>3
    <3> HIDE DEF fresh
    <3>5. client'[path] = Reported(fresh, marked[path], shown[path])
      BY <1>1, <3>4 DEF Reported
    <3> QED BY <2>1, <3>3, <3>4, <3>5 DEF Holds, Buffer
  <2>2. CASE ~Marks(path) /\ Opened(docs[path], shown[path])
    <3>1. path # changed /\ ~Reads(docs[path], changed) /\ docs[path] = documents[path]
          /\ shown[path] = client[path] /\ docs[path].open = TRUE /\ marked[path] = docs[path]
      BY <1>2, <1>5, <2>2
    <3>2. OpenHolds(before, path, documents[path], client[path])
      BY <1>3, <3>1, ClosedIs DEF Holds
    <3>3. \A file \in MalFiles : file # changed => after[file] = before[file]
      BY DEF after, Seen
    <3>4. OpenHolds(after, path, documents[path], client[path])
      <4> HIDE DEF before
      <4> QED BY <3>1, <3>2, <3>3, UnreadKept
    <3>5. docs[path].analysis # Stale
      BY <3>1 DEF Reads, Stale
    <3>6. documents'[path] = docs[path]
      BY <1>1, <3>1, <3>5
    <3>7. client'[path] = shown[path]
      BY <1>1, <3>1, <3>6
    <3> QED BY <3>1, <3>4, <3>6, <3>7 DEF Holds, Buffer
  <2>3. CASE ~Marks(path) /\ docs[path] = Closed /\ shown[path] = Nothing
    <3>1. marked[path] = Closed /\ marked[path].open = FALSE
      BY <1>2, <2>3, ClosedIs
    <3>2. documents'[path] = Closed
      BY <1>1, <3>1
    <3>3. client'[path] = Nothing
      BY <1>1, <2>3, <3>1, <3>2
    <3> QED BY <2>3, <3>2, <3>3 DEF Holds, Buffer
  <2> QED BY <1>4, <2>1, <2>2, <2>3
<1>8. Seen(documents', disk') = after
  <2> SUFFICES ASSUME NEW path \in MalFiles
               PROVE  documents'[path].open = docs[path].open /\ documents'[path].text = docs[path].text
    BY DEF Seen, after
  <2> QED BY <1>7 DEF Buffer
<1>9. ServerInv'
  <2>1. disk' \in [MalFiles -> Texts \cup {Missing}]
    BY DEF ServerInv
  <2>2. \A path \in MalFiles : Holds(Seen(documents', disk'), path, documents'[path], client'[path])
    BY <1>7, <1>8
  <2> QED BY <1>1, <2>1, <2>2 DEF ServerInv
<1>10. ASSUME NEW path \in MalFiles, path # changed
       PROVE  /\ Buffer(documents'[path]) = Buffer(documents[path])
              /\ documents[path].open /\ ~Reads(documents[path], changed)
                    => documents'[path] = documents[path]
  <2>1. docs[path] = documents[path]
    BY <1>10
  <2> QED BY <1>7, <1>10, <2>1
<1> QED BY <1>9, <1>10

-----------------------------------------------------------------------------
(* The messages. *)

\* A document that holds and is open has its report shown.
LEMMA OpenDocument ==
    ASSUME ServerInv, NEW path \in MalFiles, documents[path].open
    PROVE  /\ OpenHolds(Seen(documents, disk), path, documents[path], client[path])
           /\ Opened(documents[path], client[path])
<1>1. OpenHolds(Seen(documents, disk), path, documents[path], client[path])
  BY ClosedIs DEF ServerInv, Holds
<1> QED BY <1>1, OpenIs

\* An opened document replaces whatever was open.
LEMMA DidOpenIs ==
    ASSUME ServerInv, NEW path \in MalFiles, NEW text \in Contents[path], DidOpen(path, text)
    PROVE  \E docs, shown :
              /\ \A other \in MalFiles :
                    other # path => docs[other] = documents[other] /\ shown[other] = client[other]
              /\ Opened(docs[path], shown[path]) \/ (docs[path] = Closed /\ shown[path] = Nothing)
              /\ Publishes(Invalidated(docs, path), shown) /\ disk' = disk
<1> DEFINE docs == [documents EXCEPT ![path] = Document(TRUE, 1, text, Stale, Unpublished)]
<1>1. Publishes(Invalidated(docs, path), client) /\ disk' = disk
  BY DEF DidOpen, Document
<1>2. /\ docs[path] = Document(TRUE, 1, text, Stale, Unpublished)
      /\ \A other \in MalFiles : other # path => docs[other] = documents[other]
  BY DEF ServerInv
<1> HIDE DEF docs
<1>3. Opened(docs[path], client[path])
  <2>1. text \in Texts /\ 1 \in 1..MaxVersion
    BY ServerAssumption
  <2> QED BY <1>2, <2>1 DEF Opened
<1> QED BY <1>1, <1>2, <1>3

\* A changed document keeps its analysis and report until they are renewed.
LEMMA DidChangeIs ==
    ASSUME ServerInv, NEW path \in MalFiles, NEW version \in 1..MaxVersion, NEW text \in Contents[path],
           DidChange(path, version, text)
    PROVE  \E docs, shown :
              /\ \A other \in MalFiles :
                    other # path => docs[other] = documents[other] /\ shown[other] = client[other]
              /\ Opened(docs[path], shown[path]) \/ (docs[path] = Closed /\ shown[path] = Nothing)
              /\ Publishes(Invalidated(docs, path), shown) /\ disk' = disk
<1> DEFINE docs == [documents EXCEPT ![path].version = version, ![path].text = text]
<1>1. Publishes(Invalidated(docs, path), client) /\ disk' = disk /\ documents[path].open
  BY DEF DidChange
<1>2. /\ docs[path] = [documents[path] EXCEPT !.version = version, !.text = text]
      /\ \A other \in MalFiles : other # path => docs[other] = documents[other]
  <2>1. documents = [other \in MalFiles |-> documents[other]]
    BY DEF ServerInv
  <2> DEFINE first == [documents EXCEPT ![path].version = version]
  <2>2. docs = [first EXCEPT ![path].text = text]
    OBVIOUS
  <2>3. /\ first[path] = [documents[path] EXCEPT !.version = version]
        /\ \A other \in MalFiles : other # path => first[other] = documents[other]
        /\ DOMAIN first = MalFiles
    BY <2>1
  <2> HIDE DEF first, docs
  <2>4. /\ docs[path] = [first[path] EXCEPT !.text = text]
        /\ \A other \in MalFiles : other # path => docs[other] = first[other]
    BY <2>2, <2>3
  <2> QED BY <2>3, <2>4
<1> HIDE DEF docs
<1>3. Opened(documents[path], client[path])
  BY <1>1, OpenDocument
<1>4. PICK was \in 1..MaxVersion, old \in Texts : \E analysis, published :
            /\ documents[path] = Document(TRUE, was, old, analysis, published)
            /\ published # Unpublished => client[path] = published
  BY <1>3 DEF Opened
<1>5. PICK analysis, published :
            /\ documents[path] = Document(TRUE, was, old, analysis, published)
            /\ published # Unpublished => client[path] = published
  BY <1>4
<1>6. docs[path] = Document(TRUE, version, text, analysis, published)
  <2>1. docs[path] = [Document(TRUE, was, old, analysis, published) EXCEPT !.version = version, !.text = text]
    BY <1>2, <1>5, Zenon
  <2>2. [Document(TRUE, was, old, analysis, published) EXCEPT !.version = version, !.text = text]
          \in Alike(version, text, analysis, published)
    BY DEF Alike, Document
  <2>3. docs[path] \in Alike(version, text, analysis, published)
    BY <2>1, <2>2, Zenon
  <2> QED BY <2>3, OneDocument
<1>7. Opened(docs[path], client[path])
  <2>1. text \in Texts
    BY ServerAssumption
  <2> QED BY <1>5, <1>6, <2>1 DEF Opened
<1> QED BY <1>1, <1>2, <1>7

\* A closed document shows nothing.
LEMMA DidCloseIs ==
    ASSUME ServerInv, NEW path \in MalFiles, DidClose(path)
    PROVE  \E docs, shown :
              /\ \A other \in MalFiles :
                    other # path => docs[other] = documents[other] /\ shown[other] = client[other]
              /\ Opened(docs[path], shown[path]) \/ (docs[path] = Closed /\ shown[path] = Nothing)
              /\ Publishes(Invalidated(docs, path), shown) /\ disk' = disk
<1> DEFINE docs == [documents EXCEPT ![path] = Closed]
           shown == [client EXCEPT ![path] = Nothing]
           closed == [Invalidated(documents, path) EXCEPT ![path] = Closed]
<1>1. Publishes(closed, shown) /\ disk' = disk
  BY DEF DidClose
<1>2. /\ docs[path] = Closed /\ \A other \in MalFiles : other # path => docs[other] = documents[other]
      /\ shown[path] = Nothing /\ \A other \in MalFiles : other # path => shown[other] = client[other]
  BY DEF ServerInv
<1>3. closed = Invalidated(docs, path)
  <2> DEFINE part(other) == IF documents[other].open /\ (other = path \/ Reads(documents[other], path))
                            THEN [documents[other] EXCEPT !.analysis = Stale] ELSE documents[other]
             kept(other) == IF docs[other].open /\ (other = path \/ Reads(docs[other], path))
                            THEN [docs[other] EXCEPT !.analysis = Stale] ELSE docs[other]
  <2>1. Invalidated(documents, path) = [other \in MalFiles |-> part(other)]
    BY DEF Invalidated
  <2>2. Invalidated(docs, path) = [other \in MalFiles |-> kept(other)]
    BY DEF Invalidated
  <2>3. \A other \in MalFiles : other # path => kept(other) = part(other)
    BY <1>2
  <2>4. kept(path) = Closed
    BY <1>2, ClosedIs
  <2> HIDE DEF part, kept
  <2>5. closed = [other \in MalFiles |-> IF other = path THEN Closed ELSE part(other)]
    BY <2>1
  <2> QED BY <2>2, <2>3, <2>4, <2>5
<1> HIDE DEF docs, shown, closed
<1> QED BY <1>1, <1>2, <1>3

\* A query adds to an analysis the index of the texts it has read already.
LEMMA QueryKept ==
    ASSUME ServerInv, NEW path \in MalFiles, Query(path)
    PROVE  /\ ServerInv'
           /\ \A other \in MalFiles : Buffer(documents'[other]) = Buffer(documents[other])
<1> DEFINE was == documents[path].analysis
           made == IF was = Stale THEN Analyzed(Visible(documents), path) ELSE was
           now == IF made.state = "ready" /\ made.semantic = NoGraph
                  THEN [made EXCEPT !.semantic = made.graph] ELSE made
           sources == Seen(documents, disk)
           graph == Graph(sources, path)
           analyzed == Analyzed(sources, path)
<1>1. /\ documents[path].open /\ disk' = disk /\ client' = client
      /\ documents' = [documents EXCEPT ![path].analysis = now]
  BY DEF Query
<1>2. OpenHolds(sources, path, documents[path], client[path])
  BY <1>1, OpenDocument
<1>3. PICK version \in 1..MaxVersion, text \in Texts : \E analysis :
            /\ documents[path] = Document(TRUE, version, text, analysis, Diagnosis(sources, path, version))
            /\ client[path] = Diagnosis(sources, path, version)
            /\ \/ analysis = analyzed
               \/ analyzed = Ready(graph) /\ analysis = Indexed(graph)
  BY <1>2 DEF OpenHolds
<1>4. PICK analysis :
            /\ documents[path] = Document(TRUE, version, text, analysis, Diagnosis(sources, path, version))
            /\ client[path] = Diagnosis(sources, path, version)
            /\ \/ analysis = analyzed
               \/ analyzed = Ready(graph) /\ analysis = Indexed(graph)
  BY <1>3
<1> DEFINE report == Diagnosis(sources, path, version)
<1>5. documents[path] = Document(TRUE, version, text, analysis, report) /\ client[path] = report
  BY <1>4
<1>6. analyzed = Failed(NoGraph) \/ analyzed = Failed(graph) \/ analyzed = Ready(graph)
  BY AnalyzedIs
<1>7. graph # NoGraph
  BY AnalyzedIs
<1> HIDE DEF report, analyzed, graph, sources, now
<1>8. was = analysis
  BY <1>5 DEF Document
<1>9. analysis = analyzed \/ (analyzed = Ready(graph) /\ analysis = Indexed(graph))
  BY <1>4 DEF analyzed, graph
<1>10. now = analyzed \/ (analyzed = Ready(graph) /\ now = Indexed(graph))
  <2> HIDE DEF was
  <2>1. was # Stale
    <3>1. was.state # "stale"
      BY <1>6, <1>8, <1>9 DEF Failed, Ready, Indexed
    <3> QED BY <3>1 DEF Stale
  <2>2. made = was
    BY <2>1
  <2> HIDE DEF made
  <2>3. now = IF was.state = "ready" /\ was.semantic = NoGraph
              THEN [was EXCEPT !.semantic = was.graph] ELSE was
    BY <2>2 DEF now
  <2>4. CASE was = Failed(NoGraph) \/ was = Failed(graph)
    <3>1. was.state # "ready"
      BY <2>4 DEF Failed
    <3>2. now = was
      BY <2>3, <3>1
    <3>3. was = analyzed
      <4>1. was # Indexed(graph)
        BY <3>1 DEF Indexed
      <4> QED BY <1>8, <1>9, <4>1
    <3> QED BY <3>2, <3>3
  <2>5. CASE was = Ready(graph)
    <3>1. was.state = "ready" /\ was.semantic = NoGraph /\ was.graph = graph
      BY <2>5 DEF Ready
    <3>2. now = [was EXCEPT !.semantic = graph]
      BY <2>3, <3>1
    <3>3. [Ready(graph) EXCEPT !.semantic = graph] = Indexed(graph)
      <4> DEFINE R == [state : {"ready"}, graph : {graph}, semantic : {graph}]
      <4>1. [Ready(graph) EXCEPT !.semantic = graph] \in R /\ Indexed(graph) \in R
        BY DEF Ready, Indexed
      <4>2. \A a, b \in R : a = b
        <5> TAKE a \in R, b \in R
        <5>1. a.state = b.state /\ a.graph = b.graph /\ a.semantic = b.semantic
          OBVIOUS
        <5> QED BY <5>1
      <4> HIDE DEF R
      <4> QED BY <4>1, <4>2
    <3>4. now = Indexed(graph)
      BY <2>5, <3>2, <3>3, Zenon
    <3>5. analyzed = Ready(graph)
      <4>1. was # Indexed(graph)
        <5>1. Indexed(graph).semantic = graph
          BY DEF Indexed
        <5> QED BY <1>7, <3>1, <5>1
      <4> QED BY <1>8, <1>9, <2>5, <4>1
    <3> QED BY <3>4, <3>5
  <2>6. CASE was = Indexed(graph)
    <3>1. was.semantic = graph
      BY <2>6 DEF Indexed
    <3>2. now = was
      BY <1>7, <2>3, <3>1
    <3>3. was # analyzed
      <4>1. analyzed.semantic = NoGraph
        BY <1>6 DEF Failed, Ready
      <4> QED BY <1>7, <3>1, <4>1
    <3> QED BY <1>8, <1>9, <2>6, <3>2, <3>3
  <2> QED BY <1>6, <1>8, <1>9, <2>4, <2>5, <2>6
<1>11. /\ documents' = [other \in MalFiles |-> documents'[other]]
       /\ documents'[path] = [documents[path] EXCEPT !.analysis = now]
       /\ \A other \in MalFiles : other # path => documents'[other] = documents[other]
  BY <1>1 DEF ServerInv
<1>12. documents'[path] = Document(TRUE, version, text, now, report)
  <2>1. documents'[path] = [Document(TRUE, version, text, analysis, report) EXCEPT !.analysis = now]
    BY <1>5, <1>11, Zenon
  <2>2. [Document(TRUE, version, text, analysis, report) EXCEPT !.analysis = now]
          \in Alike(version, text, now, report)
    BY DEF Alike, Document
  <2>3. documents'[path] \in Alike(version, text, now, report)
    BY <2>1, <2>2, Zenon
  <2> QED BY <2>3, OneDocument
<1>13. Buffer(documents'[path]) = Buffer(documents[path])
  BY <1>5, <1>12 DEF Document, Buffer
<1>14. \A other \in MalFiles : Buffer(documents'[other]) = Buffer(documents[other])
  BY <1>11, <1>13
<1>15. Seen(documents', disk') = sources
  <2> SUFFICES ASSUME NEW other \in MalFiles
               PROVE  documents'[other].open = documents[other].open /\ documents'[other].text = documents[other].text
    BY <1>1 DEF Seen, sources
  <2> QED BY <1>14 DEF Buffer
<1>16. OpenHolds(sources, path, documents'[path], client'[path])
  <2>1. client'[path] = report
    BY <1>1, <1>5
  <2>2. /\ documents'[path] = Document(TRUE, version, text, now, Diagnosis(sources, path, version))
        /\ client'[path] = Diagnosis(sources, path, version)
        /\ \/ now = Analyzed(sources, path)
           \/ /\ Analyzed(sources, path) = Ready(Graph(sources, path))
              /\ now = Indexed(Graph(sources, path))
    BY <1>10, <1>12, <2>1 DEF report, analyzed, graph
  <2> QED BY <2>2 DEF OpenHolds
<1>17. \A other \in MalFiles : Holds(sources, other, documents'[other], client'[other])
  BY <1>1, <1>11, <1>16 DEF ServerInv, Holds, sources
<1>18. ServerInv'
  BY <1>1, <1>11, <1>15, <1>17 DEF ServerInv
<1> QED BY <1>14, <1>18

\* Nothing reads the file of an open document.
LEMMA SaveKept ==
    ASSUME ServerInv, NEW path \in MalFiles, Save(path)
    PROVE  ServerInv' /\ documents' = documents
<1>1. /\ documents[path].open /\ disk' = [disk EXCEPT ![path] = documents[path].text]
      /\ documents' = documents /\ client' = client
  BY DEF Save
<1>2. disk \in [MalFiles -> Texts \cup {Missing}]
  BY DEF ServerInv
<1>3. documents[path].text \in Texts
  <2>1. Opened(documents[path], client[path])
    BY <1>1, OpenDocument
  <2>2. PICK version \in 1..MaxVersion, text \in Texts : \E analysis, published :
            documents[path] = Document(TRUE, version, text, analysis, published)
    BY <2>1 DEF Opened
  <2>3. PICK analysis, published : documents[path] = Document(TRUE, version, text, analysis, published)
    BY <2>2
  <2>4. documents[path].text = text
    BY <2>3 DEF Document
  <2> QED BY <2>4
<1>4. disk' \in [MalFiles -> Texts \cup {Missing}]
  BY <1>1, <1>2, <1>3
<1>5. \A other \in MalFiles : other # path => disk'[other] = disk[other]
  BY <1>1, <1>2
<1>6. Seen(documents', disk') = Seen(documents, disk)
  <2> SUFFICES ASSUME NEW other \in MalFiles, ~documents[other].open PROVE disk'[other] = disk[other]
    BY <1>1 DEF Seen
  <2> QED BY <1>1, <1>5
<1> QED BY <1>1, <1>4, <1>6 DEF ServerInv

\* Every message keeps the invariant, and changes one document and those that read it.
LEMMA MessageKept ==
    ASSUME ServerInv, Next
    PROVE  /\ ServerInv'
           /\ \/ \A path \in MalFiles : Buffer(documents'[path]) = Buffer(documents[path])
              \/ \E changed \in MalFiles : \A path \in MalFiles : path # changed =>
                    /\ Buffer(documents'[path]) = Buffer(documents[path])
                    /\ documents[path].open /\ ~Reads(documents[path], changed)
                          => documents'[path] = documents[path]
<1>1. PICK path \in MalFiles :
        \/ \E text \in Contents[path] :
              \/ DidOpen(path, text)
              \/ \E version \in 1..MaxVersion : DidChange(path, version, text)
        \/ DidClose(path) \/ Query(path) \/ Save(path)
  BY DEF Next
<1>2. CASE \/ \E text \in Contents[path] :
                 \/ DidOpen(path, text)
                 \/ \E version \in 1..MaxVersion : DidChange(path, version, text)
           \/ DidClose(path)
  <2>1. PICK docs, shown :
              /\ \A other \in MalFiles :
                    other # path => docs[other] = documents[other] /\ shown[other] = client[other]
              /\ Opened(docs[path], shown[path]) \/ (docs[path] = Closed /\ shown[path] = Nothing)
              /\ Publishes(Invalidated(docs, path), shown) /\ disk' = disk
    BY <1>2, DidOpenIs, DidChangeIs, DidCloseIs
  <2>2. /\ ServerInv'
        /\ \A other \in MalFiles : other # path =>
              /\ Buffer(documents'[other]) = Buffer(documents[other])
              /\ documents[other].open /\ ~Reads(documents[other], path)
                    => documents'[other] = documents[other]
    BY <2>1, Republished
  <2> QED BY <2>2
<1>3. CASE Query(path)
  BY <1>3, QueryKept
<1>4. CASE Save(path)
  BY <1>4, SaveKept
<1> QED BY <1>1, <1>2, <1>3, <1>4

\* The server starts with no document open.
LEMMA ServerInitial == Init => ServerInv
<1> SUFFICES ASSUME Init PROVE ServerInv
  OBVIOUS
<1>1. /\ documents = [path \in MalFiles |-> Closed] /\ client = [path \in MalFiles |-> Nothing]
      /\ disk \in [MalFiles -> Texts \cup {Missing}]
  BY DEF Init
<1> QED BY <1>1 DEF ServerInv, Holds

\* Every step keeps the invariant.
LEMMA ServerStep == ServerInv /\ [Next]_vars => ServerInv'
<1> SUFFICES ASSUME ServerInv, [Next]_vars PROVE ServerInv'
  OBVIOUS
<1>1. CASE Next
  BY <1>1, MessageKept
<1>2. CASE UNCHANGED vars
  BY <1>2 DEF vars, ServerInv
<1> QED BY <1>1, <1>2

-----------------------------------------------------------------------------
(* What the invariant says of the properties. *)

\* What an open document holds, by its parts.
LEMMA OpenParts ==
    ASSUME ServerInv, NEW path \in MalFiles, documents[path].open, NEW graph,
           graph = Graph(Seen(documents, disk), path)
    PROVE  /\ documents[path].text \in Texts /\ documents[path].version \in 1..MaxVersion
           /\ documents[path].published
                = Diagnosis(Seen(documents, disk), path, documents[path].version)
           /\ client[path] = documents[path].published
           /\ \/ /\ documents[path].analysis = Analyzed(Seen(documents, disk), path)
                 /\ documents[path].analysis \in {Failed(NoGraph), Failed(graph), Ready(graph)}
              \/ /\ documents[path].analysis = Indexed(graph)
                 /\ Analyzed(Seen(documents, disk), path) = Ready(graph)
<1> DEFINE sources == Seen(documents, disk)
<1>1. OpenHolds(sources, path, documents[path], client[path])
  BY OpenDocument
<1> HIDE DEF sources
<1>2. PICK version \in 1..MaxVersion, text \in Texts : \E analysis :
            /\ documents[path] = Document(TRUE, version, text, analysis, Diagnosis(sources, path, version))
            /\ client[path] = Diagnosis(sources, path, version)
            /\ \/ analysis = Analyzed(sources, path)
               \/ /\ Analyzed(sources, path) = Ready(Graph(sources, path))
                  /\ analysis = Indexed(Graph(sources, path))
  BY <1>1 DEF OpenHolds
<1>3. PICK analysis :
            /\ documents[path] = Document(TRUE, version, text, analysis, Diagnosis(sources, path, version))
            /\ client[path] = Diagnosis(sources, path, version)
            /\ \/ analysis = Analyzed(sources, path)
               \/ /\ Analyzed(sources, path) = Ready(Graph(sources, path))
                  /\ analysis = Indexed(Graph(sources, path))
  BY <1>2
<1>4. /\ documents[path].version = version /\ documents[path].text = text
      /\ documents[path].analysis = analysis
      /\ documents[path].published = Diagnosis(sources, path, version)
  BY <1>3 DEF Document
<1>5. Analyzed(sources, path) \in {Failed(NoGraph), Failed(graph), Ready(graph)}
  BY AnalyzedIs DEF sources
<1>6. graph = Graph(sources, path)
  BY DEF sources
<1> QED BY <1>3, <1>4, <1>5, <1>6 DEF sources

\* The shapes of mod.rs.
LEMMA ServerTypes == ServerInv => TypeOK
<1> SUFFICES ASSUME ServerInv PROVE TypeOK
  OBVIOUS
<1>1. disk \in [MalFiles -> Texts \cup {Missing}]
  BY DEF ServerInv
<1>2. Nothing \in Reports /\ Unpublished \in Reports
  <2>1. 0 \in 0..MaxVersion
    BY ServerAssumption
  <2> QED BY <2>1 DEF Nothing, Unpublished, Report, Reports
<1>3. ASSUME NEW path \in MalFiles
      PROVE  /\ client[path] \in Reports
             /\ documents[path].open => documents[path].text \in Texts /\ documents[path].version \in 1..MaxVersion
             /\ ~documents[path].open => documents[path] = Closed
             /\ documents[path].analysis.state \in {"stale", "failed", "ready"}
             /\ DOMAIN documents[path].analysis.graph \subseteq MalFiles
             /\ documents[path].published \in Reports
  <2>1. CASE documents[path].open
    <3> DEFINE graph == Graph(Seen(documents, disk), path)
    <3>1. DOMAIN graph \subseteq MalFiles
      BY AnalyzedIs
    <3>2. graph = Graph(Seen(documents, disk), path)
      OBVIOUS
    <3> HIDE DEF graph
    <3>3. /\ documents[path].text \in Texts /\ documents[path].version \in 1..MaxVersion
          /\ documents[path].published
               = Diagnosis(Seen(documents, disk), path, documents[path].version)
          /\ client[path] = documents[path].published
          /\ documents[path].analysis \in {Failed(NoGraph), Failed(graph), Ready(graph), Indexed(graph)}
      BY <2>1, <3>2, OpenParts
    <3>4. documents[path].version \in 0..MaxVersion
      BY <3>3, ServerAssumption
    <3>5. documents[path].published \in Reports
      BY <3>3, <3>4, DiagnosisIs
    <3>6. DOMAIN NoGraph = {}
      BY DEF NoGraph
    <3>7. /\ documents[path].analysis.state \in {"stale", "failed", "ready"}
          /\ documents[path].analysis.graph = NoGraph \/ documents[path].analysis.graph = graph
      BY <3>3 DEF Failed, Ready, Indexed
    <3>8. DOMAIN documents[path].analysis.graph \subseteq MalFiles
      BY <3>1, <3>6, <3>7
    <3> QED BY <2>1, <3>3, <3>5, <3>7, <3>8
  <2>2. CASE ~documents[path].open
    <3>1. documents[path] = Closed /\ client[path] = Nothing
      <4>1. Holds(Seen(documents, disk), path, documents[path], client[path])
        BY DEF ServerInv
      <4> QED BY <2>2, <4>1, OpenIs DEF Holds
    <3>2. DOMAIN NoGraph = {}
      BY DEF NoGraph
    <3> QED BY <1>2, <2>2, <3>1, <3>2 DEF Closed, Stale
  <2> QED BY <2>1, <2>2
<1>4. client \in [MalFiles -> Reports]
  BY <1>3 DEF ServerInv
<1> QED BY <1>1, <1>3, <1>4 DEF TypeOK

\* The editor shows the reports of this moment.
LEMMA ServerShows == ServerInv => ShownIsCurrent
<1> SUFFICES ASSUME ServerInv, NEW path \in MalFiles
             PROVE  client[path] = IF documents[path].open
                                   THEN Diagnosis(Visible(documents), path, documents[path].version)
                                   ELSE Nothing
  BY DEF ShownIsCurrent
<1>1. Visible(documents) = Seen(documents, disk)
  BY DEF Visible, Seen
<1>2. CASE documents[path].open
  BY <1>1, <1>2, OpenParts
<1>3. CASE ~documents[path].open
  <2>1. Holds(Seen(documents, disk), path, documents[path], client[path])
    BY DEF ServerInv
  <2> QED BY <1>3, <2>1, OpenIs DEF Holds
<1> QED BY <1>2, <1>3

\* Analyses and indexes are of the texts of this moment.
LEMMA ServerAnswers == ServerInv => AnswersAreCurrent
<1> SUFFICES ASSUME ServerInv PROVE AnswersAreCurrent
  OBVIOUS
<1> DEFINE sources == Seen(documents, disk)
<1>1. Visible(documents) = sources
  BY DEF Visible, Seen
<1> HIDE DEF sources
<1>2. ASSUME NEW path \in MalFiles, documents[path].open
      PROVE  /\ documents[path].analysis.state # "stale"
             /\ [documents[path].analysis EXCEPT !.semantic = NoGraph] = Analyzed(sources, path)
             /\ documents[path].analysis.semantic # NoGraph =>
                  /\ documents[path].analysis.semantic = Graph(sources, path)
  <2> DEFINE graph == Graph(sources, path)
             analysis == documents[path].analysis
  <2>1. graph = Graph(Seen(documents, disk), path) /\ sources = Seen(documents, disk)
    BY DEF sources
  <2> HIDE DEF graph
  <2>2. \/ analysis = Analyzed(sources, path) /\ analysis \in {Failed(NoGraph), Failed(graph), Ready(graph)}
        \/ analysis = Indexed(graph) /\ Analyzed(sources, path) = Ready(graph)
    BY <1>2, <2>1, OpenParts
  <2> HIDE DEF analysis
  <2>3. ASSUME NEW s, NEW g, NEW m
        PROVE  [[state |-> s, graph |-> g, semantic |-> m] EXCEPT !.semantic = NoGraph]
                 = [state |-> s, graph |-> g, semantic |-> NoGraph]
    <3> DEFINE R == [state : {s}, graph : {g}, semantic : {NoGraph}]
    <3>1. /\ [[state |-> s, graph |-> g, semantic |-> m] EXCEPT !.semantic = NoGraph] \in R
          /\ [state |-> s, graph |-> g, semantic |-> NoGraph] \in R
      OBVIOUS
    <3>2. \A a, b \in R : a = b
      <4> TAKE a \in R, b \in R
      <4>1. a.state = b.state /\ a.graph = b.graph /\ a.semantic = b.semantic
        OBVIOUS
      <4> QED BY <4>1
    <3> HIDE DEF R
    <3> QED BY <3>1, <3>2
  <2>4. /\ \A g : [Failed(g) EXCEPT !.semantic = NoGraph] = Failed(g)
        /\ \A g : [Ready(g) EXCEPT !.semantic = NoGraph] = Ready(g)
        /\ \A g : [Indexed(g) EXCEPT !.semantic = NoGraph] = Ready(g)
    BY <2>3, Zenon DEF Failed, Ready, Indexed
  <2>5. [analysis EXCEPT !.semantic = NoGraph] = Analyzed(sources, path)
    <3>1. CASE analysis = Analyzed(sources, path) /\ analysis \in {Failed(NoGraph), Failed(graph), Ready(graph)}
      <4>1. CASE analysis = Failed(NoGraph)
        <5>1. [analysis EXCEPT !.semantic = NoGraph] = Failed(NoGraph)
          BY <2>4, <4>1, Zenon
        <5> QED BY <3>1, <4>1, <5>1
      <4>2. CASE analysis = Failed(graph)
        <5>1. [analysis EXCEPT !.semantic = NoGraph] = Failed(graph)
          BY <2>4, <4>2, Zenon
        <5> QED BY <3>1, <4>2, <5>1
      <4>3. CASE analysis = Ready(graph)
        <5>1. [analysis EXCEPT !.semantic = NoGraph] = Ready(graph)
          BY <2>4, <4>3, Zenon
        <5> QED BY <3>1, <4>3, <5>1
      <4> QED BY <3>1, <4>1, <4>2, <4>3
    <3>2. CASE analysis = Indexed(graph) /\ Analyzed(sources, path) = Ready(graph)
      <4>1. [analysis EXCEPT !.semantic = NoGraph] = Ready(graph)
        BY <2>4, <3>2, Zenon
      <4> QED BY <3>2, <4>1
    <3> QED BY <2>2, <3>1, <3>2
  <2>6. analysis.state # "stale"
    BY <2>2 DEF Failed, Ready, Indexed
  <2>7. analysis.semantic # NoGraph => analysis.semantic = graph
    BY <2>2 DEF Failed, Ready, Indexed
  <2> QED BY <2>5, <2>6, <2>7 DEF analysis, graph
<1>3. AnalysesAreCurrent
  BY <1>1, <1>2 DEF AnalysesAreCurrent
<1>4. QueriesAnswerCurrentText
  <2> SUFFICES ASSUME NEW path \in MalFiles, documents[path].analysis.semantic # NoGraph,
                      NEW file \in DOMAIN documents[path].analysis.semantic
               PROVE  documents[path].analysis.semantic[file] = sources[file]
    BY <1>1 DEF QueriesAnswerCurrentText
  <2>1. documents[path].open
    <3> SUFFICES ASSUME ~documents[path].open PROVE FALSE
      OBVIOUS
    <3>1. Holds(Seen(documents, disk), path, documents[path], client[path])
      BY DEF ServerInv
    <3>2. documents[path] = Closed
      BY <3>1, OpenIs DEF Holds
    <3> QED BY <3>2 DEF Closed, Stale
  <2>2. documents[path].analysis.semantic = Graph(sources, path)
    BY <1>2, <2>1
  <2> QED BY <2>2, AnalyzedIs
<1> QED BY <1>3, <1>4 DEF AnswersAreCurrent

\* The documents whose buffer a step changes, as KeepsUnrelatedAnalyses finds them.
Touched(before, after) == {path \in MalFiles : Buffer(after[path]) # Buffer(before[path])}

\* A change that an analysis did not read leaves its document as it was.
LEMMA ServerSpares ==
    ASSUME ServerInv, Next, NEW path \in MalFiles,
           documents[path].open, documents[path].analysis.state = "ready",
           Touched(documents, documents') # {},
           Touched(documents, documents') \cap DOMAIN documents[path].analysis.graph = {}
    PROVE  documents'[path] = documents[path]
<1> DEFINE touched == Touched(documents, documents')
           analysis == documents[path].analysis
           graph == Graph(Seen(documents, disk), path)
<1>1. PICK changed \in MalFiles : \A other \in MalFiles : other # changed =>
            /\ Buffer(documents'[other]) = Buffer(documents[other])
            /\ documents[other].open /\ ~Reads(documents[other], changed)
                  => documents'[other] = documents[other]
  <2>1. ~ \A other \in MalFiles : Buffer(documents'[other]) = Buffer(documents[other])
    BY DEF Touched
  <2> QED BY <2>1, MessageKept
<1>2. touched = {changed}
  BY <1>1 DEF Touched
<1>3. graph = Graph(Seen(documents, disk), path)
  OBVIOUS
<1>4. path \in DOMAIN graph /\ graph # NoGraph
  BY AnalyzedIs
<1> HIDE DEF touched, graph
<1>5. analysis \in {Failed(NoGraph), Failed(graph), Ready(graph), Indexed(graph)}
  BY <1>3, OpenParts
<1>6. analysis = Ready(graph) \/ analysis = Indexed(graph)
  BY <1>5 DEF Failed
<1>7. analysis.graph = graph /\ analysis.state = "ready"
  BY <1>6 DEF Ready, Indexed
<1>8. changed \notin DOMAIN graph /\ path # changed
  BY <1>2, <1>4, <1>7 DEF touched
<1>9. analysis # Failed(NoGraph)
  BY <1>7 DEF Failed
<1>10. ~Reads(documents[path], changed)
  BY <1>7, <1>8, <1>9 DEF Reads
<1> QED BY <1>1, <1>8, <1>10

-----------------------------------------------------------------------------
(* The theorems. *)

\* Documents, analyses and reports have the shape mod.rs declares.
THEOREM TypesKept == Spec => []TypeOK
<1> QED BY ServerInitial, ServerStep, ServerTypes, PTL DEF Spec

\* After every notification and request the editor shows what the buffers and files of that
\* moment say of every open document, however the documents require each other.
THEOREM ShowsCurrent == Spec => []ShownIsCurrent
<1> QED BY ServerInitial, ServerStep, ServerShows, PTL DEF Spec

\* No analysis is left stale, and analysis and index are of the texts of the moment: a request
\* answered from them is answered from what the buffers hold.
THEOREM AnswersCurrent == Spec => []AnswersAreCurrent
<1> QED BY ServerInitial, ServerStep, ServerAnswers, PTL DEF Spec

\* invalidate_analyses_reading marks no analysis that succeeded without reading the change:
\* analysis, index and report of its document stay as they are.
THEOREM KeepsUnrelated == Spec => KeepsUnrelatedAnalyses
<1>1. ASSUME ServerInv, [Next]_vars
      PROVE  [LET Changed(document) == <<document.open, document.version, document.text>>
                  touched == {path \in MalFiles : Changed(documents'[path]) # Changed(documents[path])}
              IN  \A path \in MalFiles :
                     LET document == documents[path]
                     IN  /\ document.open /\ document.analysis.state = "ready"
                         /\ touched # {} /\ touched \cap DOMAIN document.analysis.graph = {}
                         => documents'[path] = document]_vars
  BY <1>1, ServerSpares DEF Touched, Buffer
<1> QED BY <1>1, ServerInitial, ServerStep, PTL DEF Spec, KeepsUnrelatedAnalyses
==============================================================================

SPECIFICATION MCSpec
CONSTANTS
    MalFiles = {"a", "b", "c"}
    CFiles = {}
    OtherPaths = {}
    Texts <- MCTexts
    Contents <- MCContents
    Missing = Missing
    MaxVersion = 2
INVARIANTS TypeOK ShownIsCurrent AnswersAreCurrent
PROPERTIES KeepsUnrelatedAnalyses

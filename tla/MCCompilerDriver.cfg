SPECIFICATION MCSpec
CONSTANTS
    MalFiles = {"root", "a", "b"}
    CFiles = {"c"}
    OtherPaths = {"/absolute"}
    Root = "root"
    Texts <- MCTexts
    Missing = Missing
    Names = {"n"}
    Processes = {"p1"}
    Builds = {"b1", "b2"}
    NoBuild = NoBuild
    Attempts = 2
    MaxSequence = 3
    BuiltSources <- MCBuiltSources
    Identifiers = {"x", "get"}
    PredefinedNames <- MCPredefinedNames
    MostValues = 4
    MostLambdas = 3
    Deepest = 3
INVARIANTS TypeOK GraphWellFormed LoadsWhatIsRequired
INVARIANTS DependenciesFirst ResolvesEveryFileOnce
INVARIANTS NamesResolve
INVARIANTS OwnDirectoryOnly RetriesOnlyLeftovers
PROPERTIES AnalysisEnds
CHECK_DEADLOCK FALSE

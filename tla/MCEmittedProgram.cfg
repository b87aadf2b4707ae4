CONSTANTS
    Programs <- MCPrograms
    TechniqueSets <- MCTechniques
    NoAnswer = NoAnswer
SPECIFICATION Spec
INVARIANTS OperandsLive NeverTrapped CountsMatchOwners FramesFit RegionsNestOnce ResponsibilitiesConserved
PROPERTY ImplementsMeaning

CONSTANTS
    Programs <- MCReordering
    TechniqueSets <- MCTechniques
    NoAnswer = NoAnswer
SPECIFICATION Spec
PROPERTY ImplementsMeaning

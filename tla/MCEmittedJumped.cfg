CONSTANTS
    Programs <- MCJumping
    TechniqueSets <- MCTechniques
    NoAnswer = NoAnswer
SPECIFICATION Spec
INVARIANT OperandsLive

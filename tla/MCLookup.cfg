CONSTANTS
    Nodes = {10, 20, 21, 30, 40}
    Self = 0
    Rank <- MCRank
    Answers <- MCAnswers
    K = 3
    Alpha = 2
SPECIFICATION Spec
INVARIANTS
    IInv
    OnlyWitnesses
    NoContactAskedTwice
    ResultIsNearest
    KNearestAsked
PROPERTIES
    NeverAskedAgain
    LookupProgresses
